----------------------------- MODULE OldIRBuffer -----------------------------
(***************************************************************************)
(* The IR buffer of the old VM's trace recorder (old-vm/Record.c): a      *)
(* two-ended buffer with instructions growing up from REF_BASE and         *)
(* literals growing down, per-opcode chains through the prev field, the   *)
(* literal word table kwords, and the recording life cycle that sets the   *)
(* buffer up, fills it, copies it into a fragment and frees it.           *)
(*                                                                         *)
(* The buffer is kept as memory: mem[i] is the cell at offset i of the     *)
(* allocation, and a reference r lives at mem[r - irmin], as with          *)
(* J->irbuf = baseir - J->irmin in the code.  Reallocation, memmove and    *)
(* memcpy are modelled by what they do to that memory.  Literal payloads   *)
(* and opcodes are model values.                                           *)
(***************************************************************************)
EXTENDS Integers, Sequences, FiniteSets

CONSTANTS
    InsOps,          \* opcodes of ordinary instructions recordIns emits
    Ints,            \* KINT payloads
    Words,           \* KWORD payloads
    LitTypes,        \* IR types of KWORD literals
    Offsets,         \* KBASEO payloads
    FuncPcs,         \* FUNC instructions a trace may start at
    RetPcs,          \* RET1 instructions a return trace may start at
    RefBias,         \* REF_BIAS
    InitBufSize,     \* IR_INITIAL_BUF_SIZE (256)
    BigBuf, BigOfs,  \* 256 and 128 of growIRBufferBottom
    InitKWords,      \* initial sizekwords (500)
    WordBytes,       \* sizeof(Word)
    MaxTraceLength,  \* MAX_TRACE_LENGTH (2000)
    SizeFragment,    \* J->sizefragment (256)
    NoVal            \* an unused field

ASSUME InitBufSize >= 4 /\ BigOfs <= BigBuf \div 2

RefBase  == RefBias          \* REF_BASE: the BASE instruction
RefFirst == RefBias + 1      \* REF_FIRST: the first recorded instruction
LitOps   == {"KINT", "KWORD", "KBASEO"}
Ops      == InsOps \cup LitOps \cup {"BASE", "LOOP", "SAVE"}

Cell    == [o : Ops, t : LitTypes \cup {NoVal}, v : Ints \cup Offsets \cup Nat \cup {NoVal}, prev : Nat]
Junk    == [o |-> "junk", t |-> NoVal, v |-> NoVal, prev |-> 0]
NewCell(o, t, v, prev) == [o |-> o, t |-> t, v |-> v, prev |-> prev]

Emission ==
    {<<"ins", o>> : o \in InsOps} \cup {<<"kint", k>> : k \in Ints}
    \cup {<<"kword", w, t>> : w \in Words, t \in LitTypes}
    \cup {<<"kbaseo", x>> : x \in Offsets}

VARIABLES
    mode,        \* J->mode, or "exit" once the process has exited
    buf,         \* the IR buffer fields of JitState and J->cur
    traceType,   \* J->cur.traceType
    startpc,     \* J->startpc
    code,        \* the bytecode at the trace start points
    fragments,   \* J->fragment[0 .. nfragments-1]
    written      \* history: each live reference's cell as it was emitted

vars == <<mode, buf, traceType, startpc, code, fragments, written>>

(* The buffer after recordCleanup: nothing allocated.                      *)
Cleaned ==
    [irmin |-> 0, irmax |-> 0, nins |-> RefBase, nk |-> RefBase,
     mem |-> <<>>, chain |-> [o \in Ops |-> 0],
     kw |-> <<>>, sizekwords |-> 0, kwcap |-> 0]

(* J->cur.ir[r]; outside the allocation the read is of no cell.            *)
Read(B, r) == IF r - B.irmin \in DOMAIN B.mem THEN B.mem[r - B.irmin] ELSE Junk
Write(B, r, c) == [B EXCEPT !.mem[r - B.irmin] = c]

(* growIRBufferTop: realloc to twice the size, or the first allocation.   *)
GrowIRBufferTop(B) ==
    LET sz == B.irmax - B.irmin
        lo == RefBase - InitBufSize \div 4
    IN  IF sz /= 0
        THEN [B EXCEPT !.irmax = B.irmin + 2 * sz,
                       !.mem = [i \in 0..(2 * sz - 1) |->
                                  IF i < sz THEN B.mem[i] ELSE Junk]]
        ELSE [B EXCEPT !.irmin = lo, !.irmax = lo + InitBufSize,
                       !.mem = [i \in 0..(InitBufSize - 1) |-> Junk]]

(* A buffer of size sz holding [0, n) of mem moved up by ofs; the other   *)
(* cells keep their old content (memmove in place) or are uninitialised.  *)
Moved(mem, sz, ofs, n, inPlace) ==
    [i \in 0..(sz - 1) |-> IF ofs <= i /\ i < ofs + n THEN mem[i - ofs]
                           ELSE IF inPlace THEN mem[i] ELSE Junk]

(* The shift without the memmove.                                          *)
GrowBottomNoMove(B) ==
    LET sz == B.irmax - B.irmin
        n  == B.nins - B.irmin
    IN  IF B.nins + sz \div 2 < B.irmax
        THEN [B EXCEPT !.irmin = @ - sz \div 4, !.irmax = @ - sz \div 4]
        ELSE LET ofs == IF sz >= BigBuf THEN BigOfs ELSE sz \div 2 IN
             [B EXCEPT !.irmin = @ - ofs, !.irmax = B.irmin - ofs + 2 * sz,
                       !.mem = Moved(B.mem, 2 * sz, ofs, n, FALSE)]

(* growIRBufferBottom: shift the content up by a quarter when more than    *)
(* half of the buffer is free at the top, else copy it into a buffer of    *)
(* twice the size, at most BigOfs (128) entries up.                        *)
GrowIRBufferBottom(B) ==
    LET sz == B.irmax - B.irmin
        n  == B.nins - B.irmin
    IN  IF B.nins + sz \div 2 < B.irmax
        THEN [B EXCEPT !.irmin = @ - sz \div 4, !.irmax = @ - sz \div 4,
                       !.mem = Moved(B.mem, sz, sz \div 4, n, TRUE)]
        ELSE LET ofs == IF sz >= BigBuf THEN BigOfs ELSE sz \div 2 IN
             [B EXCEPT !.irmin = @ - ofs, !.irmax = B.irmin - ofs + 2 * sz,
                       !.mem = Moved(B.mem, 2 * sz, ofs, n, FALSE)]


NextInsPastLimit(B) ==
    LET B1 == IF B.nins > B.irmax THEN GrowIRBufferTop(B) ELSE B
    IN  [B1 EXCEPT !.nins = @ + 1]

(* nextIns: room for the instruction at nins, growing the top if needed.   *)
NextIns(B) ==
    LET B1 == IF B.nins >= B.irmax THEN GrowIRBufferTop(B) ELSE B
    IN  [B1 EXCEPT !.nins = @ + 1]

(* nextLit: room for a literal at nk - 1, growing the bottom if needed.    *)
NextLit(B) ==
    LET B1 == IF B.nk <= B.irmin THEN GrowIRBufferBottom(B) ELSE B
    IN  [B1 EXCEPT !.nk = @ - 1]

EmitIRNoLink(B, op) ==
    [Write(NextIns(B), B.nins, NewCell(op, NoVal, NoVal, 0))
        EXCEPT !.chain[op] = B.nins]

(* emitIR: append the instruction and link it into its opcode's chain.     *)
(* The snapshot a guard opcode adds first (addSnapshot) does not touch the *)
(* IR buffer.                                                              *)
EmitIR(B, op) ==
    [Write(NextIns(B), B.nins, NewCell(op, NoVal, NoVal, B.chain[op]))
        EXCEPT !.chain[op] = B.nins]

(* The key a literal search compares: the value, and for a KWORD the type  *)
(* and the word in kwords.                                                  *)
LitKey(B, r) ==
    LET c == Read(B, r) IN
    IF c.o = "KWORD" THEN <<c.t, IF c.v + 1 \in DOMAIN B.kw THEN B.kw[c.v + 1] ELSE NoVal>>
    ELSE c.v

(* The search loop of emitKInt, emitKWord_ and emitKBaseOffset: follow the *)
(* chain from ref until a literal with the key, or 0.                      *)
RECURSIVE FindLit(_, _, _)
FindLit(B, ref, key) ==
    IF ref = 0 THEN 0
    ELSE IF LitKey(B, ref) = key THEN ref
    ELSE FindLit(B, Read(B, ref).prev, key)

(* Append a new literal cell at nk - 1 and make it the chain head.         *)
NewLit(B, op, t, v) ==
    [Write(NextLit(B), B.nk - 1, NewCell(op, t, v, B.chain[op]))
        EXCEPT !.chain[op] = B.nk - 1]

(* emitKInt.                                                               *)
EmitKInt(B, k) ==
    IF FindLit(B, B.chain["KINT"], k) /= 0 THEN B ELSE NewLit(B, "KINT", NoVal, k)

(* emitKWord_: when kwords is full, sizekwords doubles and the buffer is   *)
(* reallocated to sizekwords bytes (Record.c:288).                          *)
EmitKWord(B, w, t) ==
    IF FindLit(B, B.chain["KWORD"], <<t, w>>) /= 0 THEN B
    ELSE LET B1 == IF Len(B.kw) >= B.sizekwords
                   THEN [B EXCEPT !.sizekwords = 2 * @, !.kwcap = 2 * B.sizekwords]
                   ELSE B
         IN  [NewLit(B1, "KWORD", t, Len(B.kw)) EXCEPT !.kw = Append(@, w)]

EmitKBaseOffsetWrongChain(B, x) ==
    IF FindLit(B, B.chain["KINT"], x) /= 0 THEN B ELSE NewLit(B, "KBASEO", NoVal, x)

(* emitKBaseOffset.                                                        *)
EmitKBaseOffset(B, x) ==
    IF FindLit(B, B.chain["KBASEO"], x) /= 0 THEN B ELSE NewLit(B, "KBASEO", NoVal, x)

Emit(B, e) ==
    CASE e[1] = "ins"    -> EmitIR(B, e[2])
      [] e[1] = "kint"   -> EmitKInt(B, e[2])
      [] e[1] = "kword"  -> EmitKWord(B, e[2], e[3])
      [] e[1] = "kbaseo" -> EmitKBaseOffset(B, e[2])

(* The history of the references of B: earlier ones keep their cell.      *)
Remember(B) ==
    written' = [r \in B.nk..(B.nins - 1) |->
                  IF r \in DOMAIN written THEN written[r] ELSE Read(B, r)]

-----------------------------------------------------------------------------
(* recordSetup: a fresh buffer, kwords of sizekwords words, and BASE,     *)
(* whose emission allocates the IR buffer.                                 *)
RecordSetup ==
    [EmitIR(Cleaned, "BASE") EXCEPT !.sizekwords = InitKWords,
                                    !.kwcap = InitKWords * WordBytes]

(* startRecording (type FUNCTION_TRACE or RETURN_TRACE); the interpreter   *)
(* starts a trace at a FUNC or RET1 instruction.                           *)
StartRecording(pc, type) ==
    /\ mode = "normal"
    /\ \/ type = "function" /\ pc \in FuncPcs /\ code[pc] = <<"FUNC">>
       \/ type = "return" /\ pc \in RetPcs /\ code[pc] = <<"RET1">>
    /\ mode' = "recording"
    /\ startpc' = pc
    /\ traceType' = type
    /\ buf' = RecordSetup
    /\ written' = [r \in RecordSetup.nk..(RecordSetup.nins - 1) |-> Read(RecordSetup, r)]
    /\ UNCHANGED <<code, fragments>>

(* recordIns for an instruction that emits e1 and then the instruction e2 *)
(* (or nothing more): an operand literal or load, then the operation that  *)
(* uses it.  Afterwards it aborts through recordCleanup when the trace has reached     *)
(* MAX_TRACE_LENGTH.                                                       *)
RecordIns(e1, e2) ==
    LET B == IF e2 = NoVal THEN Emit(buf, e1) ELSE Emit(Emit(buf, e1), e2) IN
    /\ mode = "recording"
    /\ IF B.nins >= RefBias + MaxTraceLength
       THEN /\ buf' = Cleaned
            /\ mode' = "normal"
            /\ written' = <<>>
       ELSE /\ buf' = B
            /\ Remember(B)
            /\ UNCHANGED mode
    /\ UNCHANGED <<traceType, startpc, code, fragments>>

(* The goto abort_recording paths of recordIns (STOP and the NYI cases).  *)
AbortRecording ==
    /\ mode = "recording"
    /\ mode' = "normal"
    /\ buf' = Cleaned
    /\ written' = <<>>
    /\ UNCHANGED <<traceType, startpc, code, fragments>>

PatchStartNextId(type, id) ==
    IF type = "function" THEN <<"JFUNC", id + 1>> ELSE <<"JRET", id + 1>>

(* The instruction finishRecording writes over the start PC.               *)
PatchStart(type, id) ==
    IF type = "function" THEN <<"JFUNC", id>> ELSE <<"JRET", id>>

RegisterPastEnd(B) ==
    [startpc |-> startpc,
     ir |-> [r \in B.nk..B.nins |-> Read(B, r)],
     kwords |-> B.kw]

(* registerCurrentFragment: copy [nk, nins) and kwords into a fragment.   *)
RegisterCurrent(B) ==
    [startpc |-> startpc,
     ir |-> [r \in B.nk..(B.nins - 1) |-> Read(B, r)],
     kwords |-> B.kw]

(* recordIns back at the start PC: finishRecording emits LOOP (unrolled)   *)
(* or SAVE, overwrites the start instruction with JFUNC/JRET and the next *)
(* fragment id, and registers the fragment; recordCleanup frees the       *)
(* buffers, and a full fragment table then ends the process.               *)
FinishRecording(unroll) ==
    LET B  == EmitIR(buf, IF unroll THEN "LOOP" ELSE "SAVE")
        id == Len(fragments)
    IN
    /\ mode = "recording"
    /\ buf.nins > RefFirst
    /\ code' = [code EXCEPT ![startpc] = PatchStart(traceType, id)]
    /\ buf' = Cleaned
    /\ written' = <<>>
    /\ IF id >= SizeFragment
       THEN mode' = "exit" /\ UNCHANGED fragments
       ELSE mode' = "normal" /\ fragments' = Append(fragments, RegisterCurrent(B))
    /\ UNCHANGED <<traceType, startpc>>

Init ==
    /\ mode = "normal"
    /\ buf = Cleaned
    /\ traceType = "function"
    /\ startpc = NoVal
    /\ code = [pc \in FuncPcs \cup RetPcs |-> IF pc \in FuncPcs THEN <<"FUNC">> ELSE <<"RET1">>]
    /\ fragments = << >>
    /\ written = << >>

Next ==
    \/ \E pc \in FuncPcs \cup RetPcs, type \in {"function", "return"} : StartRecording(pc, type)
    \/ \E e1 \in Emission, e2 \in {<<"ins", o>> : o \in InsOps} \cup {NoVal} :
          RecordIns(e1, e2)
    \/ AbortRecording
    \/ \E unroll \in BOOLEAN : FinishRecording(unroll)

Spec == Init /\ [][Next]_vars

-----------------------------------------------------------------------------
Refs(B) == B.nk..(B.nins - 1)

(* The references reached by following a chain from ref; fuel bounds the  *)
(* walk so that a cyclic chain is reported rather than followed forever.  *)
RECURSIVE ChainFrom(_, _, _)
ChainFrom(B, ref, fuel) ==
    IF ref = 0 \/ fuel = 0 THEN {}
    ELSE {ref} \cup ChainFrom(B, Read(B, ref).prev, fuel - 1)

TypeOK ==
    /\ mode \in {"normal", "recording", "exit"}
    /\ traceType \in {"function", "return"}
    /\ DOMAIN code = FuncPcs \cup RetPcs
    /\ \A pc \in DOMAIN code :
           \/ code[pc] \in {<<"FUNC">>, <<"RET1">>}
           \/ code[pc][1] \in {"JFUNC", "JRET"} /\ code[pc][2] \in Nat
    /\ buf.irmin <= buf.irmax
    /\ DOMAIN buf.mem = 0..(buf.irmax - buf.irmin - 1)
    /\ \A i \in 1..Len(fragments) : \A r \in DOMAIN fragments[i].ir :
           fragments[i].ir[r] \in Cell

(* While recording, the literals [nk, RefBase) and instructions            *)
(* [RefBase, nins) lie inside the allocation [irmin, irmax): nextIns and   *)
(* nextLit grow the buffer before every write past either end.            *)
BufferInBounds ==
    mode = "recording" =>
        /\ buf.irmin <= buf.nk /\ buf.nk <= RefBase
        /\ RefBase < buf.nins /\ buf.nins <= buf.irmax

(* Every reference of the current recording still reads the cell that was *)
(* emitted at it, however often growIRBufferTop and growIRBufferBottom     *)
(* have reallocated, shifted or copied the buffer in between.             *)
RefsStable ==
    mode = "recording" => \A r \in Refs(buf) : Read(buf, r) = written[r]

(* The chain of every opcode, followed from J->chain[op] through prev,    *)
(* reaches exactly the references emitted with that opcode: the literal    *)
(* searches and the optimiser's CSE see every candidate.                   *)
ChainsExact ==
    mode = "recording" =>
        \A o \in Ops :
            ChainFrom(buf, buf.chain[o], Cardinality(Refs(buf)) + 1)
                = {r \in Refs(buf) : written[r].o = o}

(* Literal uniqueness (spec 5): no two literals of a recording share an   *)
(* opcode and a key, so equal constants always get the same reference.    *)
LiteralsUnique ==
    mode = "recording" =>
        \A r1, r2 \in Refs(buf) :
            /\ r1 /= r2 /\ written[r1].o \in LitOps /\ written[r1].o = written[r2].o
            => LitKey(buf, r1) /= LitKey(buf, r2)

(* Every JFUNC or JRET written over a start instruction names a registered *)
(* fragment that starts at that instruction, unless the process has        *)
(* exited on a full fragment table.                                        *)
JumpTargetsRegistered ==
    mode /= "exit" =>
        \A pc \in FuncPcs \cup RetPcs :
            code[pc][1] \in {"JFUNC", "JRET"} =>
                /\ code[pc][2] < Len(fragments)
                /\ fragments[code[pc][2] + 1].startpc = pc

(* The literal words stay inside the kwords allocation: each of the       *)
(* nkwords words needs sizeof(Word) bytes of the kwcap bytes allocated.   *)
KWordsInBounds == Len(buf.kw) * WordBytes <= buf.kwcap
====
