--------------------------- MODULE OldRecordFrames ---------------------------
(***************************************************************************)
(* The slots of the old VM's trace recorder (old-vm/Record.c, recordIns)   *)
(* beside the stack of the interpreter whose steps it records.             *)
(*                                                                         *)
(* J->slot is indexed as in the code: the slot s of the current frame is   *)
(* J->slot[baseslot + s], recording starts with baseslot = INITIAL_BASE+1, *)
(* and an index outside 0..MAX_SLOTS-1 is recorded in oob.  A slot holds   *)
(* NoRef (TRef 0) or a TRef, given here as the value it denotes and its    *)
(* TREF_WRITTEN bit.  The interpreter's stack mem and T->last_result hold  *)
(* values of the same kind.  Values are symbolic: the value a word had     *)
(* when recording started (what an SLOAD reads), the value an instruction  *)
(* made, a saved base pointer, a return PC.  The IR emitted on the way is  *)
(* the business of OldIRBuffer.                                            *)
(***************************************************************************)
EXTENDS Integers, Sequences, SequencesExt

CONSTANTS
    MaxSlots,       \* MAX_SLOTS (200)
    InitialBase,    \* INITIAL_BASE (100)
    SlotBits,       \* bits of the u1 fields baseslot and minslot (8)
    StackWords,     \* size of the thread's stack, in words
    FrameSizes,     \* framesizes of the functions and thunks called
    MaxArgs,        \* largest argument count of a call
    OuterSizes,     \* framesizes of the frames below the start frame
    MaxRecorded,    \* bound on the instructions recorded in one trace
    MaxData,        \* bound on those of them that only move data (MOV ...)
    CallByName      \* J->flags has JIT_OPT_CALL_BY_NAME

Slots == 0..(MaxSlots - 1)
Words == 0..(StackWords - 1)
U1(x) == x % 2^SlotBits

(* Values.  Zero is TRef 0, and an undefined register of the interpreter. *)
Zero          == <<"0", 0, 0>>
Entry(w)      == <<"e", w, 0>>   \* word w at trace entry: an SLOAD of it
EntryResult   == <<"r", 0, 0>>   \* T->last_result at entry: an RLOAD
Made(i, j)    == <<"n", i, j>>   \* j-th value made by the i-th instruction
Literal       == <<"k", 0, 0>>   \* a literal loaded by LOADK
BasePtr(off)  == <<"b", off, 0>> \* startbase + off: a KBASEO literal
ReturnPc      == <<"c", 0, 0>>   \* a return PC literal of CALL or EVAL
UpdReturnPc   == <<"c", 1, 0>>   \* stg_UPD_return_pc
UpdClosure    == <<"c", 2, 0>>   \* stg_UPD_closure_addr
ApClosure(e)  == <<"a", e, 0>>   \* getApContClosure for e extra arguments
ApReturnPc(e) == <<"p", e, 0>>

NoRef == [v |-> Zero, w |-> FALSE]

VARIABLES
    J,          \* baseslot, maxslot, minslot, framedepth, slot, oob, lastResult, status
    frames,     \* the interpreter's frames: <<[base, size, built], ...>>, innermost last
    mem,        \* the interpreter's stack words
    lr,         \* the interpreter's T->last_result
    startbase,  \* J->startbase
    startDepth, \* number of frames when recording started
    traceType,  \* J->cur.traceType
    nrec,       \* instructions recorded so far (bounded by MaxRecorded)
    ndata       \* of them, data instructions (bounded by MaxData)

vars == <<J, frames, mem, lr, startbase, startDepth, traceType, nrec, ndata>>

Base == Last(frames).base
Top  == Last(frames).base + Last(frames).size

(* The stack word an index of J->slot stands for (relslot of an SLOAD).    *)
WordOf(i) == startbase + i - InitialBase - 1

-----------------------------------------------------------------------------
(* Store the slot contents f (frame-relative slot -> content): maxslot     *)
(* grows past the highest slot stored; an index outside J->slot goes to    *)
(* oob.                                                                    *)
Put(S, f) ==
    LET idx == {S.baseslot + s : s \in DOMAIN f} IN
    [S EXCEPT !.slot = [k \in Slots |-> IF k \in idx THEN f[k - S.baseslot] ELSE @[k]],
              !.oob = @ \cup (idx \ Slots),
              !.maxslot = IF \E s \in DOMAIN f : s >= @
                          THEN 1 + CHOOSE s \in DOMAIN f : \A r \in DOMAIN f : r <= s
                          ELSE @]

(* setSlot on each slot of DOMAIN f: J->base[slot] = ref | TREF_WRITTEN,   *)
(* or 0 for a 0 ref.                                                       *)
SetSlots(S, f) ==
    Put(S, [s \in DOMAIN f |-> IF f[s] = Zero THEN NoRef ELSE [v |-> f[s], w |-> TRUE]])

SetSlot(S, s, r) == SetSlots(S, s :> r)

ClearSlots(S, from, to) == SetSlots(S, [s \in from..(to - 1) |-> Zero])

(* getSlot: a slot with no reference is loaded by emitLoadSlot, which      *)
(* stores the SLOAD unwritten, grows maxslot and then stops the process    *)
(* ("minslot issue") if the slot is below minslot.                         *)
GetSlot(S, s) ==
    LET i == S.baseslot + s IN
    IF i \in Slots /\ S.slot[i] /= NoRef THEN S
    ELSE LET L == Put(S, s :> [v |-> Entry(WordOf(i)), w |-> FALSE]) IN
         IF S.minslot > i THEN [L EXCEPT !.status = "exit"] ELSE L

(* The TRef getSlot returned, read from the state it left.                 *)
Ref(S, s) ==
    LET i == S.baseslot + s IN
    IF i \in Slots THEN S.slot[i].v ELSE Entry(WordOf(i))

AndThen(S, F(_)) == IF S.status = "ok" THEN F(S) ELSE S

(* getSlot on each slot of R, in any order (they touch different slots).  *)
RECURSIVE GetSlots(_, _)
GetSlots(S, R) ==
    IF R = {} THEN S
    ELSE LET s == CHOOSE s \in R : TRUE IN
         GetSlots(AndThen(S, LAMBDA T : GetSlot(T, s)), R \ {s})

(* A stack check that leaves one word too many.                            *)
StackOverflowByOne(top, n) == top + n > StackWords + 1

(* stackOverflow(T, top, n): the thread's stack has no room for n words.   *)
StackOverflow(top, n) == top + n > StackWords

(* The interpreter's side of an instruction that builds a frame: the new   *)
(* frame's base is three header words above the top of the current one.    *)
Push(fs, size) ==
    fs \o <<[base |-> Last(fs).base + Last(fs).size + 3, size |-> size, built |-> TRUE]>>

Resize(fs, size) == [fs EXCEPT ![Len(fs)].size = size]

(* The interpreter's stores: the words of DOMAIN f get f's values; a new   *)
(* frame's registers beyond its arguments are undefined (Zero).            *)
Store(f) == mem' = f @@ mem

(* The copy loop of CALL and CALLT: slot dst + k gets getSlot(k) for k in  *)
(* 0..n-1 (the argument registers are abstracted to the first n slots).    *)
RECURSIVE CopyArgs(_, _, _, _)
CopyArgs(S, dst, k, n) ==
    IF k >= n THEN S
    ELSE CopyArgs(AndThen(GetSlot(S, k), LAMBDA T : SetSlot(T, dst + k, Ref(T, k))),
                  dst, k + 1, n)

(* The three header words of a frame written at topslot: the KBASEO of the *)
(* caller's base, the return PC and the function or node.                 *)
WriteHeader(S, topslot, ret, node) ==
    SetSlots(S, (topslot :> BasePtr(Base - startbase))
                @@ (topslot + 1 :> ret) @@ (topslot + 2 :> node))

(* A frame entry that counts every push as one frame.                      *)
EnterFrameOneDepth(S, topslot, fsize, keep, depth) ==
    LET S1 == [S EXCEPT !.baseslot = U1(@ + topslot + 3), !.maxslot = fsize] IN
    [ClearSlots(S1, keep, fsize) EXCEPT !.framedepth = @ + 1]

(* Move to the frame at topslot + 3 of framesize fsize, clear its slots    *)
(* from keep on, and count depth more frames.                              *)
EnterFrame(S, topslot, fsize, keep, depth) ==
    LET S1 == [S EXCEPT !.baseslot = U1(@ + topslot + 3), !.maxslot = fsize] IN
    [ClearSlots(S1, keep, fsize) EXCEPT !.framedepth = @ + depth]

Abort == J' = [J EXCEPT !.status = "abort"] /\ UNCHANGED <<frames, mem, lr>>

-----------------------------------------------------------------------------
(* recordIns, BC_CALL of a FUN of arity n (another callee aborts).  The    *)
(* interpreter writes the header and the arguments above its top.          *)
RecordCall(n, fsize) ==
    LET t   == Top - Base
        ret == ReturnPc
        S0  == GetSlot(J, 0)
        S   == CopyArgs(WriteHeader(S0, t, ret, Ref(S0, 0)), t + 3, 0, n)
    IN
    IF StackOverflow(Top, 3 + fsize)
       \/ Base + t + 3 + fsize >= startbase + MaxSlots
    THEN Abort
    ELSE /\ J' = AndThen(S, LAMBDA T : EnterFrame(T, t, fsize, n, 1))
         /\ frames' = Push(frames, fsize)
         /\ Store([w \in Top..(Top + 2 + fsize) |->
                     CASE w = Top     -> BasePtr(Base - startbase)
                       [] w = Top + 1 -> ret
                       [] w = Top + 2 -> mem[Base]
                       [] w < Top + 3 + n -> mem[Base + w - Top - 3]
                       [] OTHER -> Zero])
         /\ UNCHANGED lr

(* recordIns, BC_CALLT of a FUN of arity n with n arguments: the frame is  *)
(* reused with the callee's framesize, the arguments staying in place.     *)
RecordCallTExact(n, fsize) ==
    IF Base + fsize >= startbase + MaxSlots
    THEN Abort
    ELSE LET S0 == GetSlot(J, 0)
             S  == SetSlot(S0, -1, Ref(S0, 0))
         IN
         /\ J' = AndThen(S, LAMBDA T : ClearSlots([T EXCEPT !.maxslot = fsize], n, fsize))
         /\ frames' = Resize(frames, fsize)
         /\ Store([w \in {Base - 1} \cup ((Base + n)..(Base + fsize - 1)) |->
                     IF w = Base - 1 THEN mem[Base] ELSE Zero])
         /\ UNCHANGED lr

(* recordIns, BC_CALLT of a FUN of arity a < n (overapplication): the      *)
(* frame becomes the AP continuation (node, the n - a extra arguments and  *)
(* a result slot), and the function is called above it with the first a   *)
(* arguments (spec 4.7.1).                                                 *)
RecordCallTOver(n, a, fsize) ==
    LET extra   == n - a
        topslot == extra + 1
        ap      == ApClosure(extra)
        ret     == ApReturnPc(extra)
        S0 == GetSlot(J, 0)
        S1 == GetSlots(S0, a..(n - 1))
        S2 == WriteHeader(SetSlot(S1, -1, ap), topslot, ret, Ref(S0, 0))
        S3 == CopyArgs(S2, topslot + 3, 0, n)
        S4 == AndThen(S3, LAMBDA T :
                SetSlots(T, [i \in 0..extra |-> IF i < extra THEN Ref(S1, a + i) ELSE Zero]))
        nb == Base + topslot + 3
    IN
    IF Base + topslot + 3 + fsize >= startbase + MaxSlots
    THEN Abort
    ELSE /\ J' = AndThen(S4, LAMBDA T : EnterFrame(T, topslot, fsize, n, 1))
         /\ frames' = Push(Resize(frames, extra + 1), fsize)
         /\ Store([w \in (Base - 1)..(nb + fsize - 1) |->
                     CASE w = Base - 1       -> ap
                       [] w < Base + extra   -> mem[w + a]
                       [] w = Base + extra   -> Zero
                       [] w = nb - 3         -> BasePtr(Base - startbase)
                       [] w = nb - 2         -> ret
                       [] w = nb - 1         -> mem[Base]
                       [] w < nb + a         -> mem[Base + w - nb]
                       [] OTHER              -> Zero])
         /\ UNCHANGED lr

(* recordBuildEvalFrame(J, ra, ...) after the EVAL case's getSlot(a) of  *)
(* the node: an update frame (node and an undefined slot) and *)
(* the thunk's frame are pushed above the top; the slots below t that the  *)
(* liveness mask of the return PC marks dead are cleared.  The interpreter *)
(* pushes the same two frames; a dead register is never read again, so    *)
(* its value is undefined from here on.                                    *)
RecordBuildEvalFrame(S0, a, fsize, dead) ==
    LET t    == Top - Base
        node == Ref(S0, a)
        hdr  == [s \in t..(t + 7) |->
                   CASE s = t     -> BasePtr(Base - startbase)
                     [] s = t + 1 -> ReturnPc
                     [] s = t + 2 -> UpdClosure
                     [] s = t + 3 -> node
                     [] s = t + 5 -> BasePtr(Base - startbase + t + 3)
                     [] s = t + 6 -> UpdReturnPc
                     [] s = t + 7 -> node
                     [] OTHER     -> Zero]
        S == SetSlots(SetSlots(S0, hdr), [s \in dead |-> Zero])
    IN
    IF StackOverflow(Top, 8 + fsize) \/ Top + 8 + fsize - startbase >= MaxSlots
    THEN Abort
    ELSE /\ J' = EnterFrame(S, t + 5, fsize, 0, 2)
         /\ frames' = Push(Push(frames, 2), fsize)
         /\ Store([w \in {Base + s : s \in dead} \cup ((Top + 8)..(Top + 7 + fsize)) |-> Zero]
                  @@ [w \in Top..(Top + 7) |-> IF w = Top + 3 \/ w = Top + 7 THEN mem[Base + a]
                                              ELSE hdr[w - Base]])
         /\ UNCHANGED lr

(* recordIns, BC_EVAL of slot a whose value is in normal form: the info   *)
(* table guard, and the node is the last result.                           *)
RecordEvalHNF(a) ==
    LET S == GetSlot(J, a) IN
    /\ J' = [S EXCEPT !.lastResult = Ref(S, a)]
    /\ lr' = mem[Base + a]
    /\ UNCHANGED <<frames, mem>>

(* recordIns, BC_EVAL of slot a holding a thunk.                           *)
RecordEvalThunk(a, fsize, dead) ==
    LET S0 == GetSlot(J, a) IN
    IF S0.status /= "ok" THEN J' = S0 /\ UNCHANGED <<frames, mem, lr>>
    ELSE RecordBuildEvalFrame(S0, a, fsize, dead)

(* A return that keeps maxslot at the distance to the caller's base.      *)
LeaveFrameMaxslotDiff(T, basediff) ==
    LET B == [T EXCEPT !.baseslot = U1(@ - basediff)] IN
    [B EXCEPT !.minslot = IF @ > B.baseslot - 3 THEN U1(B.baseslot - 3) ELSE @,
              !.maxslot = basediff]

(* A return that leaves minslot alone.                                     *)
LeaveFrameNoMinslot(T, basediff) ==
    [T EXCEPT !.baseslot = U1(@ - basediff), !.maxslot = basediff - 3]

(* The end of RET1/IRET: J->baseslot -= basediff, minslot lowered to the   *)
(* caller's header, maxslot = basediff - 3.                                *)
LeaveFrame(T, basediff) ==
    LET B == [T EXCEPT !.baseslot = U1(@ - basediff)] IN
    [B EXCEPT !.minslot = IF @ > B.baseslot - 3 THEN U1(B.baseslot - 3) ELSE @,
              !.maxslot = basediff - 3]

(* A return that clears the header three slots below the new base.         *)
RecordRetLateClear(a) ==
    LET basediff == Base - frames[Len(frames) - 1].base
        S0 == SetSlots(J, [s \in (0..(J.maxslot - 1)) \ {a} |-> Zero])
        S1 == GetSlot(S0, a)
        S2 == AndThen([S1 EXCEPT !.lastResult = Ref(S1, a)], LAMBDA T :
                GetSlot([T EXCEPT !.framedepth = @ - 1], -2))
    IN
    IF S2.status = "ok" /\ S2.framedepth < 0 /\ traceType /= "return"
    THEN Abort
    ELSE /\ J' = AndThen(S2, LAMBDA T : ClearSlots(LeaveFrame(T, basediff), -3, 0))
         /\ frames' = IF J'.status = "ok" THEN Front(frames) ELSE frames
         /\ lr' = mem[Base + a]
         /\ UNCHANGED mem

(* recordIns, BC_RET1/BC_IRET of slot a to the frame below: every slot but *)
(* a is cleared, a is the last result, the return address guarded, the    *)
(* frame's header cleared; leaving the start frame aborts unless this is a *)
(* return trace.  The interpreter pops the frame and sets last_result.     *)
RecordRet(a) ==
    LET basediff == Base - frames[Len(frames) - 1].base
        S0 == SetSlots(J, [s \in (0..(J.maxslot - 1)) \ {a} |-> Zero])
        S1 == GetSlot(S0, a)
        S2 == AndThen([S1 EXCEPT !.lastResult = Ref(S1, a)], LAMBDA T :
                GetSlot([T EXCEPT !.framedepth = @ - 1], -2))
        S3 == AndThen(S2, LAMBDA T : ClearSlots(T, -3, 0))
    IN
    IF S3.status = "ok" /\ S3.framedepth < 0 /\ traceType /= "return"
    THEN Abort
    ELSE /\ J' = AndThen(S3, LAMBDA T : LeaveFrame(T, basediff))
         /\ frames' = IF J'.status = "ok" THEN Front(frames) ELSE frames
         /\ lr' = mem[Base + a]
         /\ UNCHANGED mem

(* The getSlot of each slot of R; the interpreter's stack is unchanged.   *)
Reads(R) ==
    /\ J' = GetSlots(J, R)
    /\ UNCHANGED <<frames, mem, lr>>

(* The getSlot of each slot of R, then setSlot(a, v); the interpreter      *)
(* stores the same value v in register a.                                  *)
Compute(a, R, v) ==
    /\ J' = AndThen(GetSlots(J, R), LAMBDA T : SetSlot(T, a, v))
    /\ Store(Base + a :> v)
    /\ UNCHANGED <<frames, lr>>

(* recordIns, BC_ISLT .. BC_ISNE: a guard on registers a and d.          *)
RecordCompare(a, d) == Reads({a, d})

(* recordIns, BC_MOV a d: setSlot(a, getSlot(d)).                          *)
RecordMove(a, d) ==
    LET S == GetSlot(J, d) IN
    /\ J' = AndThen(S, LAMBDA T : SetSlot(T, a, Ref(T, d)))
    /\ Store(Base + a :> mem[Base + d])
    /\ UNCHANGED <<frames, lr>>

(* recordIns, BC_ADDRR .. BC_REMRR a b c.                                  *)
RecordArith(a, b, c) == Compute(a, {b, c}, Made(ndata, 0))

(* recordIns, BC_JMP, and alike BC_FUNC and BC_IFUNC: nothing recorded.    *)
RecordJmp == Reads({})

(* recordIns, BC_LOADK a: a literal of the function.                      *)
RecordLoadK(a) == Compute(a, {}, Literal)

(* recordIns, BC_LOADFV a: a field of the node, slot -1.                   *)
RecordLoadFV(a) == Compute(a, {-1}, Made(ndata, 0))

(* recordIns, BC_LOADF a b: a field of the closure in b.                   *)
RecordLoadF(a, b) == Compute(a, {b}, Made(ndata, 0))

(* recordIns, BC_UPDATE a d: the update reads a and d, unless the trace is *)
(* compiled call-by-name (JIT_OPT_CALL_BY_NAME).                           *)
RecordUpdate(a, d) == Reads(IF CallByName THEN {} ELSE {a, d})

(* recordIns, BC_ALLOC1 a b c: a new closure of info table b and field c.  *)
RecordAlloc1(a, b, c) == Compute(a, {b, c}, Made(ndata, 0))

(* recordIns, BC_ALLOC a b with the argument registers R.                 *)
RecordAlloc(a, b, R) == Compute(a, {b} \cup R, Made(ndata, 0))

(* recordIns, BC_ALLOCAP a with the function and argument registers R.   *)
RecordAllocAp(a, R) == Compute(a, R, Made(ndata, 0))

(* recordIns, BC_CASE a: a guard on the info table of a.                   *)
RecordCase(a) == Reads({a})

(* recordIns, BC_LOADSLF a: setSlot(a, getSlot(-1)).                       *)
RecordLoadSlf(a) == RecordMove(a, -1)

(* A MOV_RES that always reads the result register with an RLOAD.         *)
RecordMovResRload(a) ==
    /\ J' = SetSlot(J, a, EntryResult)
    /\ Store(Base + a :> lr)
    /\ UNCHANGED <<frames, lr>>

(* recordIns, BC_MOV_RES a: the last result, an RLOAD if no return or      *)
(* evaluation has been recorded yet.                                       *)
RecordMovRes(a) ==
    LET S == IF J.lastResult = Zero THEN [J EXCEPT !.lastResult = EntryResult] ELSE J IN
    /\ J' = SetSlot(S, a, S.lastResult)
    /\ Store(Base + a :> lr)
    /\ UNCHANGED <<frames, lr>>

(* recordIns cases that go to abort_recording: a call of a non-FUN or of   *)
(* the wrong arity, CALLT partial application, EVAL of an indirection.     *)
RecordAbort == Abort

(* recordIns, BC_JFUNC, BC_JRET and the STOP instruction (BC__MAX): abort. *)
RecordLinkOrStop == Abort

(* recordIns at J->startpc with instructions recorded: finishRecording.   *)
RecordLoop == J' = [J EXCEPT !.status = "done"] /\ UNCHANGED <<frames, mem, lr>>

-----------------------------------------------------------------------------
(* The interpreter's frames when recording starts: outer frames of the     *)
(* sizes in sz, bottom first, the start frame last.                        *)
RECURSIVE StackOf(_, _)
StackOf(sz, b) ==
    IF sz = <<>> THEN <<>>
    ELSE <<[base |-> b, size |-> Head(sz), built |-> FALSE]>>
         \o StackOf(Tail(sz), b + Head(sz) + 3)

(* startRecording and recordSetup.                                         *)
Init ==
    \E sz \in OuterSizes, ty \in {"function", "return"} :
        /\ frames = StackOf(sz, 3)
        /\ startbase = Last(frames).base
        /\ startDepth = Len(frames)
        /\ traceType = ty
        /\ nrec = 0
        /\ ndata = 0
        /\ mem = [w \in Words |-> Entry(w)]
        /\ lr = EntryResult
        /\ J = [baseslot |-> InitialBase + 1, minslot |-> InitialBase - 2,
                maxslot |-> Last(frames).size, framedepth |-> 0,
                slot |-> [k \in Slots |-> NoRef], oob |-> {},
                lastResult |-> Zero, status |-> "ok"]

Next ==
    /\ J.status = "ok"
    /\ nrec < MaxRecorded
    /\ nrec' = nrec + 1
    /\ UNCHANGED <<startbase, startDepth, traceType>>
    /\ LET Frame == 0..(Last(frames).size - 1)
           \* the registers of the frame a bytecode may read: defined ones
           Regs == {r \in {-1} \cup Frame : mem[Base + r] /= Zero}
       IN
       \/ /\ UNCHANGED ndata
          /\ \/ \E n \in 0..MaxArgs, fsize \in FrameSizes :
                   /\ n <= fsize /\ ({0} \cup 0..(n - 1)) \subseteq Regs
                   /\ RecordCall(n, fsize)
             \/ \E n \in 0..MaxArgs, fsize \in FrameSizes :
                   /\ n <= fsize /\ ({0} \cup 0..(n - 1)) \subseteq Regs
                   /\ ~StackOverflow(Base, fsize)
                   /\ RecordCallTExact(n, fsize)
             \/ \E n \in 1..MaxArgs, ar \in 1..MaxArgs, fsize \in FrameSizes :
                   /\ ar < n /\ ar <= fsize /\ 0..(n - 1) \subseteq Regs
                   /\ ~StackOverflow(Base, n - ar + 4 + fsize)
                   /\ RecordCallTOver(n, ar, fsize)
             \/ \E a \in Regs \ {-1} : RecordEvalHNF(a)
             \/ \E a \in Regs \ {-1}, fsize \in FrameSizes, dead \in SUBSET Frame :
                   RecordEvalThunk(a, fsize, dead)
             \/ \E a \in Regs \ {-1} : Len(frames) > 1 /\ RecordRet(a)
             \/ RecordAbort
             \/ RecordLinkOrStop
             \/ RecordLoop
       \/ /\ ndata < MaxData
          /\ ndata' = ndata + 1
          \* a read of several slots is as well a sequence of reads of one
          \* (the order of two reads only matters to a process that exits)
          /\ \/ \E a, d \in Regs : a <= d /\ RecordCompare(a, d)
             \/ \E a \in Frame, d \in Regs : RecordMove(a, d)
             \/ \E a \in Frame : RecordMovRes(a)
             \/ \E a \in Frame, b, c \in Regs : b <= c /\ RecordArith(a, b, c)
             \/ RecordJmp
             \/ \E a \in Frame : RecordLoadK(a)
             \/ \E a \in Frame : RecordLoadFV(a)
             \/ \E a \in Frame, b \in Regs : RecordLoadF(a, b)
             \/ \E a, d \in Regs : a <= d /\ RecordUpdate(a, d)
             \/ \E a \in Frame, b, c \in Regs : b <= c /\ RecordAlloc1(a, b, c)
             \/ \E a \in Frame, b, r \in Regs : RecordAlloc(a, b, {r})
             \/ \E a \in Frame, R \in SUBSET Regs : R /= {} /\ RecordAllocAp(a, R)
             \/ \E a \in Regs : RecordCase(a)
             \/ \E a \in Frame : RecordLoadSlf(a)

Spec == Init /\ [][Next]_vars
-----------------------------------------------------------------------------
(* J->slot index of the word w of the thread's stack.                      *)
SlotOf(w) == InitialBase + 1 + w - startbase

Val == {"0", "e", "r", "n", "k", "b", "c", "a", "p"} \X Int \X Int

TypeOK ==
    /\ J.baseslot \in 0..(2^SlotBits - 1)
    /\ J.minslot \in 0..(2^SlotBits - 1)
    /\ J.maxslot \in Nat
    /\ J.framedepth \in Int
    /\ J.slot \in [Slots -> [v : Val, w : BOOLEAN]]
    /\ J.oob \subseteq Int
    /\ J.lastResult \in Val
    /\ J.status \in {"ok", "abort", "exit", "done"}
    /\ frames \in Seq([base : Nat, size : Nat, built : BOOLEAN])
    /\ frames /= <<>>
    /\ mem \in [Words -> Val]
    /\ lr \in Val
    /\ traceType \in {"function", "return"}
    /\ nrec \in 0..MaxRecorded
    /\ ndata \in 0..MaxData

(* While recording goes on, the recorder's view of the stack is the        *)
(* interpreter's: baseslot is the current base relative to startbase      *)
(* (plus INITIAL_BASE + 1) and framedepth counts the frames pushed since   *)
(* recording started, across CALL, both kinds of CALLT, the two frames of  *)
(* an EVAL and RET1/IRET.                                                  *)
FrameViewMatches ==
    J.status = "ok" =>
        /\ J.baseslot = U1(SlotOf(Base))
        /\ J.framedepth = Len(frames) - startDepth

(* maxslot, "the size of the current frame", is the framesize of the frame *)
(* the interpreter is in, also after a return restores the caller's.       *)
MaxslotIsFrameSize ==
    J.status = "ok" => J.maxslot = Last(frames).size

(* Every frame the trace has pushed and not yet left has its three header  *)
(* words (base, return PC, node) written in J->slot, so that an exit can   *)
(* rebuild it; a return clears only the header of the frame it leaves.     *)
HeadersMaterialised ==
    J.status = "ok" =>
        \A k \in 1..Len(frames) :
            frames[k].built =>
                \A h \in 1..3 : J.slot[SlotOf(frames[k].base) - h].w

(* Jit.h: minslot, an index into J->slot, satisfies "minslot >= 0 &&      *)
(* minslot < baseslot": a return lowers minslot to the three header words *)
(* below the frame it returns to, so that no slot of a frame the trace     *)
(* entered lies below minslot.                                             *)
MinslotBelowBase ==
    J.status = "ok" => 0 <= J.minslot /\ J.minslot < J.baseslot - 2

(* The words of the interpreter's frames, headers included.                *)
LiveWords ==
    {w \in UNION {(f.base - 3)..(f.base + f.size - 1) : f \in Range(frames)} :
        SlotOf(w) \in Slots}

(* The recorder's slots agree with the interpreter's stack, word by word,  *)
(* in every frame: a slot holding a TRef holds the value the interpreter   *)
(* has in that word, and if that is not the word's value at entry the TRef *)
(* is marked written, so a snapshot writes it back on exit (spec 4.5); an  *)
(* empty slot's word still has its entry value, so a later SLOAD reads the *)
(* right one.  Likewise J->last_result and the interpreter's last result,  *)
(* which MOV_RES reads.  Undefined registers may hold anything.  This is   *)
(* what CALL, CALLT, EVAL and RET1 with their slot copies, clears and      *)
(* baseslot moves, and the setSlot of every other case, must preserve.     *)
SlotsMatchStack ==
    J.status = "ok" =>
        /\ \A w \in LiveWords :
              LET s == J.slot[SlotOf(w)] IN
              mem[w] /= Zero =>
                  IF s = NoRef THEN mem[w] = Entry(w)
                  ELSE s.v = mem[w] /\ (mem[w] /= Entry(w) => s.w)
        /\ J.lastResult = Zero => lr = EntryResult
        /\ J.lastResult /= Zero => J.lastResult = lr

(* The slots of every frame lie inside TRef slot[MAX_SLOTS] (Jit.h, with  *)
(* "INVARIANT: baseslot + maxslot < MAX_SLOTS"): no getSlot, setSlot or    *)
(* clear of CALL, CALLT, EVAL or RET reads or writes outside J->slot; the *)
(* "Frame too deep" checks are meant to keep it so.                        *)
SlotsInBounds == J.oob = {}
====
