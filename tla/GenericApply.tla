---------------------------- MODULE GenericApply ----------------------------
(***************************************************************************)
(* Recording of one CALL or CALLT (src/vm/jit.cc, recordIns cases kCALL   *)
(* and kCALLT, recordGenericApply2, pushFrame and the static helpers).     *)
(* The recorder's abstract machine state is a record threaded through the  *)
(* helpers in the order the code calls them:                               *)
(*   w       written slots of buf_.slots_, by absolute stack index         *)
(*   base    current frame base (absolute), top: its top                   *)
(*   snaps   the snapshot taken by every guard: [base, w] at that moment   *)
(*   stack   callStack_: return PCs of the frames pushed                   *)
(*   pap     the PAP allocated by NEW, if any                              *)
(*   status  "ok", "abort" (recordGenericApply2 returned false) or "exit"  *)
(*           (the process called exit(1))                                  *)
(* A TRef is a tuple naming the IR that computes it: <<"sload", i>>,      *)
(* <<"fload", ref, offset>>, <<"lit", value>>, <<"new">>, <<"none">>.     *)
(***************************************************************************)
EXTENDS Integers, Sequences, Bitwise

CONSTANTS
    MaxArgs,       \* most direct arguments of a call (ins->c())
    MaxArity,      \* largest function arity
    MaxInd,        \* longest chain of indirections before the callee
    StackLimit,    \* highest top slots_.frame() accepts (abstract stack size)
    CallerBase,    \* absolute base of the frame that executes the call
    Locals,        \* framesize - arity of every function
    MaskBits       \* width of pointer masks (uint32_t: 32)

\* Layout of PapClosure in words: header, info_ (nargs + mask), fun_, payload.
PapInfoOffset    == 1
PapFunctionOffset == 2
PapPayloadOffset == 3
FrameSize        == 3      \* FRAME_SIZE: saved base, return PC, node
UpdFrameSize     == 2      \* MiscClosures::UPD_frame_size
ThunkFrameSize   == 1
CallerTop        == CallerBase + MaxArgs + 1
FnodeSlot        == MaxArgs          \* ins->a(): the caller's last slot
SlotIdx          == 0..(StackLimit + FrameSize)

\* MiscClosures::apContFrameSize(n): the n arguments and one temporary.
ApContFrameSize(n) == n + 1

SLoad(i)     == <<"sload", i>>
FLoad(r, o)  == <<"fload", r, o>>
Lit(v)       == <<"lit", v>>
NoRef        == <<"none">>
NewRef       == <<"new">>
Unwritten    == <<"unwritten">>

\* The closure found in the callee slot: a FUN of some arity, a THUNK, or a
\* PAP of a FUN holding nargs arguments with pointer mask papMask.
Closures ==
    [type : {"FUN"}, arity : 1..MaxArity, nargs : {0}, papMask : {0}]
    \cup [type : {"THUNK"}, arity : {0}, nargs : {0}, papMask : {0}]
    \cup UNION {UNION {[type : {"PAP"}, arity : {a}, nargs : {n},
                        papMask : 0..(2^n - 1)] : n \in 1..(a - 1)}
                : a \in 2..MaxArity}

\* One CALL/CALLT instruction and the heap it observes.
Calls ==
    UNION {[op : {"CALL", "CALLT"}, ind : 0..MaxInd, nargs : {n},
            mask : 0..(2^n - 1), clos : Closures] : n \in 0..MaxArgs}

VARIABLES
    call,     \* the instruction being recorded
    rs,       \* the recorder state
    entry,    \* [base, w] when recordIns started on the instruction
    applied,  \* [base, w] when recordGenericApply2 was entered
    done      \* recordIns has returned

vars == <<call, rs, entry, applied, done>>

Rs0 == [w |-> [i \in SlotIdx |-> Unwritten], base |-> CallerBase,
        top |-> CallerTop, snaps |-> << >>, stack |-> << >>,
        pap |-> NoRef, status |-> "ok"]


(***************************************************************************)
(* IRBuffer and AbstractStack operations used by the recorder.             *)
(***************************************************************************)

\* buf_.slot(i): the TRef in slot i of the current frame, an SLOAD if the
\* trace has not written it.
Slot(R, i) == IF R.w[R.base + i] /= Unwritten THEN R.w[R.base + i]
              ELSE SLoad(R.base + i)

\* buf_.setSlot(i, ref)
SetSlot(R, i, ref) == [R EXCEPT !.w[R.base + i] = ref]

\* Emitting a guard takes a snapshot of the written slots and the base.
Guard(R) == [R EXCEPT !.snaps = Append(@, [base |-> R.base, w |-> R.w])]

\* Fault variant of Frame: no overflow check.
FrameUnchecked(R, nb, nt) == [R EXCEPT !.base = nb, !.top = nt]

\* buf_.slots_.frame(base, top): fails on abstract stack overflow.
Frame(R, nb, nt) ==
    IF nt <= StackLimit THEN [R EXCEPT !.base = nb, !.top = nt]
    ELSE [R EXCEPT !.status = "abort"]      \* AR_ABSTRACT_STACK_OVERFLOW

\* Continue with F only while recordGenericApply2 has not returned.
AndThen(R, F(_)) == IF R.status = "ok" THEN F(R) ELSE R

(***************************************************************************)
(* Static helpers of jit.cc.                                               *)
(***************************************************************************)

\* loadField: FREF + FLOAD of word offset of noderef.
LoadField(noderef, offset) == FLoad(noderef, offset)

\* specialiseOnInfoTable / specialiseOnPapShape: an EQINFO, resp. an EQ
\* guard on the PAP's info word.
SpecialiseOnInfoTable(R) == Guard(R)
SpecialiseOnPapShape(R)  == Guard(R)

\* followIndirection(buf_, slot, tnode): guard on the indirection's info
\* table, load its payload and overwrite the slot with it.
FollowIndirection(R, slot) ==
    LET R1 == SpecialiseOnInfoTable(R)
    IN  SetSlot(R1, slot, LoadField(Slot(R1, slot), 1))

\* clearSlots(buf_, start, end)
ClearSlots(R, from, to) ==
    [R EXCEPT !.w = [j \in SlotIdx |->
        IF j - R.base \in from..(to - 1) THEN NoRef ELSE @[j]]]

\* Fault variant of MoveArgs: the refs land one slot too high.
MoveArgsShifted(R, from, refs) ==
    [R EXCEPT !.w = [j \in SlotIdx |->
        IF j - R.base - from \in 1..Len(refs)
        THEN refs[j - R.base - from] ELSE @[j]]]

\* The for loops that put refs into slots from, from + 1, ...
MoveArgs(R, from, refs) ==
    [R EXCEPT !.w = [j \in SlotIdx |->
        IF j - R.base - from + 1 \in 1..Len(refs)
        THEN refs[j - R.base - from + 1] ELSE @[j]]]

\* papOrDirectArg(buf_, arg, pap_args, args, pap_ref), arg 0-based.
PapOrDirectArg(arg, papArgs, args, papRef) ==
    IF arg >= papArgs THEN args[arg - papArgs + 1]
    ELSE LoadField(papRef, PapPayloadOffset + arg)

\* Jit::pushFrame(base, returnPc, noderef, framesize): writes the frame
\* header above the current top, then moves to the new frame.
PushFrame(R, retPc, node, fs) ==
    LET t  == R.top - R.base
        R1 == [SetSlot(SetSlot(SetSlot(R, t, Lit(<<"base", R.base>>)),
                                t + 1, Lit(<<"pc", retPc>>)), t + 2, node)
                EXCEPT !.stack = Append(@, retPc)]
        nb == R.base + t + 3
    IN  Frame(R1, nb, nb + fs)

\* CALLT reuses the current frame: resize it, then store the node in -1.
ResizeFrame(R, node, fs) ==
    AndThen(Frame(R, R.base, R.base + fs), LAMBDA S : SetSlot(S, -1, node))


(***************************************************************************)
(* recordGenericApply2(call_info, base, fnode_ref, fnode, args, returnPc)  *)
(* retPc is NoPc for CALLT (returnPc == NULL).                             *)
(***************************************************************************)

NoPc      == "none"
UpdClosure == Lit("stg_UPD_closure")
ApCont(n, mask)    == Lit(<<"apk", n, mask>>)   \* MiscClosures::getApCont closure
ApContRet(n, mask) == <<"apkret", n, mask>>     \* ... and its return address

\* The args of the new frame: the PAP's stored arguments (FLOADs of its
\* payload) followed by the direct arguments.
AllArgs(papArgs, args, fnodeRef) ==
    [i \in 1..papArgs |-> LoadField(fnodeRef, PapPayloadOffset + i - 1)] \o args

\* THUNK or CAF callee: the current frame becomes (CALLT) or a new frame
\* holds (CALL) an application continuation with the direct arguments;
\* then an update frame for the thunk and the thunk's own frame are pushed.
ApplyThunk(R, n, mask, fnodeRef, args, retPc) ==
    LET R0 == SpecialiseOnInfoTable(R)
        fs == ApContFrameSize(n)
        R1 == IF retPc /= NoPc THEN PushFrame(R0, retPc, ApCont(n, mask), fs)
              ELSE ResizeFrame(R0, ApCont(n, mask), fs)
        R2 == AndThen(R1, LAMBDA S : ClearSlots(MoveArgs(S, 0, args), n, fs))
        R3 == AndThen(R2, LAMBDA S : PushFrame(S, ApContRet(n, mask),
                                               UpdClosure, UpdFrameSize))
        R4 == AndThen(R3, LAMBDA S : SetSlot(SetSlot(S, 0, fnodeRef), 1, NoRef))
    IN  AndThen(R4, LAMBDA S : PushFrame(S, "stg_UPD_return_pc", fnodeRef,
                                          ThunkFrameSize))

\* Fault variant of ExactPrologue: CALLT stores the callee in slot -1
\* before the info-table guard.
ExactPrologueSlotFirst(R, funref, fs, retPc) ==
    IF retPc /= NoPc
    THEN PushFrame(SpecialiseOnInfoTable(R), retPc, funref, fs)
    ELSE LET R0 == SpecialiseOnInfoTable(SetSlot(R, -1, funref))
         IN  Frame(R0, R0.base, R0.base + fs)

\* Exact application: guard on the callee's info table, then push a frame
\* (CALL) or store the callee in slot -1 and resize the frame (CALLT).
ExactPrologue(R, funref, fs, retPc) ==
    LET R0 == SpecialiseOnInfoTable(R)
    IN  IF retPc /= NoPc THEN PushFrame(R0, retPc, funref, fs)
        ELSE LET R1 == SetSlot(R0, -1, funref)
             IN  Frame(R1, R1.base, R1.base + fs)

ApplyExact(R, fs, funref, all, retPc) ==
    AndThen(ExactPrologue(R, funref, fs, retPc),
            LAMBDA S : ClearSlots(MoveArgs(S, 0, all), Len(all), fs))

\* The mask getApCont is given for the extra arguments of an
\* overapplication: pointer_mask >> arity.
ApContMask(mask, arity) == shiftR(mask, arity)

\* Overapplication: an AP continuation frame with the total - arity extra
\* arguments, then a frame for the exact call with the first arity ones.
\* An overapplied PAP prints the buffer and calls exit(1).
ApplyOver(R, arity, mask, pap, papArgs, fnodeRef, funref, args, retPc) ==
    LET total == papArgs + Len(args)
        extra == total - arity
        fs    == arity + Locals
        afs   == ApContFrameSize(extra)
        apk   == ApCont(extra, ApContMask(mask, arity))
        arg(i) == PapOrDirectArg(i, papArgs, args, fnodeRef)
        R0 == SpecialiseOnInfoTable(R)
        R1 == IF retPc /= NoPc THEN PushFrame(R0, retPc, apk, afs)
              ELSE ResizeFrame(R0, apk, afs)
        R2 == AndThen(R1, LAMBDA S :
                ClearSlots(MoveArgs(S, 0, [i \in 1..extra |-> arg(arity + i - 1)]),
                           extra, afs))
        R3 == AndThen(R2, LAMBDA S :
                PushFrame(S, ApContRet(extra, ApContMask(mask, arity)), funref, fs))
        R4 == AndThen(R3, LAMBDA S :
                ClearSlots(MoveArgs(S, 0, [i \in 1..arity |-> arg(i - 1)]),
                           arity, fs))
    IN  AndThen(R4, LAMBDA S : IF pap THEN [S EXCEPT !.status = "exit"] ELSE S)


\* Fault variant of PapMask: the PAP's own mask is not shifted past.
PapMaskUnshifted(mask, pap, papArgs, papMask) ==
    IF pap THEN mask | papMask ELSE mask

\* The new PAP's pointer mask: the direct arguments' mask shifted past the
\* old PAP's arguments, or'ed with the old PAP's mask, in MaskBits bits.
PapMask(mask, pap, papArgs, papMask) ==
    IF pap THEN ((mask * 2^papArgs) % 2^MaskBits) | papMask ELSE mask

\* Fault variant of ResultSlot: the frame header is not skipped.
ResultSlotAtTop(R) == R.top - R.base

\* buf_.slots_.top() + FRAME_SIZE: where MOV_RES finds a call's result.
ResultSlot(R) == R.top - R.base + FrameSize

\* callStack_.returnTo(pc): pops the frame the trace pushed, if any.
ReturnTo(stack) == IF stack = << >> THEN stack ELSE SubSeq(stack, 1, Len(stack) - 1)

\* base[-3] of the calling frame: the base of the frame it returns to.
OuterBase == 0

\* Partial application: all guards (info table, return PC for CALLT, heap
\* check), then NEW of a PAP with all arguments; CALL leaves it in the
\* result slot, CALLT clears its frame, stores it in slot 0 and returns.
ApplyPartial(R, mask, pap, papArgs, papMask, funref, all, retPc) ==
    LET R0 == SpecialiseOnInfoTable(R)
        R1 == IF retPc /= NoPc THEN R0 ELSE Guard(R0)    \* EQ on slot -2
        R2 == Guard(R1)                                   \* emitHeapCheck
        R3 == [R2 EXCEPT !.pap = [nargs |-> Len(all), fun |-> funref,
                                  mask |-> PapMask(mask, pap, papArgs, papMask),
                                  payload |-> all]]
    IN  IF retPc /= NoPc THEN SetSlot(R3, ResultSlot(R3), NewRef)
        ELSE LET S1 == SetSlot(ClearSlots(R3, -3, R3.top - R3.base), 0, NewRef)
             IN  Frame([S1 EXCEPT !.stack = ReturnTo(@)], OuterBase, S1.base - 3)

RecordGenericApply2(R, c, fnodeRef, args, retPc) ==
    LET cl      == c.clos
        pap     == cl.type = "PAP"
        papArgs == cl.nargs
        total   == papArgs + c.nargs
        R0      == IF pap THEN SpecialiseOnPapShape(SpecialiseOnInfoTable(R)) ELSE R
        funref  == IF pap THEN LoadField(fnodeRef, PapFunctionOffset) ELSE fnodeRef
        all     == AllArgs(papArgs, args, fnodeRef)
    IN  CASE cl.type = "THUNK" -> ApplyThunk(R0, c.nargs, c.mask, fnodeRef, args, retPc)
          [] cl.arity = total  -> ApplyExact(R0, cl.arity + Locals, funref, all, retPc)
          [] cl.arity < total  -> ApplyOver(R0, cl.arity, c.mask, pap, papArgs,
                                            fnodeRef, funref, args, retPc)
          [] OTHER             -> ApplyPartial(R0, c.mask, pap, papArgs, cl.papMask,
                                               funref, all, retPc)

(***************************************************************************)
(* The kCALL and kCALLT cases of recordIns.                                *)
(***************************************************************************)

\* while (clos->isIndirection()) clos = followIndirection(buf_, ins->a(), clos);
RECURSIVE FollowIndirections(_, _, _)
FollowIndirections(R, slot, k) ==
    IF k = 0 THEN R ELSE FollowIndirections(FollowIndirection(R, slot), slot, k - 1)

\* Follow the indirections, read the direct arguments (slots 0..c-1 for
\* CALLT, the argument bytes for CALL) and the callee node, then apply.
RecordCall(op, retPc) ==
    /\ ~done
    /\ call.op = op
    /\ LET R1   == FollowIndirections(rs, FnodeSlot, call.ind)
           args == [i \in 1..call.nargs |-> Slot(R1, i - 1)]
       IN  /\ applied' = [base |-> R1.base, w |-> R1.w]
           /\ rs' = RecordGenericApply2(R1, call, Slot(R1, FnodeSlot), args, retPc)
    /\ done' = TRUE
    /\ UNCHANGED <<call, entry>>

RecordCALLT == RecordCall("CALLT", NoPc)
RecordCALL  == RecordCall("CALL", "ret")

Init ==
    /\ call \in Calls
    /\ rs = Rs0
    /\ entry = [base |-> Rs0.base, w |-> Rs0.w]
    /\ applied = entry
    /\ done = FALSE

Next == RecordCALL \/ RecordCALLT

Spec == Init /\ [][Next]_vars


(***************************************************************************)
(* The calling convention (spec section 4.7.1) as reference definitions,   *)
(* stated from the instruction alone, and the properties.                  *)
(***************************************************************************)

\* The callee node as the trace reaches it: k FLOADs through indirections.
RECURSIVE NodeRef(_)
NodeRef(k) == IF k = 0 THEN SLoad(CallerBase + FnodeSlot) ELSE FLoad(NodeRef(k - 1), 1)

PapArgs   == call.clos.nargs
TotalArgs == PapArgs + call.nargs
Arity     == call.clos.arity

\* The arguments the callee is applied to, in order.
ExpectedArgs ==
    [i \in 1..PapArgs |-> FLoad(NodeRef(call.ind), PapPayloadOffset + i - 1)]
    \o [i \in 1..call.nargs |-> SLoad(CallerBase + i - 1)]
ExpectedFun ==
    IF call.clos.type = "PAP" THEN FLoad(NodeRef(call.ind), PapFunctionOffset)
    ELSE NodeRef(call.ind)

Bit(x, i) == shiftR(x, i) % 2 = 1
\* Whether argument i (1-based) of ExpectedArgs is a pointer.
IsPtrArg(i) == IF i <= PapArgs THEN Bit(call.clos.papMask, i - 1)
               ELSE Bit(call.mask, i - PapArgs - 1)

\* Reading the recorded frames back: slots k.. of the frame at b, and the
\* base saved in the header of the frame at b.
FrameArgs(b, k) == [i \in 1..k |-> rs.w[b + i - 1]]
BaseBelow(b)    == rs.w[b - 3][2][2]
Cleared(b, from, to) == \A i \in from..(to - 1) : rs.w[b + i] = NoRef

Recorded == done /\ rs.status = "ok"

TypeOK ==
    /\ call \in Calls
    /\ rs.status \in {"ok", "abort", "exit"}
    /\ rs.base \in SlotIdx /\ rs.top \in 0..StackLimit
    /\ DOMAIN rs.w = SlotIdx
    /\ done \in BOOLEAN

\* After a recorded CALL or CALLT the frames on the abstract stack are the
\* ones the interpreter would build: the callee's frame holds the PAP's
\* stored arguments then the direct arguments (the first arity of them for
\* an overapplication, the rest in the AP continuation frame below it),
\* names the function in slot -1, and has its other slots cleared; a thunk
\* gets an AP continuation with the direct arguments, an update frame for
\* the thunk and the thunk's own frame.
ArgumentsInPlace ==
    Recorded =>
    CASE call.clos.type = "THUNK" ->
            LET upd == BaseBelow(rs.base)
            IN  /\ rs.w[rs.base - 1] = NodeRef(call.ind)
                /\ rs.w[upd] = NodeRef(call.ind)
                /\ FrameArgs(BaseBelow(upd), call.nargs) = ExpectedArgs
      [] Arity = TotalArgs ->
            /\ rs.w[rs.base - 1] = ExpectedFun
            /\ FrameArgs(rs.base, Arity) = ExpectedArgs
            /\ Cleared(rs.base, Arity, Arity + Locals)
      [] Arity < TotalArgs ->
            /\ rs.w[rs.base - 1] = ExpectedFun
            /\ FrameArgs(rs.base, Arity)
                  \o FrameArgs(BaseBelow(rs.base), TotalArgs - Arity) = ExpectedArgs
            /\ Cleared(rs.base, Arity, Arity + Locals)
      [] OTHER -> TRUE

\* A partial application allocates a PAP of the function holding all
\* arguments in order, and leaves it where MOV_RES (after CALL) or the
\* caller (after CALLT returns) reads the result: slot top + FRAME_SIZE of
\* the frame that is current afterwards; CALLT's own frame is gone.
PapBuilt ==
    (Recorded /\ call.clos.type /= "THUNK" /\ Arity > TotalArgs) =>
        /\ rs.pap.payload = ExpectedArgs
        /\ rs.pap.nargs = TotalArgs
        /\ rs.pap.fun = ExpectedFun
        /\ rs.w[rs.top + FrameSize] = NewRef
        /\ call.op = "CALLT" => rs.base = OuterBase /\ Cleared(CallerBase, -3, 0)

\* The pointer masks recorded for the garbage collector agree with the
\* arguments: bit i of a new PAP's mask, and of the mask that selects an
\* AP continuation, is set exactly when the argument it describes is a
\* pointer.
PointerMasksMatchArgs ==
    Recorded =>
    CASE call.clos.type = "THUNK" ->
            LET apk == rs.w[BaseBelow(BaseBelow(rs.base)) - 1][2]
            IN  \A j \in 1..call.nargs : Bit(apk[3], j - 1) = IsPtrArg(j)
      [] Arity < TotalArgs ->
            LET apk == rs.w[BaseBelow(rs.base) - 1][2]
            IN  \A j \in 1..(TotalArgs - Arity) :
                    Bit(apk[3], j - 1) = IsPtrArg(Arity + j)
      [] Arity > TotalArgs ->
            \A i \in 1..TotalArgs : Bit(rs.pap.mask, i - 1) = IsPtrArg(i)
      [] OTHER -> TRUE

\* Every guard recordGenericApply2 emits snapshots the slots exactly as
\* they were when it was called, so a failing guard resumes the
\* interpreter at the CALL/CALLT as if nothing was recorded (the comment at
\* the top of recordGenericApply2).
ApplyGuardsFirst ==
    Recorded => \A i \in (call.ind + 1)..Len(rs.snaps) : rs.snaps[i] = applied


=============================================================================
