----------------------------- MODULE RecordStack -----------------------------
(***************************************************************************)
(* The recorder's abstract stack across the frame-moving cases of         *)
(* Jit::recordIns (src/vm/jit.cc): EVAL, RET1/IRET, RETN, MOV_RES, UPDATE, *)
(* the loads, the allocations, GETTAG and the plain slot moves, each step *)
(* taken together with the interpreter executing the same instruction.    *)
(*                                                                         *)
(* A TRef is represented by the value its IR instruction computes when    *)
(* the trace runs: an SLOAD of stack slot i reads the memory the trace was *)
(* entered with (mem0[i]; a trace writes the stack only at its exits), an *)
(* FLOAD reads the heap, an arithmetic op is the term <<op, x, y>>, a     *)
(* literal its value and a NEW the node it allocates.                      *)
(*                                                                         *)
(* The interpreter (not under src/) follows the frame layout pushFrame     *)
(* writes: a frame at base b has the caller's base in b-3, the return PC   *)
(* in b-2 and the node in b-1; a callee's frame starts FRAME_SIZE above    *)
(* its caller's top, and results are left in the callee's slots 0.., that *)
(* is at the caller's top + FRAME_SIZE + d, where MOV_RES d picks them up. *)
(***************************************************************************)
EXTENDS Integers, Sequences, FiniteSets, TLC

CONSTANTS
    MaxSteps,      \* instructions recorded
    MaxPlain,      \* of which loads, moves, arithmetic, guards and allocations
    StackLimit,    \* highest top slots_.frame() accepts
    ThunkFS,       \* framesize of a thunk's (and a CAF's) code
    Lits,          \* literals LOADK may load
    NewNodes,      \* nodes the trace may allocate, in allocation order
    Heap0,         \* the heap when recording starts: node -> [info, fields]
    Mem0Choices,   \* stacks the recording may start on
    Undef,         \* a slot the interpreter has not written
    NoRef,         \* TRef(): an empty abstract slot
    PcRet,         \* a return point followed by MOV_RES
    PcUpd,         \* MiscClosures::stg_UPD_return_pc
    UpdClosure,    \* MiscClosures::stg_UPD_closure_addr
    Con, Fun, Thunk, Caf, Ind   \* info tables, by closure type

FrameSize == 3                     \* FRAME_SIZE
UpdFrameSize == 2                  \* MiscClosures::UPD_frame_size
Addrs == 0..(StackLimit + FrameSize)
BaseLit(b) == <<"base", <<b>>>>        \* buf_.baseLiteral(base), a saved base
IntLit(k) == <<"i64", <<k>>>>          \* an IRT_I64 literal

\* Info tables: constructors and functions are in head normal form;
\* thunks and CAFs run ThunkFS-slot code; an indirection's field 1 is the
\* node it points to.
IsHNF(n, H) == H[n].info \in {Con, Fun}
IsInd(n, H) == H[n].info = Ind
IsNode(v, H) == v \in DOMAIN H
Tag(n, H) == 1

VARIABLES
    mem0,     \* the stack when recording started
    rs,       \* recorder: [w, base, top, status, dead]; w: address -> value | NoRef
    is,       \* interpreter: [st, base, top, code]
    heap,     \* the heap as the interpreter changes it
    theap,    \* the heap as the trace's NEW and UPDATE change it
    nsteps,   \* instructions recorded
    nplain    \* of which plain (not frame-moving) ones

vars == <<mem0, rs, is, heap, theap, nsteps, nplain>>

(***************************************************************************)
(* IRBuffer / AbstractStack (src/vm/ir.hh, not under src/).                *)
(***************************************************************************)

\* buf_.slot(i): the slot's TRef, or an SLOAD of the entry stack.
Slot(R, i) == IF R.w[R.base + i] /= NoRef THEN R.w[R.base + i]
              ELSE mem0[R.base + i]

\* buf_.setSlot(i, ref)
SetSlot(R, i, v) == [R EXCEPT !.w[R.base + i] = v]

\* Fault variant of Frame: no overflow check.
FrameUnchecked(R, nb, nt) == [R EXCEPT !.base = nb, !.top = nt]

\* buf_.slots_.frame(base, top): fails past the abstract stack's end.
Frame(R, nb, nt) ==
    IF nt <= StackLimit THEN [R EXCEPT !.base = nb, !.top = nt]
    ELSE [R EXCEPT !.status = "abort"]

AndThen(R, F(_)) == IF R.status = "ok" THEN F(R) ELSE R

\* Emitting a guard.  A guard whose condition is false for the values the
\* trace computes fails on every run: what is recorded after it is dead.
Guard(R, cond) == IF cond THEN R ELSE [R EXCEPT !.dead = TRUE]

\* EQINFO(ref, info): the node the ref computes has that info table.
EqInfo(R, H, ref, info) == Guard(R, IsNode(ref, H) /\ H[ref].info = info)

\* for (i = from; i < to; ++i) buf_.setSlot(i, TRef());
ClearSlots(R, from, to) ==
    [R EXCEPT !.w = [j \in Addrs |->
        IF j - R.base \in from..(to - 1) THEN NoRef ELSE @[j]]]

(***************************************************************************)
(* Helpers of jit.cc.                                                      *)
(***************************************************************************)

\* loadField: FREF + FLOAD of word offset o of the node the ref computes.
\* (A ref that is no node with such a field is only loaded from past a
\* guard that fails; the load then stands for itself.)
LoadField(H, node, o) ==
    IF IsNode(node, H) /\ o \in DOMAIN H[node].fields THEN H[node].fields[o]
    ELSE <<"fload", node, o>>

\* followIndirection: EQINFO guard on the slot, load the payload, store it
\* back into the slot.
FollowIndirection(R, H, slot) ==
    LET R1 == EqInfo(R, H, Slot(R, slot), Ind)
    IN  SetSlot(R1, slot, LoadField(H, Slot(R1, slot), 1))

\* Jit::pushFrame(base, returnPc, noderef, framesize)
PushFrame(R, retPc, node, fs) ==
    LET t  == R.top - R.base
        R1 == SetSlot(SetSlot(SetSlot(R, t, BaseLit(R.base)), t + 1, retPc),
                      t + 2, node)
        nb == R.base + t + FrameSize
    IN  Frame(R1, nb, nb + fs)

\* The node a chain of indirections ends at (both the interpreter's and
\* the recorder's loops stop there; a cycle is cut after one pass).
RECURSIVE DerefF(_, _, _)
DerefF(H, n, k) == IF k = 0 \/ ~IsNode(n, H) \/ ~IsInd(n, H) THEN n
                   ELSE DerefF(H, H[n].fields[1], k - 1)
Deref(H, n) == DerefF(H, n, Cardinality(DOMAIN H))
Resolve(H, v) == IF IsNode(v, H) THEN Deref(H, v) ELSE v

\* while (tnode->isIndirection()) tnode = followIndirection(...)
RECURSIVE FollowIndirections(_, _, _, _, _)
FollowIndirections(R, H, a, n, k) ==
    IF k = 0 \/ ~IsInd(n, H) THEN R
    ELSE FollowIndirections(FollowIndirection(R, H, a), H, a,
                            H[n].fields[1], k - 1)

(***************************************************************************)
(* The cases of recordIns.  I is the interpreter state recordIns reads     *)
(* through base[] and the thread's top; H the heap it reads.               *)
(***************************************************************************)

RecLoadK(R, a, k)       == SetSlot(R, a, k)
RecMov(R, a, d)         == SetSlot(R, a, Slot(R, d))
RecLoadSlf(R, a)        == SetSlot(R, a, Slot(R, -1))
\* ARITH_OP_RRR (and PTROFSC) / ARITH_OP_RR
RecArith(R, op, a, b, c) == SetSlot(R, a, <<op, Slot(R, b), Slot(R, c)>>)
RecUnary(R, op, a, d)    == SetSlot(R, a, <<op, Slot(R, d)>>)
RecLoadF(R, H, a, b, c)  == SetSlot(R, a, LoadField(H, Slot(R, b), c))
RecLoadFV(R, H, a, d)    == SetSlot(R, a, LoadField(H, Slot(R, -1), d))

\* GETTAG: guard on the info table, then the tag - 1 as a literal.
RecGetTag(R, H, I, a, d) ==
    LET cl == I.st[I.base + d]
    IN  SetSlot(EqInfo(R, H, Slot(R, d), H[cl].info), a, IntLit(Tag(cl, H) - 1))

\* CASE / CASE_S: guard on the scrutinee's info table.
RecCase(R, H, I, a) == EqInfo(R, H, Slot(R, a), H[I.st[I.base + a]].info)

\* EVAL: follow indirections, guard on the info table; an HNF is left in
\* the result slot above the thread's top, anything else gets an update
\* frame and a frame for its code, all of whose slots are cleared.
RecEval(R, H, I, a) ==
    LET tnode   == Deref(H, I.st[I.base + a])
        R0      == FollowIndirections(R, H, a, I.st[I.base + a],
                                      Cardinality(DOMAIN H))
        noderef == Slot(R0, a)
        R1      == EqInfo(R0, H, noderef, H[tnode].info)
        topslot == I.top - I.base
        R2 == PushFrame(R1, PcRet, UpdClosure, UpdFrameSize)
        R3 == AndThen(R2, LAMBDA S : SetSlot(SetSlot(S, 0, noderef), 1, NoRef))
        R4 == AndThen(R3, LAMBDA S : PushFrame(S, PcUpd, noderef, ThunkFS))
    IN  IF IsHNF(tnode, H)
        THEN SetSlot(R1, topslot + FrameSize, noderef)
        ELSE AndThen(R4, LAMBDA S : ClearSlots(S, 0, ThunkFS))

\* RET1 / IRET: guard on the return PC, clear the frame and its header,
\* put the result in slot 0 and move to the caller's frame (base[-3]).
\* Fault variant of RecRet1: the result is stored before the frame is
\* cleared.
RecRet1LateClear(R, I, a) ==
    LET R0 == Guard(R, Slot(R, -2) = I.st[I.base - 2])
        R1 == ClearSlots(SetSlot(R0, 0, Slot(R0, a)), -3, R0.top - R0.base)
    IN  Frame(R1, I.st[I.base - 3][2][1], I.base - 3)

RetGuard(R, I) == Guard(R, Slot(R, -2) = I.st[I.base - 2])

RecRet1(R, I, a) ==
    LET R0 == RetGuard(R, I)
        result == Slot(R0, a)
        R1 == SetSlot(ClearSlots(R0, -3, R0.top - R0.base), 0, result)
    IN  Frame(R1, I.st[I.base - 3][2][1], I.base - 3)

\* Fault variant of RecRetN: the caller's frame keeps the callee's top.
RecRetNKeepTop(R, I, a) ==
    LET R0 == RetGuard(R, I)
        R1 == ClearSlots(ClearSlots(R0, -3, 0), a, R0.top - R0.base)
    IN  Frame(R1, I.st[I.base - 3][2][1], R0.top)

\* RETN: as RET1, but the results stay in slots 0..a-1.
RecRetN(R, I, a) ==
    LET R0 == RetGuard(R, I)
        R1 == ClearSlots(ClearSlots(R0, -3, 0), a, R0.top - R0.base)
    IN  Frame(R1, I.st[I.base - 3][2][1], I.base - 3)

\* MOV_RES: the result slot above the abstract top, moved and cleared.
RecMovRes(R, a, d) ==
    LET resultslot == R.top - R.base + FrameSize + d
        result     == Slot(R, resultslot)
    IN  SetSlot(SetSlot(R, resultslot, NoRef), a, result)

\* emitNEW: the node the trace's next NEW allocates.
NextNode(H) == NewNodes[Cardinality(DOMAIN H \ DOMAIN Heap0) + 1]
HasRoom(H) == Cardinality(DOMAIN H \ DOMAIN Heap0) < Len(NewNodes)

\* emitHeapCheck, then emitNEW(itbl, n) and setField for every field,
\* then the slot: ALLOC1 (itbl from slot b, one field from slot c), ALLOC
\* (fields from the argument slots) and ALLOCAP (the AP info table of the
\* n - 1 arguments and pointer mask).  The slots are all read before NEW.
RecAlloc(R, TH, a, itbl, argslots) ==
    LET fields == [i \in 1..Len(argslots) |-> Slot(R, argslots[i])]
        clos   == NextNode(TH)
    IN  [r |-> SetSlot(R, a, clos),
         h |-> TH @@ (clos :> [info |-> itbl, fields |-> fields])]

ApInfo(n, mask) == <<"ap", n, mask>>    \* MiscClosures::getApInfo

\* Fault variant of RecUpdate: the operands swapped.
RecUpdateSwapped(R, TH, H, I, a, d) ==
    IF H[I.st[I.base + a]].info = Caf
    THEN [r |-> [R EXCEPT !.status = "abort"], h |-> TH]
    ELSE [r |-> EqInfo(R, H, Slot(R, a), H[I.st[I.base + a]].info),
          h |-> [TH EXCEPT ![Slot(R, d)] =
                    [info |-> Ind, fields |-> <<Slot(R, a)>>]]]

\* UPDATE: a CAF aborts (NYI); otherwise guard on the old node's info
\* table and UPDATE it with the new value: it becomes an indirection.
RecUpdate(R, TH, H, I, a, d) ==
    IF H[I.st[I.base + a]].info = Caf
    THEN [r |-> [R EXCEPT !.status = "abort"], h |-> TH]
    ELSE [r |-> EqInfo(R, H, Slot(R, a), H[I.st[I.base + a]].info),
          h |-> [TH EXCEPT ![Slot(R, a)] =
                    [info |-> Ind, fields |-> <<Slot(R, d)>>]]]

(***************************************************************************)
(* The interpreter (spec section 4.7, not under src/): the instruction     *)
(* the recorder just saw, executed on the real stack and heap.  code says  *)
(* what the bytecode at the PC can be: any instruction ("body"), the       *)
(* MOV_RES of a return point with n results ("movres"), or step n of the   *)
(* update frame's code MOV_RES 1 0; UPDATE 0 1; RET1 1 ("upd").            *)
(***************************************************************************)

IV(I, i) == I.st[I.base + i]
ISet(I, i, v) == [I EXCEPT !.st[I.base + i] = v]
Body == [k |-> "body", n |-> 0]

\* EVAL: an HNF goes to the result slot; a thunk gets an update frame
\* (node in slot 0) and a frame for its code.
IEval(I, H, a) ==
    LET n  == Deref(H, IV(I, a))
        ub == I.top + FrameSize
        tb == ub + UpdFrameSize + FrameSize
        hdr == (I.top :> BaseLit(I.base)) @@ (I.top + 1 :> PcRet) @@ (I.top + 2 :> UpdClosure)
               @@ (ub :> n) @@ (ub + 1 :> Undef)
               @@ (ub + 2 :> BaseLit(ub)) @@ (ub + 3 :> PcUpd) @@ (ub + 4 :> n)
    IN  IF IsHNF(n, H)
        THEN [I EXCEPT !.st[I.top + FrameSize] = n, !.code = [k |-> "movres", n |-> 1]]
        ELSE [st |-> [j \in Addrs |-> IF j \in DOMAIN hdr THEN hdr[j]
                                      ELSE IF j \in tb..(tb + ThunkFS - 1) THEN Undef
                                      ELSE I.st[j]],
              base |-> tb, top |-> tb + ThunkFS, code |-> Body]

\* A return with nres results in the callee's slots 0..: back to the
\* caller's base and top; its return PC decides the code that follows.
IReturn(I, nres) ==
    [st |-> I.st, base |-> IV(I, -3)[2][1], top |-> I.base - FrameSize,
     code |-> IF IV(I, -2) = PcUpd THEN [k |-> "upd", n |-> 0]
              ELSE [k |-> "movres", n |-> nres]]

IRet1(I, a) == IReturn(ISet(I, 0, IV(I, a)), 1)

IMovRes(I, a, d) ==
    [ISet(I, a, I.st[I.top + FrameSize + d]) EXCEPT
        !.code = IF I.code.k = "upd" THEN [k |-> "upd", n |-> 1] ELSE Body]

(***************************************************************************)
(* One instruction: recordIns, then (unless it aborted) the interpreter.   *)
(***************************************************************************)

BottomBase == FrameSize            \* the lowest frame; the trace never returns from it
Slots == 0..(is.top - is.base - 1)
\* Past a guard that always fails nothing recorded can run: stop there.
Ready == rs.status = "ok" /\ ~rs.dead /\ nsteps < MaxSteps
InBody == is.code = Body
At(k, n) == is.code = [k |-> k, n |-> n]
\* Bytecode reads only slots it has written.
Def(a) == IV(is, a) /= Undef
DefSlots == {a \in Slots : Def(a)}

Step(R2, I2, H2, TH2) ==
    /\ rs' = R2
    /\ is' = IF R2.status = "ok" THEN I2 ELSE is
    /\ heap' = IF R2.status = "ok" THEN H2 ELSE heap
    /\ theap' = TH2
    /\ nsteps' = nsteps + 1
    /\ UNCHANGED <<mem0, nplain>>

\* An instruction that neither pushes nor pops a frame.
Plain(R2, I2, H2, TH2) ==
    /\ nplain < MaxPlain
    /\ rs' = R2 /\ is' = I2 /\ heap' = H2 /\ theap' = TH2
    /\ nsteps' = nsteps + 1
    /\ nplain' = nplain + 1
    /\ UNCHANGED mem0

LoadK == Ready /\ InBody /\ \E a \in Slots, k \in Lits :
    Plain(RecLoadK(rs, a, k), ISet(is, a, k), heap, theap)

Mov == Ready /\ InBody /\ \E a \in Slots, d \in DefSlots :
    Plain(RecMov(rs, a, d), ISet(is, a, IV(is, d)), heap, theap)

LoadSlf == Ready /\ InBody /\ \E a \in Slots :
    Plain(RecLoadSlf(rs, a), ISet(is, a, IV(is, -1)), heap, theap)

\* Arithmetic operands are never closures.
Arith == Ready /\ InBody /\ \E a \in Slots, b, c \in DefSlots :
    /\ ~IsNode(IV(is, b), heap) /\ ~IsNode(IV(is, c), heap)
    /\ Plain(RecArith(rs, "ADD", a, b, c),
         ISet(is, a, <<"ADD", IV(is, b), IV(is, c)>>), heap, theap)

Unary == Ready /\ InBody /\ \E a \in Slots, d \in DefSlots :
    /\ ~IsNode(IV(is, d), heap)
    /\ Plain(RecUnary(rs, "NEG", a, d), ISet(is, a, <<"NEG", IV(is, d)>>), heap, theap)

\* Comparisons, CASE/CASE_S and JMP emit at most a guard.
GuardOnly == Ready /\ InBody /\
    \/ \E a, d \in DefSlots : Plain(rs, is, heap, theap)
    \/ \E a \in Slots : /\ IsNode(IV(is, a), heap)
                        /\ heap[IV(is, a)].info = Con
                        /\ Plain(RecCase(rs, heap, is, a), is, heap, theap)

LoadF == Ready /\ InBody /\ \E a, b \in Slots :
    /\ IsNode(IV(is, b), heap)
    /\ heap[IV(is, b)].info = Con
    /\ \E c \in DOMAIN heap[IV(is, b)].fields :
          Plain(RecLoadF(rs, heap, a, b, c),
               ISet(is, a, LoadField(heap, IV(is, b), c)), heap, theap)

LoadFV == Ready /\ InBody /\ IsNode(IV(is, -1), heap) /\
    \E a \in Slots, d \in DOMAIN heap[IV(is, -1)].fields :
        Plain(RecLoadFV(rs, heap, a, d),
             ISet(is, a, LoadField(heap, IV(is, -1), d)), heap, theap)

GetTag == Ready /\ InBody /\ \E a, d \in Slots :
    /\ IsNode(IV(is, d), heap)
    /\ heap[IV(is, d)].info = Con
    /\ Plain(RecGetTag(rs, heap, is, a, d),
            ISet(is, a, IntLit(Tag(IV(is, d), heap) - 1)), heap, theap)

\* The interpreter's allocation of the same instruction.
IAlloc(a, itbl, argslots) ==
    LET clos == NextNode(heap)
    IN  [i |-> ISet(is, a, clos),
         h |-> heap @@ (clos :> [info |-> itbl,
                                 fields |-> [j \in 1..Len(argslots) |->
                                                IV(is, argslots[j])]])]

AllocStep(a, ritbl, iitbl, argslots) ==
    LET T == RecAlloc(rs, theap, a, ritbl, argslots)
        A == IAlloc(a, iitbl, argslots)
    IN  Plain(T.r, A.i, A.h, T.h)

Alloc == Ready /\ InBody /\ HasRoom(heap) /\
    \/ \E a \in Slots, b, c \in DefSlots :
          /\ IV(is, b) \in {Con, Fun}
          /\ AllocStep(a, Slot(rs, b), IV(is, b), <<c>>)                 \* ALLOC1
    \/ \E a \in Slots, b, x, y \in DefSlots :
          /\ IV(is, b) \in {Con, Fun}
          /\ AllocStep(a, Slot(rs, b), IV(is, b), <<x, y>>)              \* ALLOC
    \/ \E a \in Slots, x, y \in DefSlots :
          AllocStep(a, ApInfo(1, 1), ApInfo(1, 1), <<x, y>>)             \* ALLOCAP

Eval == Ready /\ InBody /\ \E a \in Slots :
    /\ IsNode(IV(is, a), heap)
    /\ Step(RecEval(rs, heap, is, a), IEval(is, heap, a), heap, theap)

Ret1 == Ready /\ is.base > BottomBase /\
    \/ InBody /\ \E a \in DefSlots : Step(RecRet1(rs, is, a), IRet1(is, a), heap, theap)
    \/ At("upd", 2) /\ Step(RecRet1(rs, is, 1), IRet1(is, 1), heap, theap)

\* An update frame takes exactly one result.
RetN == Ready /\ InBody /\ is.base > BottomBase /\
    \E a \in 0..(is.top - is.base) :
        /\ IV(is, -2) = PcUpd => a = 1
        /\ \A r \in 0..(a - 1) : Def(r)
        /\ Step(RecRetN(rs, is, a), IReturn(is, a), heap, theap)

MovRes == Ready /\
    \/ is.code.k = "movres" /\ \E a \in Slots, d \in 0..(is.code.n - 1) :
          Step(RecMovRes(rs, a, d), IMovRes(is, a, d), heap, theap)
    \/ At("upd", 0) /\ Step(RecMovRes(rs, 1, 0), IMovRes(is, 1, 0), heap, theap)

\* A thunk's value is a closure.
Update == Ready /\ At("upd", 1) /\ IsNode(IV(is, 1), heap) /\
    LET T == RecUpdate(rs, theap, heap, is, 0, 1)
    IN  Step(T.r, [is EXCEPT !.code = [k |-> "upd", n |-> 2]],
             [heap EXCEPT ![IV(is, 0)] = [info |-> Ind, fields |-> <<IV(is, 1)>>]],
             T.h)

Init ==
    /\ mem0 \in Mem0Choices
    /\ is \in {[st |-> mem0, base |-> BottomBase + 2 + FrameSize,
                top |-> BottomBase + 4 + FrameSize, code |-> c]
               : c \in {Body, [k |-> "movres", n |-> 1]}}
    /\ mem0[is.top + FrameSize] = Undef => is.code = Body
    /\ rs = [w |-> [i \in Addrs |-> NoRef], base |-> is.base, top |-> is.top,
             status |-> "ok", dead |-> FALSE]
    /\ heap = Heap0
    /\ theap = Heap0
    /\ nsteps = 0
    /\ nplain = 0

Next == LoadK \/ Mov \/ LoadSlf \/ Arith \/ Unary \/ GuardOnly \/ LoadF
        \/ LoadFV \/ GetTag \/ Alloc \/ Eval \/ Ret1 \/ RetN \/ MovRes \/ Update

Spec == Init /\ [][Next]_vars

(***************************************************************************)
(* Properties.                                                             *)
(***************************************************************************)

TypeOK ==
    /\ rs.status \in {"ok", "abort"}
    /\ rs.base \in Addrs /\ rs.top \in 0..StackLimit
    /\ DOMAIN rs.w = Addrs /\ DOMAIN is.st = Addrs
    /\ is.code.k \in {"body", "movres", "upd"}
    /\ nsteps \in 0..MaxSteps /\ nplain \in 0..MaxPlain

\* The slots the interpreter may still read: the defined slots below its
\* top, and the results a MOV_RES is about to pick up above it.
Pending(I) == IF I.code.k = "movres" THEN I.code.n
              ELSE IF I.code = [k |-> "upd", n |-> 0] THEN 1 ELSE 0
Live(I) == {i \in 0..(I.top - 1) : I.st[i] /= Undef}
           \cup {I.top + FrameSize + d : d \in 0..(Pending(I) - 1)}

\* What a snapshot of the abstract stack writes back at an exit: the
\* written slots, over the stack the trace was entered with.
Restored(i) == IF rs.w[i] /= NoRef THEN rs.w[i] ELSE mem0[i]

\* After any sequence of recorded instructions (EVAL pushing update and
\* thunk frames, returns clearing them, MOV_RES moving results, loads and
\* allocations), a guard's snapshot of the abstract stack restores every
\* slot the interpreter may still read to the value it holds (up to
\* following indirections).
SnapshotRestoresStack ==
    rs.status = "ok" /\ ~rs.dead =>
        \A i \in Live(is) : Resolve(heap, Restored(i)) = Resolve(heap, is.st[i])

\* The abstract stack's base and top stay those of the interpreter's frame
\* (EVAL's LC_ASSERT, and "we rely on the top pointer" in MOV_RES).
FrameTracksInterpreter ==
    rs.status = "ok" /\ ~rs.dead => rs.base = is.base /\ rs.top = is.top

\* The trace's NEWs and UPDATEs build the heap the interpreter builds: the
\* same nodes with the same info tables and (up to indirections) fields.
TraceHeapAgrees ==
    rs.status = "ok" /\ ~rs.dead =>
        /\ DOMAIN theap = DOMAIN heap
        /\ \A n \in DOMAIN heap :
              /\ theap[n].info = heap[n].info
              /\ Len(theap[n].fields) = Len(heap[n].fields)
              /\ \A j \in DOMAIN heap[n].fields :
                    Resolve(heap, theap[n].fields[j]) = Resolve(heap, heap[n].fields[j])

====
