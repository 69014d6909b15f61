---------------------------- MODULE RecordLoop -----------------------------
(***************************************************************************)
(* How a recording ends (src/vm/jit.cc, Jit::recordIns).  Nothing bounds   *)
(* the IR buffer (it is resized on demand), so a recording ends only       *)
(* through recordIns: a loop back to the trace head (SAVE LOOP), an inner  *)
(* loop (SAVE FALLTHROUGH), a JFUNC (SAVE LINK), more than MaxBranches     *)
(* branch targets (AR_TRACE_TOO_LONG), an aborting instruction, or an      *)
(* interpreter request.                                                    *)
(*                                                                         *)
(* Only the loop control is kept: the call-stack shadow (callStack_), the  *)
(* branch-target buffer as the list of (pc, call context) pairs,          *)
(* kLastInsWasBranch and shouldAbort_.  Snapshots, slots                   *)
(* and the fragment store are left out (JitTraces models them).  A body   *)
(* runs forward: JMP and the conditional branches are not branches to      *)
(* recordIns (they leave kLastInsWasBranch clear), and the bytecode        *)
(* compiler emits loops as calls, so the instruction after Body[k] is      *)
(* Body[k+1] or a branch target.                                           *)
(***************************************************************************)
EXTENDS Integers, Sequences, SequencesExt

CONSTANTS
    FuncPCs,      \* FUNC instructions (function entries)
    ApThunkPCs,   \* IFUNC instructions that start an AP thunk
    ApContPCs,    \* IFUNC instructions that start an AP continuation
    LinkedPCs,    \* FUNC instructions already overwritten by JFUNC
    RetPCs,       \* return points, the instruction after a CALL or EVAL
    UpdReturnPc,  \* MiscClosures::stg_UPD_return_pc, a member of RetPCs
    Body,         \* the instructions of a function body after its entry, in order
    MaxBranches,  \* the btb_.size() limit (100 in the code)
    MaxFrames     \* frames the abstract stack holds above, and below, the start frame

ASSUME LinkedPCs \subseteq FuncPCs /\ UpdReturnPc \in RetPCs

IFuncPCs  == ApThunkPCs \cup ApContPCs
EntryPCs  == FuncPCs \cup IFuncPCs
TargetPCs == EntryPCs \cup RetPCs        \* where a branch can land
CallerPCs == (RetPCs \ {UpdReturnPc}) \cup ApContPCs  \* a frame's return address
BodyPCs   == Range(Body)

VARIABLES
    ipc,           \* the interpreter's pc
    recording,     \* cap_ /= NULL
    btb,           \* btb_: the branch targets of the current recording
    lastWasBranch, \* flags_ bit kLastInsWasBranch
    shouldAbort,   \* shouldAbort_
    ctx            \* callStack_.current()

vars == <<ipc, recording, btb, lastWasBranch, shouldAbort, ctx>>

(***************************************************************************)
(* The call-stack shadow (CallStack, spec 4.2).  A node is the frames     *)
(* pushed since the start frame, each a node of its own (pushFrame makes a *)
(* new node even for the same return point) with the return address       *)
(* pushFrame stores in it, and the number of phantom returns past the      *)
(* start frame (returnTo at the root).  Node identities are only compared, *)
(* so a new node takes the least identity no live node holds.             *)
(***************************************************************************)
StartCtx == [ups |-> 0, frames |-> << >>]

Ids(fs) == {fr.id : fr \in Range(fs)}

LiveIds == UNION {Ids(e.ctx.frames) : e \in Range(btb)} \cup Ids(ctx.frames)

FreshIds(k) ==
    CHOOSE ids \in [1..k -> 1..(MaxBranches + 2) * MaxFrames] :
        /\ \A i \in 1..k : ids[i] \notin LiveIds
        /\ \A i \in 1..k - 1 : ids[i] < ids[i + 1]

\* Jit::pushFrame for each return address of rets, in order.
PushFrames(c, rets) ==
    LET ids == FreshIds(Len(rets))
    IN  [c EXCEPT !.frames =
            @ \o [i \in 1..Len(rets) |-> [id |-> ids[i], ret |-> rets[i]]]]

ReturnTo(c) ==
    IF c.frames = << >> THEN [c EXCEPT !.ups = @ + 1]
    ELSE [c EXCEPT !.frames = Front(@)]

Init ==
    /\ ipc \in TargetPCs
    /\ recording = FALSE
    /\ btb = << >>
    /\ lastWasBranch = FALSE
    /\ shouldAbort = FALSE
    /\ ctx = StartCtx

\* Jit::resetRecorderState, run by finishRecording and on abort_recording.
EndRecording ==
    /\ recording' = FALSE
    /\ lastWasBranch' = FALSE
    /\ shouldAbort' = FALSE
    /\ UNCHANGED <<ipc, ctx>>

\* The interpreter's hot counter trips at a function entry or a return
\* point: Jit::beginRecording and initRecording reset the flags and
\* callStack_.reset() and btb_.reset(startPc_, &callStack_).
BeginRecording ==
    /\ ~recording
    /\ ipc \in (FuncPCs \ LinkedPCs) \cup RetPCs
    /\ recording' = TRUE
    /\ btb' = <<[pc |-> ipc, ctx |-> StartCtx]>>
    /\ ctx' = StartCtx
    /\ lastWasBranch' = FALSE
    /\ shouldAbort' = FALSE
    /\ UNCHANGED ipc

\* An entry recorded in context e is a loop from context c when c is e or
\* was pushed on top of it, or when both are the start frame or a phantom
\* return above it (spec 4.2; BranchTargetBufferTest Loops1 and Loops2).
SameOrDeeper(e, c) ==
    \/ e.ups = c.ups /\ IsPrefix(e.frames, c.frames)
    \/ e.frames = << >> /\ c.frames = << >>

\* BranchTargetBuffer::isTrueLoop(ins): the index of the earliest entry for
\* ins in the same or a shallower call context, or -1.  recordIns skips the
\* check at stg_UPD_return_pc.
IsTrueLoop(pc) ==
    LET hits == {i \in 1..Len(btb) : btb[i].pc = pc /\ SameOrDeeper(btb[i].ctx, ctx)}
    IN  IF pc = UpdReturnPc \/ hits = {} THEN -1 ELSE Min(hits) - 1

\* recordIns returns false and the interpreter executes the instruction
\* in call context c.
ContinueIn(branch, next, c) ==
    /\ lastWasBranch' = branch
    /\ ipc' \in next
    /\ ctx' = c
    /\ UNCHANGED <<recording, shouldAbort>>

Continue(branch, next) == ContinueIn(branch, next, ctx)

\* The position of a body instruction.
Pos(pc) == CHOOSE k \in 1..Len(Body) : Body[k] = pc

\* FUNC and IFUNC: buf_.slots_.frame(base, base + ins->a()).
FrameIns ==
    /\ ipc \in EntryPCs \ LinkedPCs
    /\ Continue(FALSE, {Body[1]})

\* JFUNC: SAVE LINK to the parent it loops back to, or to the existing
\* trace, and finishRecording.
JFuncIns ==
    /\ ipc \in LinkedPCs
    /\ EndRecording

\* LOADK, the comparisons, arithmetic, MOV, MOV_RES, LOADF, ALLOC, CASE,
\* JMP, GETTAG, UPDATE and EVAL of a value: the next instruction.  A return
\* point starts the body it returns into.
StraightIns ==
    \/ /\ ipc \in RetPCs
       /\ Continue(FALSE, {Body[1]})
    \/ /\ ipc \in BodyPCs
       /\ Pos(ipc) < Len(Body)
       /\ Continue(FALSE, {Body[Pos(ipc) + 1]})

\* What recordGenericApply2 (CALL, CALLT) and EVAL push, as the return
\* addresses of the new frames, and where they land: r is the return point
\* of a CALL or EVAL, a the AP continuation getApCont returns, upd
\* stg_UPD_return_pc.  A function of the right arity (or a PAP of it):
\* <<r>> for CALL, nothing for CALLT.  Overapplied: <<r, a>>, or <<a>> for
\* CALLT, whose frame becomes the continuation.  A thunk: <<r, a, upd>>,
\* <<a, upd>> for CALLT, <<r, upd>> for EVAL; thunks start with FUNC or,
\* AP thunks, IFUNC.
CallKinds ==
    LET R    == RetPCs \ {UpdReturnPc}
        Fun  == FuncPCs
        Thk  == FuncPCs \cup ApThunkPCs
        upd  == UpdReturnPc
    IN  {[rets |-> << >>, to |-> Fun]}
        \cup {[rets |-> <<r>>, to |-> Fun] : r \in R}
        \cup {[rets |-> <<a>>, to |-> Fun] : a \in ApContPCs}
        \cup {[rets |-> <<r, a>>, to |-> Fun] : r \in R, a \in ApContPCs}
        \cup {[rets |-> <<r, a, upd>>, to |-> Thk] : r \in R, a \in ApContPCs}
        \cup {[rets |-> <<a, upd>>, to |-> Thk] : a \in ApContPCs}
        \cup {[rets |-> <<r, upd>>, to |-> Thk] : r \in R}

\* CALL, CALLT and EVAL of a thunk, once recordGenericApply2 succeeded: each
\* pushFrame is callStack_.pushFrame, and one that overflows the abstract
\* stack makes recordIns abort.
CallIns ==
    /\ ipc \in BodyPCs
    /\ \E k \in CallKinds :
         IF Len(ctx.frames) + Len(k.rets) > MaxFrames
         THEN EndRecording
         ELSE ContinueIn(TRUE, k.to, PushFrames(ctx, k.rets))

\* RET1, IRET and RETN: callStack_.returnTo, and the interpreter goes on at
\* the return address of the frame it pops; past the start frame, at a
\* caller the recording has not seen.  A frame below the abstract stack
\* makes recordIns abort.
ReturnIns ==
    /\ ipc \in BodyPCs
    /\ IF ctx.frames = << >>
       THEN IF ctx.ups = MaxFrames
            THEN EndRecording
            ELSE ContinueIn(TRUE, CallerPCs, ReturnTo(ctx))
       ELSE ContinueIn(TRUE, {Last(ctx.frames).ret}, ReturnTo(ctx))

\* goto abort_recording from the switch: recordGenericApply2 or pushFrame
\* failed, the abstract stack over- or underflowed, UPDATE of a CAF, or an
\* opcode the recorder does not implement.
AbortIns ==
    /\ ipc \in BodyPCs
    /\ EndRecording

\* The opcode switch of recordIns, after the loop check.
Dispatch ==
    FrameIns \/ JFuncIns \/ StraightIns \/ CallIns \/ ReturnIns \/ AbortIns

\* Mutant: an inner loop is never cut.
InnerLoopGoOn == Dispatch

\* A true loop to a later btb entry, an inner loop: SAVE FALLTHROUGH and
\* finishRecording, except at an IFUNC (generic apply code), where the
\* recording goes on without btb_.emit.
InnerLoop ==
    IF ipc \notin IFuncPCs THEN EndRecording ELSE Dispatch

\* Jit::recordIns(ins, base, code) for ins = ipc.
RecordIns ==
    /\ recording
    /\ \/ /\ shouldAbort                            \* AR_INTERPRETER_REQUEST
          /\ btb' = btb
          /\ EndRecording
       \/ /\ ~shouldAbort
          /\ ~lastWasBranch
          /\ btb' = btb
          /\ Dispatch
       \/ /\ ~shouldAbort
          /\ lastWasBranch
          /\ LET loopentry == IsTrueLoop(ipc) IN
               \/ /\ loopentry = -1                 \* btb_.emit(ins)
                  /\ btb' = Append(btb, [pc |-> ipc, ctx |-> ctx])
                  /\ IF Len(btb') > MaxBranches     \* AR_TRACE_TOO_LONG
                     THEN EndRecording
                     ELSE Dispatch
               \/ /\ loopentry = 0                  \* SAVE LOOP
                  /\ btb' = btb
                  /\ EndRecording
               \/ /\ loopentry > 0
                  /\ btb' = btb
                  /\ InnerLoop

\* Jit::requestAbort, called by the interpreter during a recording.
RequestAbort ==
    /\ recording
    /\ ~shouldAbort
    /\ shouldAbort' = TRUE
    /\ UNCHANGED <<ipc, recording, btb, lastWasBranch, ctx>>

\* The interpreter runs an instruction while no recording is active.
InterpStep ==
    /\ ~recording
    /\ ipc' \in TargetPCs
    /\ UNCHANGED <<recording, btb, lastWasBranch, shouldAbort, ctx>>

Next == BeginRecording \/ RecordIns \/ RequestAbort \/ InterpStep

\* recordIns runs before every instruction the interpreter executes while
\* recording, and the interpreter does not stop; an abort request is up to
\* the interpreter and is not assumed.
Fairness == WF_vars(RecordIns)

Spec == Init /\ [][Next]_vars /\ Fairness

\* The recorder's promise (a trace is cut at an inner loop, see the comment
\* at jit.cc:813): every recording ends, by a loop, a link, an abort or the
\* branch limit, however long the program it records runs.
RecordingEnds == recording ~> ~recording
=============================================================================
