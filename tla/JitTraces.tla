----------------------------- MODULE JitTraces -----------------------------
(***************************************************************************)
(* Life cycle of traces in the lambdachine JIT (src/vm/jit.cc, jit.hh):   *)
(* the interpreter starts a recording at a hot PC, Jit::recordIns is       *)
(* called before every interpreted instruction and either continues,       *)
(* aborts or finishes; Jit::finishRecording registers the fragment,        *)
(* patches the parent's exit and overwrites the FUNC at the start PC with  *)
(* JFUNC; a running fragment leaves through an exit whose snapshot is      *)
(* restored by Fragment::restoreSnapshot, which may start a side trace or  *)
(* a fall-through trace, or patch the exit to an existing trace.           *)
(*                                                                         *)
(* Data is abstracted to the PCs the recorder keys on: a bytecode          *)
(* instruction is described by the class of PC it sits at and by the kind *)
(* of IR it makes recordIns emit (a guard, a heap check, a branch, an      *)
(* abort, nothing).  Trace ids are 1-based here (fragments_[t-1]); exit    *)
(* numbers are 1-based positions in the snapshot table.                    *)
(***************************************************************************)
EXTENDS Integers, Sequences, SequencesExt

CONSTANTS
    FuncPCs,      \* addresses of FUNC instructions (function entries)
    IFuncPCs,     \* addresses of IFUNC instructions (generic apply code)
    RetPCs,       \* return points: the instruction after a CALL or EVAL
    BodyPCs,      \* any other instruction of a function body
    UpdReturnPc,  \* MiscClosures::stg_UPD_return_pc, a member of RetPCs
    MaxBranches,  \* the btb_.size() limit of recordIns (100 in the code)
    HotExit,      \* number of exits after which Snapshot::bumpExitCounter trips
    MaxFragments, \* bound on fragments_.size() explored
    MaxSnaps,     \* bound on snapshots per recorded trace explored
    NoTrace       \* model value: NULL fragment / no fragmentMap_ entry

EntryPCs == FuncPCs \cup IFuncPCs
PCs      == EntryPCs \cup RetPCs \cup BodyPCs
TraceId  == 1..MaxFragments
ExitNo   == 1..(MaxSnaps + 1)
NoExit   == 0                          \* parentExitNo_ = ~0

\* Original opcode class of an address; JFUNC replaces it once a trace exists.
OrigOp(pc) == IF pc \in FuncPCs THEN "FUNC"
              ELSE IF pc \in IFuncPCs THEN "IFUNC"
              ELSE "OTHER"

\* What recordIns does with a non-JFUNC, non-FUNC instruction:
\*   "guard"   comparison, CASE, GETTAG, EVAL of a value, UPDATE (guard + snapshot)
\*   "heapchk" ALLOC1, ALLOC, ALLOCAP (heap check + snapshot)
\*   "branch"  CALL, CALLT, EVAL of a thunk, RET1, IRET, RETN (guard, sets kLastInsWasBranch)
\*   "abort"   NYI opcode, abstract stack overflow, known-failing guard
\*   "plain"   MOV, LOADK, arithmetic, LOADF, JMP, ...
InsKinds == {"guard", "heapchk", "branch", "abort", "plain"}

Snap(pc, kind, link) == [pc |-> pc, kind |-> kind, link |-> link]

VARIABLES
    code,          \* PC -> [op, d]: the bytecode, as far as JFUNC patching changes it
    ipc,           \* the interpreter's pc (Thread::pc_)
    running,       \* fragment executing machine code, or NoTrace
    recording,     \* cap_ /= NULL
    startPc,       \* startPc_
    traceType,     \* traceType_: "root", "fallthrough" or "side"
    parent,        \* parent_
    parentExitNo,  \* parentExitNo_
    isReturn,      \* flags_ bit kIsReturnTrace
    lastWasBranch, \* flags_ bit kLastInsWasBranch
    shouldAbort,   \* shouldAbort_
    btb,           \* btb_: branch targets seen by the current recording
    snaps,         \* buf_.snaps_: snapshots of the current recording
    fragments,     \* fragments_: [startPc, parent, type, snaps]
    fragmentMap,   \* fragmentMap_: start PC -> trace id
    patched,       \* <<trace, exit>> -> fragment its exit jumps to (asm_.patchGuard)
    exitCount      \* <<trace, exit>> -> Snapshot exit counter

recVars  == <<startPc, traceType, parent, parentExitNo, isReturn,
              lastWasBranch, shouldAbort, btb, snaps>>
vars     == <<code, ipc, running, recording, recVars, fragments,
              fragmentMap, patched, exitCount>>

Init ==
    /\ code = [pc \in PCs |-> [op |-> OrigOp(pc), d |-> NoTrace]]
    /\ ipc \in EntryPCs
    /\ running = NoTrace
    /\ recording = FALSE
    /\ startPc \in PCs
    /\ traceType = "root"
    /\ parent = NoTrace
    /\ parentExitNo = NoExit
    /\ isReturn = FALSE
    /\ lastWasBranch = FALSE
    /\ shouldAbort = FALSE
    /\ btb = << >>
    /\ snaps = << >>
    /\ fragments = << >>
    /\ fragmentMap = [pc \in PCs |-> NoTrace]
    /\ patched = [k \in TraceId \X ExitNo |-> NoTrace]
    /\ exitCount = [k \in TraceId \X ExitNo |-> 0]


(***************************************************************************)
(* Recorder state.                                                         *)
(***************************************************************************)

\* Jit::resetRecorderState: clears flags_ (both bits) and shouldAbort_ and
\* sets cap_ to NULL.  startPc_, parent_, traceType_ and the buffer keep
\* their stale values until the next initRecording.
ResetRecorderState ==
    /\ recording' = FALSE
    /\ isReturn' = FALSE
    /\ lastWasBranch' = FALSE
    /\ shouldAbort' = FALSE
    /\ UNCHANGED <<startPc, traceType, parent, parentExitNo>>

\* Fault variant of InitRecording: the parent_ = NULL reset is missing, so
\* a caller that does not set parent_ itself inherits a stale one.
InitRecordingStaleParent(pc, type, par, exitNo, ret) ==
    /\ recording' = TRUE
    /\ shouldAbort' = FALSE
    /\ startPc' = pc
    /\ parent' = IF par = NoTrace THEN parent ELSE par
    /\ parentExitNo' = IF par = NoTrace THEN parentExitNo ELSE exitNo
    /\ lastWasBranch' = FALSE
    /\ isReturn' = ret
    /\ traceType' = type
    /\ btb' = <<pc>>
    /\ snaps' = << >>

\* Jit::initRecording (resetRecorderState, cap_, startPc_, parent_ = NULL,
\* parentExitNo_ = ~0, flags_.clear(), buf_.reset, btb_.reset(startPc_)),
\* followed by what its caller assigns: traceType_, parent_ and
\* parentExitNo_ (beginSideTrace, setFallthroughParent) and the
\* kIsReturnTrace flag (beginRecording).
InitRecording(pc, type, par, exitNo, ret) ==
    /\ recording' = TRUE
    /\ shouldAbort' = FALSE
    /\ startPc' = pc
    /\ parent' = par
    /\ parentExitNo' = exitNo
    /\ lastWasBranch' = FALSE
    /\ isReturn' = ret
    /\ traceType' = type
    /\ btb' = <<pc>>
    /\ snaps' = << >>

\* Jit::beginRecording(cap, pc, base, isReturn): a root trace.
BeginRecording(pc, ret) ==
    /\ ~recording
    /\ InitRecording(pc, "root", NoTrace, NoExit, ret)

\* Jit::beginSideTrace(cap, base, parent, snapno): a side trace starting
\* at the PC of the parent's snapshot.
BeginSideTrace(t, e) ==
    /\ ~recording
    /\ InitRecording(fragments[t].snaps[e].pc, "side", t, e, FALSE)

\* Fault variant of RegisterFragment: side traces are entered into
\* fragmentMap_ as well.
RegisterFragmentMapsSide(pc, F, isSideTrace) ==
    /\ fragments' = Append(fragments, F)
    /\ fragmentMap' = [fragmentMap EXCEPT ![pc] = Len(fragments) + 1]

\* Jit::registerFragment: fragments_.push_back(F); side traces are not
\* entered into fragmentMap_.
RegisterFragment(pc, F, isSideTrace) ==
    /\ fragments' = Append(fragments, F)
    /\ fragmentMap' = IF isSideTrace THEN fragmentMap
                      ELSE [fragmentMap EXCEPT ![pc] = Len(fragments) + 1]

\* Jit::saveFragment: the new Fragment copies startPc_, parent_ and the
\* buffer's snapshots, the SAVE just emitted included.
SaveFragment(save) ==
    [startPc |-> startPc, parent |-> parent, type |-> traceType,
     snaps |-> Append(snaps, save)]

\* Fault variant of WritesJfunc: side traces also overwrite their start PC.
WritesJfuncAlsoSide(type, ret) == ~ret

\* The condition under which finishRecording writes JFUNC at startPc_.
WritesJfunc(type, ret) == type /= "side" /\ ~ret

\* Jit::finishRecording with saveFragment: the trace ends with the SAVE
\* snapshot save; it is registered, the parent's exit is patched to its
\* entry, and unless it is a side trace or a return trace the instruction
\* at startPc_ becomes JFUNC tno.
FinishRecording(save) ==
    LET tno == Len(fragments) + 1
        F   == SaveFragment(save)
    IN  /\ snaps' = F.snaps
        /\ RegisterFragment(startPc, F, traceType = "side")
        /\ patched' = IF parent /= NoTrace
                      THEN [patched EXCEPT ![<<parent, parentExitNo>>] = tno]
                      ELSE patched
        /\ code' = IF WritesJfunc(traceType, isReturn)
                   THEN [code EXCEPT ![startPc] = [op |-> "JFUNC", d |-> tno]]
                   ELSE code
        /\ ResetRecorderState

\* The abort_recording path of recordIns: ++record_aborts and
\* resetRecorderState; the fragment store is untouched.
AbortRecording ==
    /\ ResetRecorderState
    /\ UNCHANGED <<code, snaps, fragments, fragmentMap, patched>>


(***************************************************************************)
(* Recording (Jit::recordIns).  Each step handles the instruction at ipc;  *)
(* when recordIns returns false the interpreter executes it and moves on.  *)
(***************************************************************************)

\* BranchTargetBuffer::isTrueLoop(ins): the index of an earlier visit of
\* ins in the same or a shallower call context, or -1.  The call stack is
\* not modelled, so every visit of ins is a candidate and -1 is always
\* possible (a false loop).  recordIns skips the check at
\* stg_UPD_return_pc.
LoopEntries(pc) ==
    IF pc = UpdReturnPc THEN {-1}
    ELSE {-1} \cup {i - 1 : i \in {i \in 1..Len(btb) : btb[i] = pc}}

\* recordIns goes on recording: the interpreter executes the instruction
\* and moves to one of next.
Continue(branch, next) ==
    /\ lastWasBranch' = branch
    /\ ipc' \in next
    /\ UNCHANGED <<recording, isReturn, shouldAbort, startPc, traceType,
                   parent, parentExitNo, code, fragments, fragmentMap, patched>>

\* The switch on ins->opcode() after the loop check.
Dispatch ==
    \/ /\ code[ipc].op \in {"FUNC", "IFUNC"}       \* buf_.slots_.frame(...)
       /\ snaps' = snaps
       /\ Continue(FALSE, BodyPCs)
    \/ /\ code[ipc].op = "JFUNC"                   \* link to lookupFragment(ins)
       /\ FinishRecording(Snap(ipc, "link", fragmentMap[ipc]))
       /\ UNCHANGED ipc
    \/ /\ code[ipc].op = "OTHER"
       /\ \E kind \in InsKinds :
            \/ /\ kind \in {"guard", "heapchk"}
               /\ snaps' = Append(snaps, Snap(ipc, kind, NoTrace))
               /\ Continue(FALSE, BodyPCs)
            \/ /\ kind = "branch"
               /\ snaps' = Append(snaps, Snap(ipc, "guard", NoTrace))
               /\ Continue(TRUE, EntryPCs \cup RetPCs)
            \/ /\ kind = "plain"
               /\ snaps' = snaps
               /\ Continue(FALSE, BodyPCs)
            \/ /\ kind = "abort"
               /\ AbortRecording
               /\ UNCHANGED ipc

RecordIns ==
    /\ recording
    /\ running = NoTrace
    /\ UNCHANGED <<running, exitCount>>
    /\ \/ /\ shouldAbort                           \* AR_INTERPRETER_REQUEST
          /\ AbortRecording
          /\ UNCHANGED <<ipc, btb>>
       \/ /\ ~shouldAbort
          /\ ~lastWasBranch
          /\ btb' = btb
          /\ Dispatch
       \/ /\ ~shouldAbort
          /\ lastWasBranch
          /\ \E loopentry \in LoopEntries(ipc) :
               \/ /\ loopentry = -1                \* not a loop: btb_.emit(ins)
                  /\ btb' = Append(btb, ipc)
                  /\ IF Len(btb') > MaxBranches    \* AR_TRACE_TOO_LONG
                     THEN AbortRecording /\ UNCHANGED ipc
                     ELSE Dispatch
               \/ /\ loopentry = 0                 \* loop to entry: SAVE LOOP
                  /\ btb' = btb
                  /\ FinishRecording(Snap(ipc, "loop", NoTrace))
                  /\ UNCHANGED ipc
               \/ /\ loopentry > 0
                  /\ btb' = btb
                  /\ IF code[ipc].op /= "IFUNC"     \* inner loop: SAVE FALLTHROUGH
                     THEN FinishRecording(Snap(ipc, "fallthrough", NoTrace))
                          /\ UNCHANGED ipc
                     ELSE Dispatch

\* Jit::requestAbort, called by the interpreter while a recording is active.
RequestAbort ==
    /\ recording
    /\ ~shouldAbort
    /\ shouldAbort' = TRUE
    /\ UNCHANGED <<code, ipc, running, recording, startPc, traceType, parent,
                   parentExitNo, isReturn, lastWasBranch, btb, snaps,
                   fragments, fragmentMap, patched, exitCount>>


(***************************************************************************)
(* The interpreter (outside src/: only the calls it makes into the JIT).   *)
(***************************************************************************)

\* Control flow between PC classes: a function entry is followed by its
\* body; a body instruction or a return point may branch anywhere.
Successors(pc) == IF pc \in EntryPCs THEN BodyPCs ELSE PCs

\* The interpreter executes an instruction that is not JFUNC.
InterpStep ==
    /\ ~recording
    /\ running = NoTrace
    /\ code[ipc].op /= "JFUNC"
    /\ ipc' \in Successors(ipc)
    /\ UNCHANGED <<code, running, recording, recVars, fragments, fragmentMap,
                   patched, exitCount>>

\* A hot counter trips at a function entry or return point and the
\* interpreter calls beginRecording(cap, pc, base, isReturn).
StartRootTrace ==
    /\ running = NoTrace
    /\ ipc \in EntryPCs \cup RetPCs
    /\ code[ipc].op /= "JFUNC"
    /\ BeginRecording(ipc, ipc \in RetPCs)
    /\ UNCHANGED <<code, ipc, running, fragments, fragmentMap, patched, exitCount>>

\* The interpreter executes JFUNC t: machine code of fragment t runs.
EnterFragment ==
    /\ ~recording
    /\ running = NoTrace
    /\ code[ipc].op = "JFUNC"
    /\ running' = code[ipc].d
    /\ UNCHANGED <<code, ipc, recording, recVars, fragments, fragmentMap,
                   patched, exitCount>>

(***************************************************************************)
(* Running fragments and trace exits (Fragment::restoreSnapshot).          *)
(***************************************************************************)

\* An exit leaves machine code through a guard, a failed heap check or a
\* SAVE FALLTHROUGH; SAVE LOOP jumps back to the entry, SAVE LINK to the
\* linked fragment.
IsExit(sn) == sn.kind \in {"guard", "heapchk", "fallthrough"}

\* A fragment loops on its SAVE LOOP: machine code runs on.
RunLoop ==
    /\ running /= NoTrace
    /\ Last(fragments[running].snaps).kind = "loop"
    /\ UNCHANGED vars

\* A fragment ending in SAVE LINK jumps to the linked fragment's entry.
FollowLink ==
    /\ running /= NoTrace
    /\ Last(fragments[running].snaps).kind = "link"
    /\ running' = Last(fragments[running].snaps).link
    /\ UNCHANGED <<code, ipc, recording, recVars, fragments, fragmentMap,
                   patched, exitCount>>

\* An exit patched by patchGuard / patchFallthrough jumps to its target.
TakePatchedExit(e) ==
    /\ running /= NoTrace
    /\ e \in DOMAIN fragments[running].snaps
    /\ IsExit(fragments[running].snaps[e])
    /\ patched[<<running, e>>] /= NoTrace
    /\ running' = patched[<<running, e>>]
    /\ UNCHANGED <<code, ipc, recording, recVars, fragments, fragmentMap,
                   patched, exitCount>>

\* Snapshot::bumpExitCounter: counts the exit and trips at HotExit.
ExitTrips(k) == exitCount[k] + 1 = HotExit

\* Fault variant of BumpExitCounter: the counter is not restarted when it
\* trips, so it runs past the threshold.
BumpExitCounterNoReset(k) == exitCount' = [exitCount EXCEPT ![k] = @ + 1]

BumpExitCounter(k) ==
    exitCount' = [exitCount EXCEPT ![k] = IF ExitTrips(k) THEN 0 ELSE @ + 1]

\* Jit::lookupFragment(pc): fragments_[fragmentMap_[pc >> 2]].
LookupFragment(pc) == fragmentMap[pc]

\* Fragment::restoreSnapshot for an unpatched exit e of the running
\* fragment t: the interpreter resumes at the snapshot's pc; unless the
\* exit is a heap check, the exit counter is bumped and, when it trips, a
\* fall-through exit is patched to the trace already at its pc or starts
\* a fall-through trace there, and any other exit starts a side trace.
RestoreSnapshot(e) ==
    LET t  == running
        k  == <<t, e>>
        sn == fragments[t].snaps[e]
        pc == sn.pc
    IN
    /\ t /= NoTrace
    /\ e \in DOMAIN fragments[t].snaps
    /\ IsExit(sn)
    /\ patched[k] = NoTrace
    /\ running' = NoTrace
    /\ ipc' = pc
    /\ UNCHANGED <<code, fragments, fragmentMap>>
    /\ \/ /\ sn.kind = "heapchk" \/ ~ExitTrips(k)
          /\ exitCount' = IF sn.kind = "heapchk" THEN exitCount
                          ELSE [exitCount EXCEPT ![k] = @ + 1]
          /\ UNCHANGED <<recording, recVars, patched>>
       \/ /\ sn.kind /= "heapchk" /\ ExitTrips(k)
          /\ BumpExitCounter(k)
          /\ \/ /\ sn.kind = "fallthrough"
                /\ code[pc].op = "JFUNC"
                /\ patched' = [patched EXCEPT ![k] = LookupFragment(pc)]
                /\ UNCHANGED <<recording, recVars>>
             \/ /\ sn.kind = "fallthrough"
                /\ code[pc].op /= "JFUNC"
                /\ ~recording
                /\ InitRecording(pc, "fallthrough", t, e,
                                 code[pc].op \notin {"FUNC", "IFUNC"})
                /\ UNCHANGED patched
             \/ /\ sn.kind /= "fallthrough"
                /\ BeginSideTrace(t, e)
                /\ UNCHANGED patched

Next ==
    \/ InterpStep
    \/ StartRootTrace
    \/ RequestAbort
    \/ RecordIns
    \/ EnterFragment
    \/ RunLoop
    \/ FollowLink
    \/ \E e \in ExitNo : TakePatchedExit(e) \/ RestoreSnapshot(e)

Spec == Init /\ [][Next]_vars


(***************************************************************************)
(* Properties.                                                             *)
(***************************************************************************)

\* Trace ids; the constraint on the model bounds how many exist.
TraceRef == (Nat \ {0}) \cup {NoTrace}

SnapRec == [pc : PCs, kind : {"guard", "heapchk", "loop", "fallthrough", "link"},
            link : TraceRef]

TypeOK ==
    /\ code \in [PCs -> [op : {"FUNC", "IFUNC", "OTHER", "JFUNC"},
                         d : TraceRef]]
    /\ ipc \in PCs
    /\ running \in TraceRef
    /\ recording \in BOOLEAN
    /\ startPc \in PCs
    /\ traceType \in {"root", "fallthrough", "side"}
    /\ parent \in TraceRef
    /\ parentExitNo \in ExitNo \cup {NoExit}
    /\ {isReturn, lastWasBranch, shouldAbort} \subseteq BOOLEAN
    /\ btb \in Seq(PCs)
    /\ snaps \in Seq(SnapRec)
    /\ \A t \in DOMAIN fragments :
          fragments[t] \in [startPc : PCs, parent : TraceRef,
                            type : {"root", "fallthrough", "side"},
                            snaps : Seq(SnapRec)]
    /\ fragmentMap \in [PCs -> TraceRef]
    /\ patched \in [TraceId \X ExitNo -> TraceRef]
    /\ exitCount \in [TraceId \X ExitNo -> 0..HotExit]

\* The interpreter dispatches JFUNC d to fragment d, and recordIns and
\* restoreSnapshot find a fragment with lookupFragment(pc); both must name
\* the same fragment, one that starts at pc (the LC_ASSERTs in the JFUNC
\* case of recordIns and in restoreSnapshot), and a JFUNC may only have
\* replaced a FUNC or IFUNC instruction: finishRecording writes it only for
\* non-side, non-return traces.
DispatchConsistent ==
    \A pc \in PCs : code[pc].op = "JFUNC" =>
        /\ pc \in EntryPCs
        /\ LookupFragment(pc) = code[pc].d
        /\ fragments[code[pc].d].startPc = pc

\* Every jump from one fragment into another -- an exit patched by
\* finishRecording's patchGuard or by restoreSnapshot's patchFallthrough,
\* and the SAVE LINK that ends a trace -- enters a fragment whose start PC
\* is the PC the interpreter would resume at, so the target's entry state
\* is the state the exit restores.
TransfersPreservePc ==
    /\ \A <<t, e>> \in DOMAIN patched :
          patched[<<t, e>>] /= NoTrace =>
              /\ t \in DOMAIN fragments
              /\ e \in DOMAIN fragments[t].snaps
              /\ fragments[patched[<<t, e>>]].startPc = fragments[t].snaps[e].pc
    /\ \A t \in DOMAIN fragments :
          Last(fragments[t].snaps).kind = "link" =>
              fragments[Last(fragments[t].snaps).link].startPc
                  = Last(fragments[t].snaps).pc


(***************************************************************************)
(* Refinement of TraceStore: the abstract store is fragments_ with each    *)
(* fragment's exits reduced to the PCs of its snapshots, the entry table   *)
(* is fragmentMap_, the exit links are the patched exits, and the         *)
(* recording in progress is cap_ with startPc_, traceType_, parent_ and   *)
(* parentExitNo_.                                                          *)
(***************************************************************************)
Abstract == INSTANCE TraceStore WITH
    Keys    <- TraceId \X ExitNo,
    store   <- [t \in DOMAIN fragments |->
                  [startPc |-> fragments[t].startPc,
                   parent  |-> fragments[t].parent,
                   type    |-> fragments[t].type,
                   exits   |-> [e \in DOMAIN fragments[t].snaps |->
                                  fragments[t].snaps[e].pc]]],
    entry   <- fragmentMap,
    links   <- patched,
    busy    <- recording,
    target  <- startPc,
    ttype   <- traceType,
    tparent <- parent,
    texit   <- parentExitNo

\* Every step of the JIT -- recording, aborting, finishing, running
\* machine code and restoring snapshots -- is a step of TraceStore: the
\* store only grows by a whole committed recording, a root recording has
\* no parent, a side or fall-through recording starts at the PC of an
\* unlinked exit of its parent, and finishRecording and restoreSnapshot
\* patch an exit only once and only to a trace starting at its PC.
ImplementsTraceStore == Abstract!Spec

=============================================================================
