# TLA+ models of the lambdachine trace JIT

This directory holds TLA+ models of the trace recorder and fragment store
in `src/vm/jit.cc` and `src/vm/jit.hh`, and of the older experimental VM under
`src/experiments/old-vm/`. It also holds the TLC configurations that check them.
`PROJECT.json` lists the components, the runs, the fault variants, the hazards,
and which lines of source each definition models.

## The system

lambdachine is an interpreter for a lazy functional bytecode. It has a tracing
JIT. Everything runs on one thread. The JIT is a set of callbacks that the
interpreter invokes, and the "concurrency" is the interleaving of those
callbacks with the execution of compiled machine code. The parts are:

| part | source | state | operations |
|---|---|---|---|
| Hot counters | `jit.hh` `HotCounters`, `jit.cc` 25-30 | 1024 `uint16_t` counters indexed by a hash of the PC | `tick`, `set` |
| Recorder | `jit.cc` `Jit::beginRecording`, `initRecording`, `beginSideTrace`, `recordIns`, `finishRecording`, `resetRecorderState`; `jit.hh` `Jit` fields | `cap_`, `startPc_`, `parent_`, `parentExitNo_`, `traceType_`, `flags_` (last instruction was a branch, return trace), `shouldAbort_`, the IR buffer, the branch-target buffer (BTB), the abstract call stack | start, record one instruction, abort, finish |
| Generic application and the stack cases | `jit.cc` `recordGenericApply2`, `pushFrame`, the CALL/CALLT/EVAL/RET/MOV_RES/UPDATE/ALLOC/LOAD cases of `recordIns` | the abstract slots of the IR buffer, the call stack, the IR and snapshots emitted | one call or return |
| Fragment store | `jit.hh` `fragments_`, `fragmentMap_`, `registerFragment`, `lookupFragment`; `jit.cc` `saveFragment` | the vector of fragments and the map from start PC to trace id | register, look up |
| Trace exits | `jit.cc` `Fragment::restoreSnapshot`, `replaySnapshot`, `checkFreeHeapAvail` | per-exit counters, the patched exits, the thread's `base`/`top`/`pc` | restore a snapshot, start a side or fall-through trace, patch an exit |
| Prng | `jit.hh` `Prng` | a 32-bit LCG state | `bits(n)` |
| Old VM recorder | `old-vm/Record.c`, `includes/Jit.h` | IR buffer growing both ways, literal tables `kwords`, per-opcode chains, slots, frame depth, fragments table | `emitIR`, `emitK*`, `recordIns`, `finishRecording`, `registerCurrentFragment` |
| Old VM loader | `old-vm/Loader.c`, `includes/Loader.h` | the loaded modules, info tables and closures, the forward-reference chains threaded through literals | `loadModule`, `loadInfoTable`, `loadClosure`, `loadLiteral` |
| x86-64 encoder | `old-vm/codegen/Emit_x64.h` | none (byte-emitting macros) | n/a |

The parts interact as follows:

1. When a counter trips, the interpreter calls `beginRecording`.
2. From then on, `recordIns` is called before every instruction the interpreter executes.
3. `recordIns` ends the recording in one of two ways.
   - It aborts: the recording is discarded.
   - It calls `finishRecording`. That function registers the fragment, patches the parent trace's exit and writes `JFUNC` over the `FUNC` at the start PC.
4. When the interpreter executes a `JFUNC`, it runs the fragment's machine code.
5. The code leaves through an exit. An exit that has not been patched calls `restoreSnapshot`.
   - It writes the interpreter state back.
   - It bumps the exit's counter. When the counter trips, it starts a side trace, or a fall-through trace, or patches the exit to a trace that already exists.

## What is hard to get right

- **Recorder state across recordings.** `resetRecorderState` leaves `parent_`, `parentExitNo_` and `traceType_` from the previous recording. `finishRecording` patches `parent_`'s exit.
- **Three names for one trace.** A `JFUNC d` in the bytecode, `fragmentMap_`, and `lookupFragment` all have to name the same fragment. That fragment has to start at the PC where each of them is used.
- **Guard order.** In recordGenericApply2, all guards must come before the first slot write (`jit.cc` 324-329).
- **Argument order.** Slot and argument arithmetic for PAPs, over- and partial application, and tail calls.
- **Numeric edges.** `uint16_t` hot counters, 32-bit pointer masks, fixed-size arrays.
- **The old VM's loader** resolves forward references through chains threaded through literals.

## Modules and runs

| module | models | run(s) |
|---|---|---|
| `JitTraces` / `MCJitTraces` | trace life cycle, fragment store, trace exits | `traces` |
| `SnapshotRestore` / `MCSnapshotRestore` | `restoreSnapshot`, `literalValue`, `replaySnapshot`, `dedupSnapshotRef` | `snapshot_restore` |
| `TraceStore` | abstract specification of the fragment store, refined by `JitTraces` | `traces` |
| `HotCounters` / `MCHotCounters` | `HotCounters` of `jit.hh` | `hot_counters` |
| `OldIRBuffer` / `MCOldIRBuffer` | the old VM's IR buffer, literal tables and recording life cycle (`Record.c`) | `old_ir_buffer`, `old_kwords_overflow` |
| `OldRecordFrames` / `MCOldRecordFrames` | the old recorder's slots beside the interpreter's stack: every case of `recordIns`, `recordBuildEvalFrame`, `getSlot`/`emitLoadSlot`/`setSlot`, `last_result` | `old_record_frames`, `old_slot_overflow`, `old_callt_overapply` |
| `OldLoader` / `MCOldLoader` | the old VM's bytecode loader: module recursion, info tables, closures and forward-reference chains (`Loader.c`) | `old_loader` |
| `GenericApply` / `MCGenericApply` | `recordGenericApply2`, `pushFrame`, the CALL/CALLT cases of `recordIns` | `apply` |
| `RecordLoop` / `MCRecordLoop` | how a recording ends: the loop check of `recordIns` (call-stack shadow, branch-target buffer, `kLastInsWasBranch`, `shouldAbort_`), the opcode cases reduced to where control goes next, `beginRecording`, `requestAbort` | `record_loop` |
| `RecordStack` / `MCRecordStack` | the stack and heap cases of `recordIns`: EVAL, RET1/IRET, RETN, MOV_RES, UPDATE, LOADK, MOV, LOADSLF, arithmetic, LOADF/LOADFV, GETTAG, CASE, ALLOC1/ALLOC/ALLOCAP, each beside the interpreter step it records | `record_stack` |

### JitTraces

The variables are the fields of `Jit` that control recording, the fragment
store, the bytecode as far as `JFUNC` patching changes it, the interpreter's PC,
the running fragment, the patched exits and the exit counters.

- **Snapshots.** A recorded instruction is abstracted to the snapshot it adds: a guard, a heap check, or a branch (a guard that also sets `kLastInsWasBranch`). An instruction may instead add nothing, or abort.
- **Loop detection.** `isTrueLoop` returns any earlier visit of the PC or -1. It is over-approximated because the call stack is not modelled.
- **Code outside `src/`.** The interpreter, the assembler's exit stubs and `Snapshot::bumpExitCounter` are not under `src/`. They are modelled from the specification as follows:
  - the interpreter calls `beginRecording` at a function entry or a return point whose counter tripped;
  - a patched exit jumps to its target;
  - the exit counter trips every `HotExit` exits.

The invariants are:

- `DispatchConsistent`. A `JFUNC d` only replaces a `FUNC`/`IFUNC` instruction, `fragmentMap_` maps its PC to `d`, and fragment `d` starts there. These are the assertions in the `JFUNC` case of `recordIns` and in `restoreSnapshot`.
- `TransfersPreservePc`. Every patched exit and every `SAVE LINK` enters a fragment that starts at the PC the exit's snapshot resumes at.

The bounds are set in `MCJitTraces.cfg`: a `FUNC`, an `IFUNC`, an ordinary return point, `stg_UPD_return_pc`, one body instruction, at most 2 fragments, at most 2 snapshots per trace, a BTB limit of 2 (the code uses 100) and an exit threshold of 2. This is enough for the following cases to happen:

- a root trace;
- a side trace of it;
- a fall-through trace;
- a link back;
- an aborted side trace followed by a root trace (the stale `parent_` case).

The run explores 131,267 states. With 3 fragments it explores 1.46 million states and the same properties hold, but the refinement check then takes about four minutes.

#### Refinement of TraceStore

`TraceStore` states what the JIT promises about its compiled traces, with no
recorder detail and no machine code:

- at most one recording is in progress; it is abandoned, or it is committed by appending one trace;
- a root trace has no parent;
- a side or fall-through trace starts at the PC of an unlinked exit of an existing trace, and committing it links that exit;
- an exit is linked at most once, and only to a trace that starts at its PC;
- the entry table (`fragmentMap_`) changes only when a non-side trace is committed.

`JitTraces.ImplementsTraceStore` is `TraceStore!Spec` under the mapping
`Abstract == INSTANCE TraceStore WITH ...`:

| abstract | JIT |
|---|---|
| `store` | `fragments_`, each fragment's snapshots reduced to their PCs |
| `entry` | `fragmentMap_` |
| `links` | the patched exits |
| `busy` | `cap_ != NULL` |
| `target`, `ttype`, `tparent`, `texit` | `startPc_`, `traceType_`, `parent_`, `parentExitNo_` |

Running machine code, exit counting, loop detection and the recorder's
snapshots are stutter steps of the abstract specification.

`ImplementsTraceStore` is a `PROPERTY` of the `traces` run.

The run's two mutants check different things:

- a missing `parent_ = NULL` in `initRecording` makes a root trace patch an old exit;
- a `registerFragment` that maps side traces puts a side trace into `fragmentMap_`. This one the `traces` invariants do not catch.

### SnapshotRestore

A behaviour is one trace exit, `ex`. It bundles the parent trace's IR, the
snapshot (its sorted `(slot, ref)` entries, `relbase`, `framesize`, pc, and
whether it belongs to a guard, a heap check or a `SAVE`), the saved registers
and spill area, the base register, the heap pointer, and whether the exit
counter trips. The module does not count exits; `JitTraces` does.

The steps are:

- `RestoreEntry` is one iteration of `restoreSnapshot`'s slot loop.
- `RestoreExit` is the rest of that function: the rebase, `T->base_`, `top_` and `pc_`, the heap pointer and its heap-check rewind, and the choice of a side trace.
- `ReplayEntry` is one iteration of `replaySnapshot`, including the bloom filter and `dedupSnapshotRef`.
- `ReplayExit` sets `stopins_` and `entry_relbase_`.

The code's integer widths are kept, scaled down: words are 8 bits and `i32` operands 4 bits. That keeps the sign and zero extension of `KINT`, the two halves of `KWORD`, and the base-relative `KBASEO` of `literalValue` distinct.

The invariants are:

- `RoundTrip`: the round-trip invariant of spec.md §5. After a guard or heap-check exit, each snapshot slot, counted from the moved base less `relbase`, holds the trace's word, and top is `framesize` above the new base.
- `SideTraceSeesRestoredState`: every snapshot slot of a side trace has a TRef whose value equals the word restored there. That value is a literal, a base literal, or the parent location an inherited `SLOAD` starts from.
- `InheritsEachRefOnce`: every non-literal parent instruction is inherited by exactly one `SLOAD`, whatever bloom bits the refs share.

`MCSnapshotRestore.cfg` has:

- seven refs: four literals and three instructions, in a register, a spill slot and another register;
- a 2-bit bloom filter, so refs collide;
- every sorted snapshot of up to three entries over slots -1..1;
- `relbase` of -1, 0 or 2, and all three exit kinds.

The run explores 40,089 states, from 9,198 initial states.
A behaviour ends once the exit has been handled, so `CHECK_DEADLOCK` is off.

**Open divergence (not checked).** At `jit.cc:1652` the base is not moved for a `SAVE` exit. A `SAVE FALLTHROUGH` with a non-zero `relbase` therefore leaves `T->base_` at the trace's entry base. spec.md §4.10.1 says every exit moves the base. The code is only right if the assembler's `SAVE` exit, which is not in the repository, has already moved the base register. The model follows the code, and it is listed as a hazard.

### GenericApply

One behaviour of this module is one recorded `CALL` or `CALLT`, from the
caller's frame to the frames, slots and snapshots the recorder leaves behind.
The inputs are every callee the bounds allow:
- a function of arity 1..3;
- a PAP of such a function holding fewer arguments than its arity;
- a thunk, reached through at most one indirection.

Each is called with 0..3 arguments and every pointer mask.

- **State.** The recorder state is the record `rs`:
  - the abstract slots `w`;
  - `base` and `top`;
  - the snapshots taken at guards;
  - the call stack;
  - the PAP built;
  - a status: ok, abort, or exit for `exit(1)`.

  A slot holds an abstract IR reference: a load of a caller slot, a field load, a literal, or a newly allocated node. The entry state `entry` and the state just before `recordGenericApply2` (`applied`) are kept for the properties.
- **Helpers.** `loadField`, `specialiseOnInfoTable`, `specialiseOnPapShape`, `followIndirection`, `clearSlots`, `papOrDirectArg` and `pushFrame` are operators on `rs`. A guard appends a snapshot of the slots.
- **Cases.** `RecordGenericApply2` dispatches to the same four cases as the code: thunk, exact, over- and partial application.
- **Abstract stack and early returns.** `AbstractStack::frame`, `CallStack::returnTo` and the AP continuations live outside `src/`. They are modelled from the specification. An early `return false` of the code is the status `abort`; `AndThen` skips the rest of the function.

The checked properties are:

- `ArgumentsInPlace`: after an exact call, the callee frame holds the PAP's arguments followed by the direct ones, in order. After an overapplication, the callee gets the first `arity` arguments, and the AP continuation frame below it keeps the rest.
- `PapBuilt`: a partial application allocates a PAP of the right function, with the arguments in order. The PAP lands in the result slot of the frame it returns to: the caller's for `CALL`, the caller's caller's for `CALLT`.
- `PointerMasksMatchArgs`: the pointer mask of a new PAP and of an AP continuation has bit i set exactly when argument i is a pointer. This is where the shifts at `jit.cc` 487 and 571 can go wrong.
- `ApplyGuardsFirst`: every guard `recordGenericApply2` emits snapshots exactly the state it was entered with. This is the rule of the comment at `jit.cc` 324-329, for the part of the recording that function owns.

**The `exit(1)` path (not checked).** A `CALL` with 2 arguments of a PAP that holds 1 argument of a binary function reaches `exit(1)` at `jit.cc` 537 and ends the program. The specification describes this overapplication as an ordinary case. The model keeps this path as the status `exit`. It is an unconditional call in plain sight, so no run or hazard is spent on it.

**Bounds.**
- Up to 3 arguments and arity 3. That covers an exact, an over- and a partial application, each with and without a PAP.
- An abstract stack limit of 22 slots. That allows the deepest case, a thunk called with arguments, to finish. A smaller limit also reaches the overflow abort.
- Pointer masks scaled to 8 bits (`MaskBits`). TLC's integers cannot represent 2^32. The shifts are kept modulo 2^`MaskBits`, so the width matters the same way it does in the code.

The run has 1,440 states, and every case is reached.

**Deadlock.** A behaviour ends after one call is recorded. `recordIns` returns after that, so the runs set `CHECK_DEADLOCK FALSE`.

**Indirections before the guards (not checked).** `CALL` and `CALLT` follow indirections before they call `recordGenericApply2`, and `followIndirection` (`jit.cc` 292) writes the callee's slot. The guards emitted after that snapshot the rewritten slot. The comment at `jit.cc` 324-329 and spec 4.7.1 say a failing guard restores the state at the `CALL`. The restored slot names the indirection's target instead of the indirection, so the value reached is the same. `ApplyGuardsFirst` checks the rule for the guards `recordGenericApply2` emits itself. The earlier guards are listed as a hazard (`jit.cc:962`).

### RecordStack

`RecordStack` models the abstract stack and the trace heap across the `recordIns` cases that move values, frames and heap nodes. It covers EVAL (`jit.cc` 1028-1074), RET1/IRET (1077-1107), RETN (1110-1137), MOV_RES (1140-1150), UPDATE (1153-1182) and the loads, arithmetic, guards and allocations (843-915, 1020-1026, 1185-1317). It also models the helpers these cases use: `loadField`, `specialiseOnInfoTable`, `followIndirection`, `clearSlots` and `pushFrame`. Each action records one instruction and then executes it in the interpreter.

**The interpreter.** It is not under `src/`, so it is modelled from spec 4.7 and the frame layout `pushFrame` writes:
- A frame at base `b` keeps the caller's base at `b-3`, the return PC at `b-2` and the node at `b-1`.
- EVAL of a thunk pushes an update frame, and then a frame for the thunk's code.
- A return leaves its results at the caller's `top + 3 + d`, where MOV_RES `d` picks them up.
- The code of the update frame is `MOV_RES 1 0; UPDATE 0 1; RET1 1`.

The interpreter state `is.code` says which of these instructions may come next.

**Values instead of IR.** Each TRef stands for the value its instruction computes when the trace runs:
- an SLOAD of slot `i` is `mem0[i]`, the stack on entry;
- an FLOAD is the field of the node;
- arithmetic is a term `<<op, x, y>>`;
- a NEW is the node it allocates.

A snapshot's `Restored(i)` is the slot's TRef, or `mem0[i]` when the slot is empty. That is exactly what the exit writes back. `theap` is the heap as the trace's NEWs and UPDATEs build it. `heap` is the heap as the interpreter builds it.

**Guards.** A guard can be false for the recorded values. Then every run of the trace fails there. The model sets `rs.dead`, stops exploring that behaviour, and conditions the properties on `~rs.dead`. What is recorded past such a guard can never run.

**Properties.**
- `SnapshotRestoresStack`: at every point, a snapshot restores every slot the interpreter may still read to the value it holds, up to indirections. This includes the pending results above `top`. It breaks when RET1 writes its result before it clears the frame.
- `FrameTracksInterpreter`: the abstract stack's base and top are the interpreter's. EVAL asserts this (`LC_ASSERT`), and MOV_RES relies on it ("We rely on the top pointer to be correct"). It breaks when RETN keeps the callee's top.
- `TraceHeapAgrees`: the trace's heap has the interpreter's nodes, with the same info tables and, up to indirections, the same fields. It breaks when UPDATE has its operands swapped.
- `TypeOK` includes the abstract stack's limit. It breaks when `frame()` does not check the limit.

**Bounds.** The bottom frame is at slot 3 with two caller slots, and the recorded frame is at slot 8 with two slots. The heap has:
- a constructor;
- a function;
- a thunk;
- a CAF;
- an indirection to the constructor;
- an indirection to the thunk.

The first two slots and the pending result are drawn from {literal, indirection} × {thunk, indirection to thunk, CAF} × {none, literal}. So recording starts either in a body or at a MOV_RES.

A behaviour records up to 8 instructions (`MaxSteps`), at most 2 of them loads, moves, arithmetic, guards or allocations (`MaxPlain`). This is enough for the sequence EVAL (through one indirection) → thunk body → RET1 → MOV_RES → UPDATE → RET1 → MOV_RES, with allocations or loads in between. There are 2 allocatable nodes, the thunk frame has 2 slots, and the stack limit is 27, so two nested EVALs fit. The run checks 1.28 million distinct states in under a minute, and every action and disjunct fires.

**Deadlock.** Behaviours end at the step bound or at a dead guard, so the run sets `CHECK_DEADLOCK FALSE`.

**Hazard not checked.** The EVAL loop (`jit.cc` 1029-1032) follows the interpreter's `base[a]`. Suppose the slot is evaluated again after a MOV_RES has put the indirection's target into the recorder's slot, while `base[a]` still names the indirection. Then the recorder emits an `EQINFO IND` guard on the target, and that guard fails on every run. A probe of the model found the sequence EVAL, MOV_RES, EVAL. Whether the real interpreter leaves `base[a]` unchanged on EVAL is decided outside `src/`, so this is listed as a hazard and not checked.

### HotCounters

The module's state and operations correspond to the code as follows:
- **Counters.** The counters are a function from cell to value. The counter width is `CountBits`, 16 in the code and 3 in the run, so the wrap of `--counters_[h]` is reachable.
- **Hash.** `HotCountHash` is the code's `((pc >> 12) ^ (pc >> 4)) & (N - 1)` over integer PCs. The run uses the PCs 0x10, 0x1000 and 0x20. The first two collide in cell 1 of 4.
- **Operations.** `tick`, `set` and `reset` are actions. `get` changes nothing.
- **History.** Two history variables record the value a cell was last filled with and the ticks since then.

The run checks two properties:
- `CountsDown`: every counter equals its fill minus the ticks of all PCs sharing it, modulo 2^`CountBits`. No cell is ticked a full period without a trip.
- `TripsExactlyAtPeriod`: a tick trips exactly on the period-th tick of its cell. The period is the fill, or 2^`CountBits` for a fill of 0. This is the `HotCounters.Simple` unit test, generalised to shared cells, `set` and `reset`.

Neither the interpreter's tick calls nor the threshold configuration are in `src/`, so every order of calls is explored.

### OldIRBuffer

`Record.c` keeps the IR in a buffer addressed by biased references:
- instructions grow up from `REF_BASE`;
- literals grow down below it;
- a reference r lives at `irbuf[r] = baseir[r - irmin]`.

The model keeps this as memory. `mem[i]` is the cell at offset i of the allocation. `growIRBufferTop` (realloc), and both branches of `growIRBufferBottom` (memmove in place, or copy into a doubled buffer), are modelled by what they do to `mem`, `irmin` and `irmax`. Cells that are never written hold `Junk`.

The emission operations are modelled as follows:
- `emitIR` links the cell into `chain[op]`.
- `emitKInt`, `emitKWord_` and `emitKBaseOffset` first walk their chain (`FindLit`) and append only when no literal has the key.
- `emitKWord_` stores the word in `kwords` and reallocates that table as the code does.

One `recordIns` step emits a literal or instruction and optionally one more instruction, then applies the `MAX_TRACE_LENGTH` abort.

The life cycle around the buffer is modelled too:
- `startRecording` and `recordSetup`;
- the abort path `recordCleanup`;
- the loop-closing branch of `recordIns`, which runs `finishRecording`. That emits `LOOP` or `SAVE`, writes `JFUNC`/`JRET` over the start instruction, and runs `registerCurrentFragment`, which copies `[nk, nins)` and exits on a full fragment table.

The optimisation passes between the two are not in `src/`, and are not modelled.

The properties are:
- `BufferInBounds`: literals and instructions stay inside `[irmin, irmax)`.
- `RefsStable`: every reference still reads the cell emitted at it, across every reallocation, shift and copy.
- `ChainsExact`: each opcode chain reaches exactly the references with that opcode.
- `LiteralsUnique`: spec 5, "literal uniqueness".
- `JumpTargetsRegistered`: every `JFUNC`/`JRET` names a registered fragment that starts at its PC.
- `TypeOK`: among other things, no registered fragment holds an unwritten cell.

**Bounds.**
- 4 distinct literals and 1 instruction opcode.
- An initial buffer of 8 cells, in place of 256. A literal that needs room while only `BASE` is emitted takes the shift branch; one that needs room later takes the doubling branch.
- A trace length of 6, so the top grows too.
- The doubling offset limits 256/128 are scaled to 16/4.
- One FUNC and one RET1 start point, with a fragment table of 1. The second finish therefore reaches the full-table `exit(1)`.
- An initial `kwords` size of 2, so the two KWORD literals fit.

The run explores 541,837 states.

**Deadlock.** Deadlock is not checked. Once every start point carries a `JFUNC`/`JRET`, or the process has exited, the recorder is never called again.

**Finding.** The `old_kwords_overflow` run starts `kwords` at one word. `emitKWord_` (`Record.c` 286-289) doubles `sizekwords` and calls `realloc(J->kwordsbuf, J->sizekwords)`, a size in bytes. `recordSetup` allocated `sizekwords * sizeof(Word)` bytes. The table shrinks, and the second word is written past it. With the code's 500-word table this happens at the 501st distinct literal word of a trace.

### OldRecordFrames

The old recorder mirrors the interpreter's stack in `TRef slot[MAX_SLOTS]` (`Jit.h`). Slot s of the current frame is `J->slot[baseslot + s]`, and recording starts with `baseslot = INITIAL_BASE + 1`. The model's `J` holds the recorder's fields:
- `baseslot` and `minslot` (both `u1`, wrapped by `U1`), `maxslot`, `framedepth`;
- `slot`;
- `lastResult` (`J->last_result`);
- a status: recording, aborted, the process stopped by `sayonara`, or finished.

An index outside `J->slot` is not dropped silently: it is collected in `oob`.

**Values.** A slot holds `NoRef` (TRef 0) or a TRef. A TRef is given by the value it denotes and its `TREF_WRITTEN` bit. Values are symbolic:
- `Entry(w)`: what word w held when recording started. This is what an `SLOAD` from `emitLoadSlot` reads; it is stored unwritten.
- `EntryResult`: the `RLOAD` of `MOV_RES`.
- `Made(i, 0)`: the value the i-th data instruction computed (arithmetic, field loads, `NEW`).
- `Literal`, `BasePtr(off)` (a `KBASEO`), and the return-PC and closure literals.

The IR that computes these values belongs to `OldIRBuffer` and is left out here.

**The interpreter.** `frames` is the interpreter's stack: one record per frame, with its base and size, and a ghost flag `built` for frames pushed while recording. `mem` holds the stack's words and `lr` holds `T->last_result`. The interpreter is not in `src/`, so its side is taken from spec 4.7 and the layout the recorder assumes:
- a frame's base is three header words (old base, return PC, node) above the caller's top;
- `CALLT` reuses the frame, and an overapplication turns it into an AP continuation;
- an eval pushes an update frame of two slots, then the thunk's frame.

A register the program never reads again (a fresh frame's registers, the dead registers of a liveness mask) is `Zero` in `mem`: "undefined". A bytecode only reads registers that are defined.

**Actions.** Each action is a whole `recordIns` case, together with the interpreter's step:
- `RecordCall`: the stack-overflow and "Frame too deep" checks, then the header, the argument copy, the move of `baseslot` and the clearing of the new frame.
- `RecordCallTExact` and `RecordCallTOver`: the two CALLT cases. The second saves the extra arguments, writes the continuation and the callee's header, copies the arguments, then fills the continuation.
- `RecordEvalHNF` and `RecordEvalThunk`. The first sets `last_result`. The thunk case runs `RecordBuildEvalFrame`, whose liveness clearing is a choice of dead slots.
- `RecordRet`: clears every slot but the result, makes the result `last_result`, guards the return address through `getSlot(-2)`, clears the frame's header and aborts when a function trace leaves its start frame. `LeaveFrame` then moves `baseslot` down, lowers `minslot` and sets `maxslot`.
- `RecordMove`, `RecordLoadSlf`, `RecordMovRes`, `RecordArith`, `RecordLoadK`, `RecordLoadF`, `RecordLoadFV`, `RecordAlloc1`, `RecordAlloc`, `RecordAllocAp`: the `getSlot`s of the case, then `setSlot(a, ...)`. The interpreter stores the same value.
- `RecordCompare`, `RecordCase`, `RecordUpdate` (no reads under `JIT_OPT_CALL_BY_NAME`) and `RecordJmp` (also `FUNC` and `IFUNC`): their `getSlot`s only.
- `RecordAbort` and `RecordLinkOrStop`: the cases that go to `abort_recording`.
- `RecordLoop`: the loop-closing branch.

Call arguments are abstracted to the first n slots of the frame. Every `getSlot` can still emit a load and reach `sayonara`.

The properties are:
- `FrameViewMatches`: `baseslot` is the interpreter's base relative to `startbase`, and `framedepth` is the number of frames pushed since the start.
- `MaxslotIsFrameSize`: `maxslot` is the size of the interpreter's current frame.
- `HeadersMaterialised`: every frame the trace built and has not left has its three header slots written. Exits need them to rebuild frames.
- `MinslotBelowBase`: `Jit.h`'s "minslot >= 0 && minslot < baseslot", in the stronger form that the current frame's header lies at or above `minslot`.
- `SlotsMatchStack`: in every frame, headers included, a slot that holds a TRef holds the value the interpreter has in that word. If that value differs from the word's value at entry, the slot is marked written, so the exit writes it back. An empty slot's word still holds its entry value, so a later `SLOAD` reads the right one. `last_result` is the interpreter's last result, or unset while that is still the entry value. This is what the slot copies, clears and `baseslot` moves of CALL, CALLT, EVAL and RET1, and the `setSlot` of every other case, must keep.

**Bounds.**
- `MAX_SLOTS` 200 and `INITIAL_BASE` 100 are scaled to 24 and 12. `u1` is scaled to 5 bits.
- Frame sizes are 1 and 2, with calls of up to 2 arguments.
- There are two start stacks (start frames of size 1 and 2 above an outer frame), for function and return traces.
- At most 6 instructions are recorded per trace. At most 2 of them are data instructions (the cases that neither change frames nor end the recording). Six steps cover a call, an eval and the returns from both, with data moves between them.
- A read of several registers is as well a sequence of reads of one, so reads are enumerated up to order.
- In the pass run the thread's stack ends 10 or 11 words above the start frame. Every frame the interpreter can push therefore has its slots inside `J->slot`, and the properties above are about the bookkeeping, not the bounds. The run explores 2,633,402 states in about two and a half minutes.

**Deadlock.** Deadlock is not checked. Aborted, stopped and finished recordings take no further step, and nor does a trace at its instruction bound.

**Finding: slot overflow.** `old_slot_overflow` gives the thread a stack of 40 words and checks `SlotsInBounds`. TLC finds one eval frame, above a start frame of two slots, that passes `recordBuildEvalFrame`'s check `top + 8 + framesize - startbase < MAX_SLOTS` (`Record.c` 485) but puts the thunk's frame at `J->slot[23..24]`, past the end. The cause is that the checks at 485, 698, 738 and 809 measure depth from `startbase` against `MAX_SLOTS`, while slot indices start at `INITIAL_BASE + 1`. In the code, any nesting between 99 and 199 words above the start frame is admitted and writes past `J->slot` into the rest of `JitState`.

**Finding: CALLT overapplication.** `old_callt_overapply` uses a start frame of four registers, calls with up to four arguments, and checks `SlotsMatchStack`. Take a CALLT with 4 arguments of a function of arity 3. `recordIns` writes the callee's header into slots 2..4 (`Record.c` 755-757). It then copies the arguments with `setSlot(topslot + 3 + i, getSlot(J, i))` (760-761). So the callee's third argument in the trace is the `KBASEO` literal that was just written over slot 2, while the interpreter passes register 2. This happens whenever the arity is at least `extra + 2`. The extra arguments are saved before the header is written (750-751), but the callee's arguments are not. The pass run's calls of at most 2 arguments never overlap the header.

### RecordLoop

This module asks whether every recording ends. Spec 4.3 says the IR buffer is resized on demand, so nothing else bounds a recording. It ends only in `recordIns`, in one of these ways:
- a loop back to the trace head (`SAVE LOOP`);
- an inner loop (`SAVE FALLTHROUGH`);
- a `JFUNC` (`SAVE LINK`);
- more than `MaxBranches` branch targets (`AR_TRACE_TOO_LONG`);
- an instruction that aborts;
- an interpreter request (`requestAbort`, then `AR_INTERPRETER_REQUEST`).

**State.** The module keeps only the loop control:
- `ipc`: the interpreter's pc;
- `recording`: `cap_ /= NULL`;
- `btb`: `btb_`, the list of branch targets, each with the call context it was emitted in;
- `ctx`: `callStack_.current()`, the call-stack shadow (spec 4.2);
- `lastWasBranch`: `kLastInsWasBranch`;
- `shouldAbort`: `shouldAbort_`.

A call context is the frames pushed since the start frame, together with the number of phantom returns past it. Each frame is a node of its own, with the return address `pushFrame` stored in it. Two calls from the same place make two distinct nodes. Node identities are only compared, so a new node takes the least identity that no context still held in `btb` or `ctx` uses. This keeps the state space finite and changes no comparison.

Snapshots, slots and the fragment store are left out, because `JitTraces` and `RecordStack` model them.

**Actions.**
- `BeginRecording`: `beginRecording`/`initRecording` (`callStack_.reset`, `btb_.reset`), at an unlinked `FUNC` or a return point.
- `RecordIns`: `recordIns`. It checks `shouldAbort_` first. After a branch it runs the loop check (`jit.cc` 777-832): `IsTrueLoop`, then emit, `SAVE LOOP`, or `InnerLoop` (cut unless the instruction is an `IFUNC`). Then comes the opcode switch, `Dispatch`.
- The switch cases, reduced to where control goes next:
  - `FrameIns`: `FUNC`/`IFUNC`;
  - `JFuncIns`: `JFUNC`, which links and finishes;
  - `StraightIns`: the instructions that fall through;
  - `CallIns`: `CALL`/`CALLT`/`EVAL` of a thunk. `CallKinds` lists the frames each case of `recordGenericApply2` and `EVAL` pushes, with their return addresses, and where it lands. A function of the right arity lands at a `FUNC`, with no new frame for `CALLT` and one for `CALL`. An overapplied function pushes an AP continuation frame. A thunk pushes an update frame and lands at a `FUNC` or at an AP thunk's `IFUNC`. A push past `MaxFrames` aborts (`AR_ABSTRACT_STACK_OVERFLOW`).
  - `ReturnIns`: `RET1`/`IRET`/`RETN`. These call `callStack_.returnTo` and go on at the return address of the popped frame: a return point, `stg_UPD_return_pc`, or an AP continuation's `IFUNC`. Past the start frame a return lands at any caller, and more than `MaxFrames` phantom returns abort.
  - `AbortIns`: `goto abort_recording`.
- `RequestAbort`: `requestAbort`.
- `InterpStep`: interpretation while nothing is recorded.

**Abstractions.**
- **`isTrueLoop`.** `CallStack` and `BranchTargetBuffer` are outside `src/`, so `IsTrueLoop` follows spec 4.2 and the unit tests `BranchTargetBufferTest` Loops1 and Loops2 (`unittest.cc` 2410-2452). It returns the index of the earliest entry for the pc whose context is the current one or below it (`SameOrDeeper`), and -1 if there is none. A context in a frame pushed by another call, even at the same depth, is a false loop (Loops1). The start frame and the phantom returns above it count as one context (Loops2). All the expectations of both tests hold for this definition. The check is skipped at `stg_UPD_return_pc`, as in the code.
- **Bodies run forward.** `JMP` and the conditional branches leave `kLastInsWasBranch` clear, and the bytecode compiler emits loops as calls. So the instruction after `Body[k]` is `Body[k+1]` or a branch target. Every function shares one body, so the model covers every program built from these entries.
- **Abstract stack.** `MaxFrames` frames above and below the start frame stand for the fixed size of the abstract slot array.

**Property.** `RecordingEnds == recording ~> ~recording`, under weak fairness of `RecordIns` (see Fairness). Spec 4.2 says a true loop to a btb index above 0 is an inner loop, and that the trace is cut there. `recordIns` cuts it only when the instruction is not an `IFUNC` (`jit.cc` 811-830). At an `IFUNC` it goes on recording without `btb_.emit`, so the branch does not count towards the limit. The run shows the recording still ends. To come back to an `IFUNC` in the same or a deeper context without emitting anything, every branch on the way must itself be such an inner loop. That forces the stack to grow: a frame pushed and popped again is a new node, and its entry is a false loop that is emitted. So the abstract stack bound or the branch limit ends the recording.

**Bounds.** The model has:
- two `FUNC` entries, one of them linked;
- an AP thunk `IFUNC` and an AP continuation `IFUNC`;
- two return points, one of them `stg_UPD_return_pc`;
- a two-instruction body;
- `MaxBranches = 3`;
- `MaxFrames = 3`, enough for `CALL` of a thunk, the deepest single call.

The run explores 25,550 states. Every way a recording ends is reached, and so is the inner loop at an `IFUNC` that goes on recording. The mutant `InnerLoopGoOn`, which never cuts an inner loop, has a lasso: a `CALLT` in the same frame back to a `FUNC` already in `btb`.

### OldLoader

`loadModule` loads a module's imports depth first, and then its info tables and closures in file order. A literal that names an object not loaded yet becomes a forward reference:
- the table entry for the name is a placeholder (`FwdRefInfoTable`, or a closure with a NULL info pointer);
- the placeholder's link field heads a chain threaded through the literal words themselves;
- loading the object walks the chain and stores its address in every word.

The model keeps the chains as they are. `lit` maps every literal word to `Null`, a `Link` to the next word, a `Ptr` to the object, or `Unset` before it is loaded. `itbls` and `closures` map a name to its table entries. `HashTable` is not in the repository, so inserting a key that is already present is a nondeterministic choice: the new entry replaces the old one, or goes after or before it.

The actions are:
- `LoadImport`: one import of `loadModule_aux`. A module already loaded or being loaded is skipped.
- `LoadBodyInfo` and `LoadBodyClosure`: one `loadInfoTable` or `loadClosure` each, with all of its literals (`LoadLiteral`) and the fix-up (`Patch`).
- A closure's info pointer is a word of its own (`ClosureBody`), written from the info table lookup (`InfoWord`).
  - If the table is loaded, the word points to it.
  - If the table is a forward reference, the word holds the placeholder (`fwd`).
  - If no entry is found, the `LC_ASSERT` at `Loader.c` 729 fails and the model's process exits (`InfoAssertFails`).
- `FinishModule`: the end of `loadModule_aux`.
- `EnsureNoForwardRefs`.

A program gives per module its imports, info tables and closures, and per object the references its literals make. Decoding of the file is left out, as are the literal kinds that store a value and touch no table.

The properties are:
- `ForwardChainsExact`: while a name is a forward reference, its chain holds exactly the loaded words that name it, and ends in NULL.
- `RefsResolved`: every loaded word whose object is loaded holds the object's address.
- `LoadCompletes`: under weak fairness, `loadModule` returns, and it returns with every word resolved. Weak fairness is sound because the loader runs to completion on one thread.

**Bounds.** There are two modules: A (the root) imports B, and B imports nothing or A. A has an info table with two literals and a closure. B has an info table with one literal and a closure. Each literal names any of the four objects. A's closure takes its info table from A or from B. This gives 4096 programs. The pass run takes the programs in which no info table's code names the table itself, and explores 16,416 states. Every chain of two or more links, every cross-module and cyclic forward reference, and every self-referencing closure is among them.

**Deadlock.** Deadlock is not checked: `loadModule` returns.

**Info tables that name themselves (not in a run).** The comment at `Loader.c` 606-608 says a forward reference may have been created "even during loading the code for this info table". Yet `loadInfoTable` reads `old_itbl` at line 549, before `loadCode`. When the code names the table itself, the placeholder made during `loadCode` is never patched. The table is inserted next to it, and the literal stays NULL. `loadClosure` does the lookup after the payload (line 741) and does not have this problem. `MCOldLoader` keeps these programs as `MCProgramsSelf`; with them as `Programs`, `RefsResolved` fails. Whether compiled code can contain such a literal (an info table whose code allocates an object of the same info table) is not settled by the repository, and the outcome depends on `HashTable_insert`. So it is listed as a hazard (`Loader.c:549`), not as a finding.

**Cyclic imports (not in a run).** `loadClosure` asserts that the closure's info table is loaded (`Loader.c` 727-729). Suppose B imports A and B's closure uses A's info table. Then B is loaded while A's table is not. With that program, the model reaches both outcomes: the assertion fails, or, without assertions, the info pointer is left at the placeholder and `RefsResolved` fails. The runs keep B's closure on its own table, so this case is listed as a hazard.

## Fairness

Two modules check a liveness property.

- `OldLoader` checks `LoadCompletes`. It assumes weak fairness of its next-state relation, because `loadModule` is a sequential C function that runs to completion.
- `RecordLoop` checks `RecordingEnds`. It assumes weak fairness of `RecordIns` only, because the interpreter calls `recordIns` before every instruction it executes while recording. `requestAbort` is the interpreter's choice, so it is not assumed fair. If it were, every recording would end through it, and the run would show nothing about the loop check.

The other modules assume no fairness.

## Plan

1. (done) `GenericApply`.
2. (done) `HotCounters`.
3. (done) `OldIRBuffer`.
4. (done) `OldRecordFrames`: slot and frame bookkeeping of the old recorder, with the `MAX_SLOTS` finding.
5. (done) `OldLoader`: forward-reference chains of `Loader.c`.
6. (done) An abstract fragment-store specification, `TraceStore`, refined by `JitTraces`.
7. (done) `SnapshotRestore`: the slot restore of `restoreSnapshot` and `replaySnapshot`.
8. (done) `RecordStack`: the stack and heap cases of `recordIns`, beside the interpreter.
9. (done) `RecordLoop`: termination of a recording, with the call-stack shadow that decides true and false loops.
10. (done) Closure info pointers in `OldLoader` (`Loader.c` 724-739).
11. (done) The data cases of the old `recordIns`, with the interpreter's stack and `last_result` beside the slots (`SlotsMatchStack`), and the CALLT overapplication finding.

## Not modelled

- The x86-64 encoder: byte encodings, no state machine.
- The assembler, and the interpreter beyond what `RecordStack` needs: neither is in `src/`. `RecordStack` models the interpreter's step for each instruction it records, from spec 4.7 (marked spec_modelled in PROJECT.json).
- `Prng`: a single arithmetic step with no control flow. Its only caller, `MachineCode`, is not in `src/`, so nothing in the repository calls `bits(0)`, whose shift by 32 is undefined.
- The parent heap reservation of `beginSideTrace` (`snap.overallocated`, `checkFreeHeapAvail`). It reads the abstract heap, which is not modelled.
- Whether a `SAVE` exit moves the base. `restoreSnapshot` does not move it, while spec.md §4.10.1 says every exit does. The answer depends on the assembler's exit stub, so this is listed as a hazard and not checked.
- The IR the old recorder emits for each case of `recordIns` (guards, `ILOAD`, `FLOAD`, `NEW` and its heap info). `OldIRBuffer` models the buffer and literal tables they go into. `OldRecordFrames` models the slot each case reads and writes, and keeps values symbolic.
- `startRecordingSideTrace` of the old recorder (`Record.c` 1258-1320). It ends in `exit(3)` (NYI), and the parent snapshots it reads are outside `src/`.
- The old loader's byte decoding (`fget_*`, `loadId`, the string table, bytecode and bitmaps), `findModule` and the search path: pure I/O with no state that the forward-reference chains depend on.
