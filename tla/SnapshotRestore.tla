--------------------------- MODULE SnapshotRestore ---------------------------
(***************************************************************************)
(* Leaving a trace through a snapshot (Fragment::restoreSnapshot) and      *)
(* seeding a side trace from the same snapshot (Jit::replaySnapshot with   *)
(* dedupSnapshotRef), at the level of the words written and read.          *)
(*                                                                         *)
(* A behaviour is one exit: restoreSnapshot writes the snapshot's entries  *)
(* one per step into the stack, then moves the thread's base, top and pc   *)
(* and the heap pointer; if the exit counter trips on a guard exit,       *)
(* beginSideTrace replays the snapshot into the new trace's abstract      *)
(* stack, one entry per step.                                              *)
(*                                                                         *)
(* Words are WordBits wide and the 32-bit immediates of KINT literals are *)
(* HalfBits wide, so the sign and zero extension of literalValue is kept. *)
(***************************************************************************)
EXTENDS Integers, Sequences, SequencesExt, FiniteSets

CONSTANTS
    Bias,        \* REF_BIAS: refs below it are literals (irref_islit)
    RefFirst,    \* REF_FIRST: the first instruction of a new buffer
    BloomBits,   \* bits of a BloomFilter (bloomset / bloomtest)
    WordBits,    \* bits of a Word
    HalfBits,    \* bits of the i32 operand of a literal
    StackWords,  \* words of stack
    Exits        \* the exits checked: [ir, snap, gpr, spill, base, hp, trip]

NoTRef == [k |-> "none"]          \* TRef(): an empty abstract slot

VARIABLES
    ex,          \* the exit being taken (the ExitState and the parent trace)
    mem,         \* the stack words: address -> Word
    tbase,       \* T->base_
    ttop,        \* T->top_
    tpc,         \* T->pc_
    hp,          \* cap->traceExitHp_
    phase,       \* "restore", "exit", "replay", "done"
    i,           \* SnapmapRef of restoreSnapshot's and replaySnapshot's loops
    seen,        \* the BloomFilter of replaySnapshot, as its set bits
    bslots,      \* buf_.slots_ of the side trace: slot -> TRef
    parentmap,   \* buf_.parentmap_[0 .. numInheritedSlots-1]
    stopins,     \* buf_.stopins_
    entryRelbase \* buf_.entry_relbase_

vars == <<ex, mem, tbase, ttop, tpc, hp, phase, i, seen, bslots, parentmap,
          stopins, entryRelbase>>

Word(x) == x % 2^WordBits

\* The unsigned reading of a 32-bit operand (ins->u32()).
U32(x) == x % 2^HalfBits

IsLit(ref) == ref < Bias

\* Fragment::literalValue(ref, base): a KINT is sign- or zero-extended from
\* 32 bits, a KWORD joins its two halves (the high one at ref - 1), a
\* KBASEO is an address relative to base; anything else reads as 0.
LiteralValue(ir, ref, base) ==
    LET I == ir[ref] IN
    CASE I.op = "KINT" /\ I.signed -> Word(I.arg)
      [] I.op = "KINT"              -> U32(I.arg)
      [] I.op = "KWORD"             -> Word(U32(I.arg) + U32(ir[ref - 1].arg) * 2^HalfBits)
      [] I.op = "KBASEO"            -> Word(base + I.arg)
      [] OTHER                      -> 0

\* Where the register allocator left an instruction's value.
LocValue(loc, e) == IF loc.spill /= 0 THEN e.spill[loc.spill] ELSE e.gpr[loc.reg]

\* The word restoreSnapshot writes for ref: a literal, or the instruction's
\* spill slot if it has one, or its register.
RestoredValue(e, ref) ==
    IF IsLit(ref) THEN LiteralValue(e.ir, ref, e.base)
    ELSE LocValue(e.ir[ref], e)

Entries == ex.snap.entries
Relbase == ex.snap.relbase

\* restoreSnapshot skips the slot loop and the rebase for a SAVE: the
\* trace has already written the slots back.
IsSave == ex.snap.kind = "save"

\* Only a non-heap-check exit bumps the counter; when it trips on an exit
\* that is not a SAVE, beginSideTrace replays the snapshot.
StartsSideTrace == ex.snap.kind \notin {"heapchk", "save"} /\ ex.trip

Init ==
    /\ ex \in Exits
    /\ mem = [a \in 0..(StackWords - 1) |-> 0]
    /\ tbase = 0
    /\ ttop = 0
    /\ tpc = "interp"
    /\ hp = ex.hp
    /\ phase = "restore"
    /\ i = 1
    /\ seen = {}
    /\ bslots = << >>
    /\ parentmap = << >>
    /\ stopins = RefFirst
    /\ entryRelbase = 0

\* Fault variant of RestoreEntry: the base is moved by relbase before the
\* slots are written, so they and KBASEO literals use the new base.
RestoreEntryAfterRebase ==
    LET e  == Entries[i]
        ex2 == [ex EXCEPT !.base = ex.base + Relbase]
    IN
    /\ phase = "restore"
    /\ ~IsSave
    /\ i <= Len(Entries)
    /\ mem' = [mem EXCEPT ![ex2.base + e.slot] = RestoredValue(ex2, e.ref)]
    /\ i' = i + 1
    /\ UNCHANGED <<ex, tbase, ttop, tpc, hp, phase, seen, bslots, parentmap,
                   stopins, entryRelbase>>

\* One iteration of restoreSnapshot's loop: base[slot] = the entry's value,
\* with base the exit's base register, before any rebase.
RestoreEntry ==
    LET e == Entries[i] IN
    /\ phase = "restore"
    /\ ~IsSave
    /\ i <= Len(Entries)
    /\ mem' = [mem EXCEPT ![ex.base + e.slot] = RestoredValue(ex, e.ref)]
    /\ i' = i + 1
    /\ UNCHANGED <<ex, tbase, ttop, tpc, hp, phase, seen, bslots, parentmap,
                   stopins, entryRelbase>>

\* The rest of restoreSnapshot: base += relbase (not for a SAVE), the
\* thread's base, top and pc, the heap pointer published to the capability
\* and rewound by a failed heap check, and the exit counter deciding on a
\* side trace, whose initRecording empties the new buffer.
RestoreExit ==
    LET newbase == IF Relbase /= 0 /\ ~IsSave THEN ex.base + Relbase ELSE ex.base
    IN
    /\ phase = "restore"
    /\ IsSave \/ i > Len(Entries)
    /\ tbase' = newbase
    /\ ttop' = newbase + ex.snap.framesize
    /\ tpc' = ex.snap.pc
    /\ hp' = IF ex.snap.kind = "heapchk" THEN ex.hp - ex.snap.op1 ELSE ex.hp
    /\ phase' = IF StartsSideTrace THEN "replay" ELSE "done"
    /\ i' = 1
    /\ seen' = {}
    /\ bslots' = [s \in {} |-> NoTRef]
    /\ parentmap' = << >>
    /\ UNCHANGED <<ex, mem, stopins, entryRelbase>>

\* buf_.slot(s): the TRef in an abstract slot, TRef() if none.
SlotTRef(B, s) == IF s \in DOMAIN B THEN B[s] ELSE NoTRef

\* Fault variant of DedupSnapshotRef: the search stops one entry short.
DedupSnapshotRefShort(B, searchLimit, ref) ==
    LET js == {j \in 1..(searchLimit - 2) : Entries[j].ref = ref}
    IN  IF js = {} THEN NoTRef
        ELSE SlotTRef(B, Entries[Min(js)].slot - Relbase)

\* Fault variant of DedupSnapshotRef: the slot is not adjusted by relbase.
DedupSnapshotRefNoRelbase(B, searchLimit, ref) ==
    LET js == {j \in 1..(searchLimit - 1) : Entries[j].ref = ref}
    IN  IF js = {} THEN NoTRef
        ELSE SlotTRef(B, Entries[Min(js)].slot)

\* dedupSnapshotRef: the side trace's TRef for the first entry before
\* searchLimit with the same ref, read from its slot less relbase.
DedupSnapshotRef(B, searchLimit, ref) ==
    LET js == {j \in 1..(searchLimit - 1) : Entries[j].ref = ref}
    IN  IF js = {} THEN NoTRef
        ELSE SlotTRef(B, Entries[Min(js)].slot - Relbase)

\* bloomset / bloomtest: one bit per ref, chosen by its low bits.
BloomBit(ref) == ref % BloomBits

\* Fault variant of ParentEntryBase: the side trace's own base.
ParentEntryBaseMoved == tbase

\* replaySnapshot's base - relbase: the parent's entry base, relative to
\* which the parent's KBASEO literals are evaluated.
ParentEntryBase == tbase - Relbase

\* The TRef replaySnapshot gives a literal: buf_.baseLiteral of the address
\* for a KBASEO, taken relative to the parent's entry base, else
\* buf_.literal of its value.
LiteralTRef(ref, entryBase) ==
    LET val == LiteralValue(ex.ir, ref, entryBase) IN
    IF ex.ir[ref].op = "KBASEO" THEN [k |-> "baseo", addr |-> val]
    ELSE [k |-> "lit", v |-> val]

\* One iteration of replaySnapshot's loop.  A ref the filter may have seen
\* is looked up among the earlier entries and, if found, shares their
\* TRef; otherwise it is marked in the filter and becomes a literal, or an
\* SLOAD with IR_SLOAD_INHERIT of the slot whose parent location (spill
\* slot or register) is recorded in parentmap_.
ReplayEntry ==
    LET e    == Entries[i]
        slot == e.slot - Relbase
        dup  == IF BloomBit(e.ref) \in seen
                THEN DedupSnapshotRef(bslots, i, e.ref) ELSE NoTRef
        new  == IF IsLit(e.ref) THEN LiteralTRef(e.ref, ParentEntryBase)
                ELSE [k |-> "sload", n |-> Len(parentmap) + 1, slot |-> slot]
        tref == IF dup /= NoTRef THEN dup ELSE new
    IN
    /\ phase = "replay"
    /\ i <= Len(Entries)
    /\ seen' = IF dup /= NoTRef THEN seen ELSE seen \cup {BloomBit(e.ref)}
    /\ parentmap' = IF dup = NoTRef /\ ~IsLit(e.ref)
                    THEN Append(parentmap, ex.ir[e.ref]) ELSE parentmap
    /\ bslots' = [s \in DOMAIN bslots \cup {slot} |->
                     IF s = slot THEN tref ELSE bslots[s]]
    /\ i' = i + 1
    /\ UNCHANGED <<ex, mem, tbase, ttop, tpc, hp, phase, stopins, entryRelbase>>

\* The end of replaySnapshot: the inherited SLOADs are the first
\* instructions of the side trace.
ReplayExit ==
    /\ phase = "replay"
    /\ i > Len(Entries)
    /\ stopins' = RefFirst + Len(parentmap)
    /\ entryRelbase' = Relbase
    /\ phase' = "done"
    /\ UNCHANGED <<ex, mem, tbase, ttop, tpc, hp, i, seen, bslots, parentmap>>

Next == RestoreEntry \/ RestoreExit \/ ReplayEntry \/ ReplayExit

Spec == Init /\ [][Next]_vars

-----------------------------------------------------------------------------
TypeOK ==
    /\ phase \in {"restore", "replay", "done"}
    /\ i \in 1..(Len(Entries) + 1)
    /\ seen \subseteq 0..(BloomBits - 1)
    /\ mem \in [0..(StackWords - 1) -> 0..(2^WordBits - 1)]
    /\ parentmap \in Seq(Range(ex.ir))

\* The value a side trace's entry TRef stands for: a literal's value, a
\* base literal's address, or the parent location an inherited SLOAD is
\* initialised from.
TRefValue(t) ==
    CASE t.k = "lit"   -> t.v
      [] t.k = "baseo" -> t.addr
      [] t.k = "sload" -> LocValue(parentmap[t.n], ex)
      [] OTHER         -> "none"

\* Round trip (spec.md, section 5): after a guard or heap-check exit every
\* slot the snapshot names holds, relative to the thread's new base, the
\* word the trace held for it -- KBASEO literals taken relative to the
\* trace's entry base, not the moved one -- and top is framesize above the
\* new base.
RoundTrip ==
    phase /= "restore" /\ ~IsSave =>
        /\ tbase = ex.base + Relbase
        /\ ttop = tbase + ex.snap.framesize
        /\ \A k \in DOMAIN Entries :
              mem[tbase - Relbase + Entries[k].slot]
                  = RestoredValue(ex, Entries[k].ref)

\* A side trace starts in the state the interpreter was left in: for
\* every slot of the snapshot, replaySnapshot gave the new trace a TRef
\* whose value is the word restoreSnapshot wrote at that slot of the new
\* frame, and an inherited SLOAD's parent location holds the same word as
\* the stack slot it loads.
SideTraceSeesRestoredState ==
    phase = "done" /\ StartsSideTrace =>
        /\ \A k \in DOMAIN Entries :
              LET s == Entries[k].slot - Relbase IN
              /\ SlotTRef(bslots, s) /= NoTRef
              /\ TRefValue(bslots[s]) = mem[tbase + s]
        /\ \A s \in DOMAIN bslots :
              bslots[s].k = "sload" => TRefValue(bslots[s]) = mem[tbase + bslots[s].slot]
        /\ stopins = RefFirst + Len(parentmap)

\* The bloom filter only saves work: every instruction of the parent that
\* the snapshot names, however many slots hold it and whatever bits it
\* shares with other refs, is inherited by exactly one SLOAD, so the side
\* trace's parentmap_ and stopins_ count distinct parent values.
InheritsEachRefOnce ==
    phase = "done" /\ StartsSideTrace =>
        Len(parentmap) = Cardinality({Entries[k].ref : k \in
                             {k \in DOMAIN Entries : ~IsLit(Entries[k].ref)}})
=============================================================================
