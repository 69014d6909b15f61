----------------------------- MODULE HotCounters -----------------------------
(***************************************************************************)
(* The hot counters of the trace JIT (class HotCounters, jit.hh, and its   *)
(* constructor in jit.cc).  A fixed array of unsigned counters is indexed  *)
(* by a hash of the PC; tick decrements and reports a trip when the        *)
(* counter reaches zero, refilling it with the threshold.  Several PCs may *)
(* share a counter.                                                        *)
(*                                                                         *)
(* The counter width is the constant CountBits (16 in the code) so that    *)
(* the wrap of the unsigned decrement is kept; the number of counters is  *)
(* NumCounters (1024 in the code, a power of two).                        *)
(***************************************************************************)
EXTENDS Integers, Bitwise

CONSTANTS
    PCs,            \* the instruction addresses that are ticked (integers)
    NumCounters,    \* kNumCounters, a power of two
    CountBits,      \* bits of HotCount (uint16_t)
    Threshold,      \* threshold_
    SetValues       \* values the interpreter may store with set

ASSUME NumCounters \in {2^k : k \in 0..10}
ASSUME Threshold \in 0..(2^CountBits - 1)

HotCount == 0..(2^CountBits - 1)
Cell     == 0..(NumCounters - 1)

NoCell == -1

VARIABLES
    counters,   \* counters_
    result,     \* value returned by the last tick (TRUE = trip)
    lastTick,   \* history: cell of the last tick, NoCell after set or reset
    refill,     \* history: value the cell was last filled with
    since       \* history: ticks on the cell since it was last filled

vars == <<counters, result, lastTick, refill, since>>

(* hotCountHash: ((val >> 12) ^ (val >> 4)) & (kNumCounters - 1).         *)
HotCountHash(pc) == (shiftR(pc, 12) ^^ shiftR(pc, 4)) & (NumCounters - 1)

(* HotCounters::HotCounters: every counter starts at the threshold.        *)
Init ==
    /\ counters = [c \in Cell |-> Threshold]
    /\ result = FALSE
    /\ lastTick = NoCell
    /\ refill = [c \in Cell |-> Threshold]
    /\ since = [c \in Cell |-> 0]

(* Filling a cell restarts its history.                                    *)
Filled(c, v) ==
    /\ refill' = [refill EXCEPT ![c] = v]
    /\ since' = [since EXCEPT ![c] = 0]

Counted(h) ==
    /\ since' = [since EXCEPT ![h] = @ + 1]
    /\ UNCHANGED refill

(* The trip branch of tick without the refill.                             *)
TickNoRefill(pc) ==
    LET h == HotCountHash(pc)
        c == (counters[h] - 1) % 2^CountBits
    IN  /\ counters' = [counters EXCEPT ![h] = c]
        /\ result' = (c = 0)
        /\ lastTick' = h
        /\ Counted(h)

(* The decrement done in a signed integer.                                 *)
TickSigned(pc) ==
    LET h == HotCountHash(pc)
        c == counters[h] - 1
    IN  /\ lastTick' = h
        /\ IF c = 0
           THEN /\ counters' = [counters EXCEPT ![h] = Threshold]
                /\ result' = TRUE
                /\ Filled(h, Threshold)
           ELSE /\ counters' = [counters EXCEPT ![h] = c]
                /\ result' = FALSE
                /\ Counted(h)

(* A trip test against 1 instead of 0.                                     *)
TickEarly(pc) ==
    LET h == HotCountHash(pc)
        c == (counters[h] - 1) % 2^CountBits
    IN  /\ lastTick' = h
        /\ IF c = 1
           THEN /\ counters' = [counters EXCEPT ![h] = Threshold]
                /\ result' = TRUE
                /\ Filled(h, Threshold)
           ELSE /\ counters' = [counters EXCEPT ![h] = c]
                /\ result' = FALSE
                /\ Counted(h)

(* tick: HotCount c = --counters_[h]; if c == 0, set(pc, threshold_) and   *)
(* report a trip.                                                          *)
Tick(pc) ==
    LET h == HotCountHash(pc)
        c == (counters[h] - 1) % 2^CountBits
    IN  /\ lastTick' = h
        /\ IF c = 0
           THEN /\ counters' = [counters EXCEPT ![h] = Threshold]
                /\ result' = TRUE
                /\ Filled(h, Threshold)
           ELSE /\ counters' = [counters EXCEPT ![h] = c]
                /\ result' = FALSE
                /\ Counted(h)

(* set(pc, value).                                                         *)
Set(pc, v) ==
    /\ counters' = [counters EXCEPT ![HotCountHash(pc)] = v]
    /\ lastTick' = NoCell
    /\ Filled(HotCountHash(pc), v)
    /\ UNCHANGED result

(* reset(pc): refill with the threshold.                                   *)
Reset(pc) ==
    /\ counters' = [counters EXCEPT ![HotCountHash(pc)] = Threshold]
    /\ lastTick' = NoCell
    /\ Filled(HotCountHash(pc), Threshold)
    /\ UNCHANGED result

Next ==
    \E pc \in PCs :
        \/ Tick(pc)
        \/ \E v \in SetValues : Set(pc, v)
        \/ Reset(pc)

Spec == Init /\ [][Next]_vars

-----------------------------------------------------------------------------
(* Ticks a cell filled with v takes to trip: v, or a full wrap of the      *)
(* unsigned counter when v is zero.                                        *)
Period(v) == IF v = 0 THEN 2^CountBits ELSE v

TypeOK ==
    /\ counters \in [Cell -> HotCount]
    /\ result \in BOOLEAN
    /\ lastTick \in Cell \cup {NoCell}
    /\ refill \in [Cell -> HotCount]
    /\ since \in [Cell -> Nat]

(* Every counter equals the value last stored in it minus the ticks of all *)
(* PCs sharing it since then, modulo the counter width, and no cell has    *)
(* been ticked a full period without tripping: the refill in tick keeps   *)
(* the decrement from wrapping past zero.                                  *)
CountsDown ==
    \A c \in Cell :
        /\ counters[c] = (refill[c] - since[c]) % 2^CountBits
        /\ since[c] < Period(refill[c])

(* A tick reports a trip exactly when it is the Period(v)-th tick of its   *)
(* cell, counting every PC that hashes there, since tick, set, reset or    *)
(* the constructor last stored v; the Simple unit test checks this for one *)
(* PC and v = 5.                                                           *)
TripsExactlyAtPeriod ==
    [][lastTick' /= NoCell =>
         (result' <=> since[lastTick'] + 1 = Period(refill[lastTick']))]_vars
=============================================================================
