------------------------- MODULE MCSnapshotRestore -------------------------
(* Exits for TLC: a parent trace with an unsigned and a signed KINT (the   *)
(* latter also the high half of a KWORD), a KWORD, a KBASEO, and three     *)
(* instructions left in a register, a spill slot and another register;     *)
(* snapshots of up to three entries over slots -1..1, sorted by slot, with *)
(* relbase -1, 0 or 2, of a guard, a heap check or a SAVE.  Refs 0, 2, 4   *)
(* and 6 share a bloom bit, as do 1, 3 and 5.                              *)
EXTENDS SnapshotRestore

MCIR ==
    (0 :> [op |-> "KINT", signed |-> FALSE, arg |-> -1]) @@
    (1 :> [op |-> "KINT", signed |-> TRUE, arg |-> -1]) @@
    (2 :> [op |-> "KWORD", arg |-> 5]) @@
    (3 :> [op |-> "KBASEO", arg |-> 1]) @@
    (4 :> [op |-> "ins", reg |-> 1, spill |-> 0]) @@
    (5 :> [op |-> "ins", reg |-> 0, spill |-> 1]) @@
    (6 :> [op |-> "ins", reg |-> 2, spill |-> 0])

SnapSlots == -1..1

\* Snapshot entries sorted by slot, each slot once.
MCEntries ==
    UNION {{[j \in 1..Cardinality(ss) |->
               [slot |-> SortSeq(SetToSeq(ss), <)[j], ref |-> refs[j]]]
            : refs \in [1..Cardinality(ss) -> DOMAIN MCIR]}
           : ss \in {ss \in SUBSET SnapSlots : ss /= {}}}

MCExits ==
    [ir    : {MCIR},
     snap  : [entries : MCEntries, relbase : {-1, 0, 2}, framesize : {2},
              pc : {"pc"}, kind : {"guard", "heapchk", "save"}, op1 : {2}],
     gpr   : {(1 :> 7) @@ (2 :> 9)},
     spill : {1 :> 11},
     base  : {4},
     hp    : {20},
     trip  : BOOLEAN]
=============================================================================
