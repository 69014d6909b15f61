---------------------------- MODULE MCJitTraces ----------------------------
(* Model of JitTraces for TLC: one FUNC entry, one IFUNC entry, an ordinary *)
(* return point, the update-frame return point and one body instruction.   *)
EXTENDS JitTraces

CONSTANTS f, g, r, u, b

MCFuncPCs  == {f}
MCIFuncPCs == {g}
MCRetPCs   == {r, u}
MCBodyPCs  == {b}

\* Bounds on the unbounded fragment store and snapshot buffer.
StoreBound == Len(fragments) <= MaxFragments /\ Len(snaps) <= MaxSnaps
=============================================================================
