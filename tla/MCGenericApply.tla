--------------------------- MODULE MCGenericApply ---------------------------
(* GenericApply for TLC: calls with up to 3 direct arguments to functions   *)
(* of arity up to 3, PAPs holding 1 or 2 arguments, thunks, and callees    *)
(* behind up to one indirection; an abstract stack of 22 slots, so that    *)
(* the deepest CALLs of thunks overflow it.                                *)
EXTENDS GenericApply
=============================================================================
