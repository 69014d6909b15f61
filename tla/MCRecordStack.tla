---------------------------- MODULE MCRecordStack ----------------------------
(* A heap with a constructor, the running function, a thunk, a CAF and   *)
(* indirections to the constructor and to the thunk; a stack with the    *)
(* bottom frame at base 3 and the recorded function's frame at base 8,   *)
(* both two slots wide, and (for a return trace) a pending result.       *)
EXTENDS RecordStack

CONSTANTS nc, ng, nt, nk, nx, ny, n1, n2, i1, i2, pcStop

MCHeap0 ==
    (nc :> [info |-> Con, fields |-> <<i2>>]) @@
    (ng :> [info |-> Fun, fields |-> <<nc>>]) @@
    (nt :> [info |-> Thunk, fields |-> <<nc>>]) @@
    (nk :> [info |-> Caf, fields |-> << >>]) @@
    (nx :> [info |-> Ind, fields |-> <<nc>>]) @@
    (ny :> [info |-> Ind, fields |-> <<nt>>])

MCNewNodes == <<n1, n2>>


MCMem0 ==
    {[i \in 0..(StackLimit + FrameSize) |->
        CASE i = 0 -> BaseLit(0) [] i = 1 -> pcStop [] i = 2 -> ng
          [] i = 3 -> nc [] i = 4 -> ny
          [] i = 5 -> BaseLit(3) [] i = 6 -> PcRet [] i = 7 -> ng
          [] i = 8 -> v[1] [] i = 9 -> v[2] [] i = 13 -> v[3]
          [] OTHER -> Undef]
     : v \in {i1, nx} \X {nt, ny, nk} \X {Undef, i1}}
=============================================================================
