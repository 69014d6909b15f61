---------------------------- MODULE MCHotCounters ----------------------------
(* Three PCs: 0x10 and 0x1000 share cell 1 under the hash, 0x20 has cell 2 *)
(* of 4; counters are 3 bits wide so that a zero fill wraps within reach.  *)
EXTENDS HotCounters

MCPCs == {16, 4096, 32}
=============================================================================
