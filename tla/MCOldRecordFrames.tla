------------------------- MODULE MCOldRecordFrames -------------------------
EXTENDS OldRecordFrames

(* Two start positions: a start frame of size 1 above a frame of size 2,   *)
(* and one of size 2 above a frame of size 1.                              *)
MCOuterSizes == {<<2, 1>>, <<1, 2>>}

(* A start frame of four registers, wide enough for a CALLT with four      *)
(* arguments.                                                              *)
MCOuterSizesWide == {<<1, 4>>}
=============================================================================
