---------------------------- MODULE MCRecordLoop ---------------------------
(* RecordLoop for TLC: a FUNC entry, a FUNC entry already compiled to      *)
(* JFUNC, an IFUNC entry (generic apply code), an ordinary return point,   *)
(* the update-frame return point and a body of two instructions; at most  *)
(* three branch targets per recording.                                     *)
EXTENDS RecordLoop

CONSTANTS f, j, t, g, r, u, b1, b2

MCFuncPCs   == {f, j}
MCApThunkPCs == {t}
MCApContPCs  == {g}
MCLinkedPCs == {j}
MCRetPCs    == {r, u}
MCBody      == <<b1, b2>>
=============================================================================
