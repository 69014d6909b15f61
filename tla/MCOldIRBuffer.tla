---------------------------- MODULE MCOldIRBuffer ----------------------------
EXTENDS OldIRBuffer

CONSTANTS add, eq, k1, k2, w1, tpc, tclos, f1, f2, r1, noval
=============================================================================
