--------------------------- MODULE MCSingleflight ---------------------------
(* Small instances of Singleflight for TLC.                                *)
EXTENDS Singleflight, TLC
CONSTANTS t1, t2, t3, k1, k2

MCThreads == {t1, t2, t3}
MCKeys == {k1, k2}
MCResults == {"value", "panic"}
=============================================================================
