----------------------------- MODULE MCCompaction -----------------------------
(* Instances of Compaction for TLC.                                        *)
EXTENDS Compaction
CONSTANTS m1, m2, r1
TwoIn == {m1, m2}
OneOut == {r1}
TwoBlank == {r1, m2}
NoneOld == <<>>
===============================================================================
