------------------------- MODULE MCInboundRecovery -------------------------
(* Instances of InboundRecovery for TLC.  No symmetry: the runs check      *)
(* liveness, or are small.                                                 *)
EXTENDS InboundRecovery
CONSTANTS t1, t2
TwoMessages == {t1, t2}
=============================================================================
