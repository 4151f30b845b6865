-------------------------------- MODULE MCOAuth --------------------------------
(* Instances of OAuth for TLC.  The runs check liveness: no symmetry.      *)
EXTENDS OAuth
CONSTANTS w1, w2, a, s, nobody
TwoWorkers == {w1, w2}
OneTurn == {a}
OneSweep == {s}
HomeOf == [t \in Turns \cup Sweeps |-> IF t = a THEN w1 ELSE w2]
===============================================================================
