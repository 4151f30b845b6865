------------------------------ MODULE MCHeartbeat ------------------------------
(* Instances of Heartbeat for TLC.  The run checks liveness: no symmetry.  *)
EXTENDS Heartbeat
CONSTANTS u1, u2
TwoUsers == {u1, u2}
FirstUser == {u1}
===============================================================================
