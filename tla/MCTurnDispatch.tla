---------------------------- MODULE MCTurnDispatch ----------------------------
(* Instances of TurnDispatch for TLC: text messages t*, web messages w*.   *)
EXTENDS TurnDispatch

CONSTANTS t1, t2, w1

TextAndWeb == {t1, t2, w1}
WebOnly == {w1}
===============================================================================
