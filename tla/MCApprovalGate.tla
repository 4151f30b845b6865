---------------------------- MODULE MCApprovalGate ----------------------------
(* ApprovalGate with model values, for TLC.                                *)
EXTENDS ApprovalGate, TLC

CONSTANTS ask1, ask2, beat1, msg1, msg2, poll1, allow, deny, interrupt

(* The two replies are interchangeable.                                    *)
ReplySymmetry == Permutations(Replies)
===============================================================================
