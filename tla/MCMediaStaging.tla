----------------------------- MODULE MCMediaStaging ----------------------------
(* Instances of MediaStaging for TLC.                                      *)
EXTENDS MediaStaging, TLC
CONSTANTS u1, u2, c1, c2, boot
OneUrl == {u1}
TwoUrls == {u1, u2}
OneCall == {c1}
TwoCalls == {c1, c2}
Drive == {"storage"}
DriveAndCompanyCam == {"storage", "companycam"}
Symmetry == Permutations(TwoUrls) \cup Permutations(TwoCalls)
===============================================================================
