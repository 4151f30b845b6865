------------------------------ MODULE MCWebchatBus -----------------------------
(* Instances of WebchatBus for TLC: two streams of one request.            *)
EXTENDS WebchatBus
CONSTANTS r1, r2, s1, s2, nobody
TwoRequests == {r1, r2}
TwoStreams == {s1, s2}
Asked == [s \in Streams |-> r1]
===============================================================================
