---------------------------- MODULE MCApiRequests ----------------------------
(* Instances of ApiRequests for TLC.                                        *)
EXTENDS ApiRequests

CONSTANTS r1, r2, r3, k1

TwoRequests == {r1, r2}
ThreeRequests == {r1, r2, r3}
OneKey == {k1}
=============================================================================
