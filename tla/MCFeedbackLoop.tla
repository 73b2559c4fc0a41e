--------------------------- MODULE MCFeedbackLoop ---------------------------
(* Instances of FeedbackLoop for TLC.                                       *)
EXTENDS FeedbackLoop, TLC

CONSTANTS r1, r2, r3, f1, f2, f3

TwoRequests == {r1, r2}
ThreeRequests == {r1, r2, r3}
TwoFindings == {f1, f2}
ThreeFindings == {f1, f2, f3}
TwoBundled == {f1, f2}
RequestSymmetry == Permutations(ThreeRequests)
=============================================================================
