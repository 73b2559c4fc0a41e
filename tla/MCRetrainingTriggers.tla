------------------------ MODULE MCRetrainingTriggers ------------------------
(* Instances of RetrainingTriggers for TLC.                                 *)
EXTENDS RetrainingTriggers

CONSTANTS r1, r2, f1, f2, d1

TwoRequests == {r1, r2}
TwoFindings == {f1, f2}
OneDrift == {d1}
=============================================================================
