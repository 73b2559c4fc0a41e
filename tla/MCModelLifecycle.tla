-------------------------- MODULE MCModelLifecycle --------------------------
(* Instances of ModelLifecycle for TLC.                                     *)
EXTENDS ModelLifecycle, TLC

CONSTANTS a1, a2, d1

TwoAttempts == {a1, a2}
OneMonitor == {d1}
AttemptSymmetry == Permutations(TwoAttempts)
=============================================================================
