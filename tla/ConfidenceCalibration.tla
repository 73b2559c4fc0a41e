----------------------- MODULE ConfidenceCalibration ------------------------
(* The confidence layer: which labels calibrate, when a building counts as   *)
(* cold, and what band a finding or a score receives.  Bands are in percent. *)
EXTENDS Integers, FiniteSets, Sequences, SequencesExt

CONSTANTS
    MinLabels,      \* min_calibration_samples
    MaxLabelSet,    \* max_history_samples
    Probability     \* what the fitted regression answers for a score, in percent

ASSUME CalibrationAssumption ==
    /\ MinLabels \in Nat /\ MaxLabelSet \in Nat
    /\ Probability \in 0..100

Band(l, u) == [lower |-> l, upper |-> u]
WideBand == Band(0, 100)

(* ConfidenceBand and its validator.                                         *)
IsBand(b) == 0 <= b.lower /\ b.lower <= b.upper /\ b.upper <= 100

AtMost(limit, x) == IF x > limit THEN limit ELSE x
AtLeast(limit, x) == IF x < limit THEN limit ELSE x

(* get_calibration_set(): the newest labels of the building's findings.      *)
CalibrationSet(labels) ==
    SubSeq(labels, AtLeast(1, Len(labels) - MaxLabelSet + 1), Len(labels))

(* Mutant: enough labels end cold start, whatever the building's flag says.  *)
IsCold_IgnoresFlag(flag, labels) == Len(CalibrationSet(labels)) < MinLabels

IsCold(flag, labels) == flag \/ Len(CalibrationSet(labels)) < MinLabels

(* fit(): a set of one class leaves the predictor unfitted.                  *)
Fitted(labels) == Cardinality(ToSet(CalibrationSet(labels))) >= 2

(* predict(): wide while unfitted or when the library raises; otherwise the  *)
(* probability widened by what the target confidence leaves, or a band from  *)
(* zero when the prediction set leaves "confirmed" out.                      *)
Predict(labels) ==
    IF ~Fitted(labels) THEN {WideBand}
    ELSE {WideBand, Band(AtLeast(0, Probability - 10), AtMost(100, Probability + 10)),
          Band(0, Probability)}

(* _calibrate_scores(): every item of a call gets the same band, since the   *)
(* bundles carry no ml_anomaly_score and the regression sees one value only. *)
Bands(flag, labels) == IF IsCold(flag, labels) THEN {WideBand} ELSE Predict(labels)
=============================================================================
