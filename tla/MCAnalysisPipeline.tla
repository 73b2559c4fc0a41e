------------------------- MODULE MCAnalysisPipeline -------------------------
(* Instances of AnalysisPipeline for TLC.                                   *)
EXTENDS AnalysisPipeline

CONSTANTS p1, rule, anomaly

OneRun == {p1}
OneRule == {rule}
OneAnomaly == {anomaly}
=============================================================================
