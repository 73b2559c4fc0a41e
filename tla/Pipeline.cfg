SPECIFICATION FairSpec
CONSTANTS
    p1 = p1
    rule = rule
    anomaly = anomaly
    Runs <- OneRun
    RuleFires <- OneRule
    Anomalies <- OneAnomaly
    MaxLost = 1
    MaxTimeouts = 1
INVARIANTS CopiesBounded OptimizationSeesFindings CalibratedForReview
PROPERTIES ImplementsContract ReviewedRunEnds
CHECK_DEADLOCK FALSE
