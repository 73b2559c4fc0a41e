SPECIFICATION TriggersFairSpec
CONSTANTS
    r1 = r1
    r2 = r2
    f1 = f1
    f2 = f2
    d1 = d1
    Requests <- TwoRequests
    Findings <- TwoFindings
    Bundled <- TwoFindings
    Threshold = 2
    NoOne = NoOne
    DriftIds <- OneDrift
    Foreign = Foreign
    Malformed = Malformed
    MaxMessages = 1
    MaxFailures = 1
INVARIANTS RetrainingJustified
PROPERTY ConsumersGoOn
CHECK_DEADLOCK FALSE
