SPECIFICATION FairSpec
CONSTANTS
    r1 = r1
    r2 = r2
    r3 = r3
    f1 = f1
    f2 = f2
    f3 = f3
    Requests <- ThreeRequests
    Findings <- ThreeFindings
    Bundled <- TwoBundled
    Threshold = 2
    NoOne = NoOne
INVARIANTS StatusIsLastLabel EventAtMostOneLabelEarly
PROPERTY RequestsEnd
CHECK_DEADLOCK FALSE
