SPECIFICATION Spec
CONSTANTS
    r1 = r1
    r2 = r2
    r3 = r3
    f1 = f1
    f2 = f2
    f3 = f3
    Requests <- TwoRequests
    Findings <- TwoFindings
    Bundled <- TwoBundled
    Threshold = 2
    NoOne = NoOne
INVARIANT FiresAtCrossing
CHECK_DEADLOCK FALSE
