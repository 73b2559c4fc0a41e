SPECIFICATION FairSpec
CONSTANTS
    r1 = r1
    r2 = r2
    r3 = r3
    k1 = k1
    Requests <- TwoRequests
    Keys <- OneKey
    NoBody = NoBody
PROPERTY PollingEnds
CHECK_DEADLOCK FALSE
