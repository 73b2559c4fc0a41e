SPECIFICATION FairSpec
CONSTANTS
    r1 = r1
    r2 = r2
    r3 = r3
    k1 = k1
    Requests <- ThreeRequests
    Keys <- OneKey
    NoBody = NoBody
INVARIANTS ReplaysAgree AnswersStored BatchIffEvent WebhookAfterResult
PROPERTY JobsEnd
CHECK_DEADLOCK FALSE
