SPECIFICATION FairSpec
CONSTANTS
    w1 = w1
    WorkflowIds <- OneWorkflow
    Foreign = Foreign
    Malformed = Malformed
    MaxMessages = 3
    MaxFailures = 2
INVARIANTS LossBounded RunsBounded
PROPERTY MessagesConsumed
CHECK_DEADLOCK FALSE
