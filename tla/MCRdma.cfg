SPECIFICATION Spec
CONSTANTS
    HostC = 3
    MAX_RETRY = 2
    Scenarios <- MCScenarios
    QueueSize = 2
    BatchingSize = 1
INVARIANT IdsAgree
INVARIANT EndsConnected
INVARIANT RdmaInOrder
INVARIANT RecvSlotsSafe
PROPERTY AllDelivered
CHECK_DEADLOCK FALSE
