SPECIFICATION ThreadsSpec
CONSTANTS
    Producers = {p1, p2}
    Consumers = {c1}
    MaxSizes = {0, 1, 2}
    MaxMsgs = 3
    NNodes = 2
    Cap = 1
    MaxTasks = 1
CHECK_DEADLOCK FALSE
INVARIANTS
    FifoExactlyOnce
    NobodySleepsOn
    StopIsComplete
    DestroyedAfterUse
PROPERTIES
    ImplementsContract
    OperationsReturn
    ShutdownEnds
