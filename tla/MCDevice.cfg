SPECIFICATION DeviceSpec
CONSTANTS
    Callers = {c1, c2, c3}
    None = None
    ReadTimed = {TRUE}
    WriteTimed = {TRUE, FALSE}
    MaxCalls = 4
    flushAt = 2
    maxQueueSize = 3
    maxBatchSize = 3
    MaxEvents = 4
    MaxLinks = 3
CHECK_DEADLOCK FALSE
INVARIANTS ResponsesAccounted EventsAreKept
PROPERTIES LateByAbandoned CallsAreAnswered PostedInOrder QueueGoesOn TelemetryGoesOn
