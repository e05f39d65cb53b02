CONSTANTS
    Events = {e1}
    Snaps = {s1}
    Waiters = {w1, w2}
    TimedWaiters = {w2}
    Caching = Caching
    Programs = {{e1, w1, w2}}
    maxGroupsPerBatch = 2
    eventsPerRequest = 2
    maxAttempts = 2
    EVENT_BUFFER_MAX_SIZE = 2
SPECIFICATION FairSpec
CHECK_DEADLOCK FALSE
PROPERTY EveryWaitEnds
