CONSTANTS
    Events = {e1}
    Snaps = {s1, s2}
    Waiters = {w1}
    TimedWaiters = {w1}
    Caching = Caching
    Programs = {{s1, s2, Caching}}
    maxGroupsPerBatch = 2
    eventsPerRequest = 2
    maxAttempts = 2
    EVENT_BUFFER_MAX_SIZE = 2
SPECIFICATION Spec
CHECK_DEADLOCK FALSE
INVARIANT FailedSnapsAreCached
