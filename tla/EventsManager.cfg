CONSTANTS
    Events = {e1}
    Snaps = {s1, s2}
    Waiters = {w1, w2}
    TimedWaiters = {w2}
    Caching = Caching
    Programs = {{e1, s1, w1}, {s1, w1, Caching}, {e1, s1, w2, Caching}, {e1, s1, s2}, {s1, w1, w2}}
    maxGroupsPerBatch = 2
    eventsPerRequest = 2
    maxAttempts = 2
    EVENT_BUFFER_MAX_SIZE = 2
SPECIFICATION FairSpec
CHECK_DEADLOCK FALSE
INVARIANTS NothingVanishes TrueMeansSettled OneRightAnswer
PROPERTIES WaitEnds StopEnds
