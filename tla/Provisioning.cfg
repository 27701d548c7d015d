SPECIFICATION FairSpec
CONSTANTS
    w1 = w1
    Workers = {w1}
    AuthSecret = TRUE
    SecondsPerTick = 86400
    MaxLives = 2
    MaxEdits = 1
    MaxFaults = 1
    MaxClock = 1
CHECK_DEADLOCK FALSE
INVARIANTS TypeOK NodesTrustEachOther TokenOfOwnAccount ServiceReachesHead HeadIsOwn ContainersCanStart
PROPERTIES HeadServed WorkersServed
