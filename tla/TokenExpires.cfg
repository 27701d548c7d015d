SPECIFICATION Spec
CONSTANTS
    w1 = w1
    Workers = {w1}
    AuthSecret = FALSE
    SecondsPerTick = 86400
    MaxLives = 1
    MaxEdits = 0
    MaxFaults = 0
    MaxClock = 8
CHECK_DEADLOCK FALSE
INVARIANTS TokenLastsSixMonths
