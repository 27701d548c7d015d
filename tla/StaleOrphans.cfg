SPECIFICATION Spec
CONSTANTS
    w1 = w1
    w2 = w2
    head = head
    Workers = {w1, w2}
    BadWorkers = {}
    HeadNode = head
    MaxLag = 1
    Late = {}
    MaxEdits = 2
    MaxFaults = 0
CHECK_DEADLOCK FALSE
INVARIANTS WorkersReleased
