SPECIFICATION Spec
CONSTANTS
    w1 = w1
    w2 = w2
    head = head
    Workers = {w1, w2}
    BadWorkers = {}
    HeadNode = head
    MaxLag = 1
    Late = {}
    MaxEdits = 1
    MaxFaults = 1
CHECK_DEADLOCK FALSE
PROPERTIES WorkersAfterHead
