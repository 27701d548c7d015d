SPECIFICATION Spec
CONSTANTS
    w1 = w1
    w2 = w2
    head = head
    Workers = {w1}
    BadWorkers = {}
    HeadNode = head
    MaxLag = 0
    Late = {}
    MaxEdits = 0
    MaxFaults = 0
CHECK_DEADLOCK FALSE
INVARIANTS SecretsReleased
