SPECIFICATION Spec
CONSTANTS
    w1 = w1
    w2 = w2
    head = head
    Workers = {w1}
    BadWorkers = {}
    HeadNode = head
    MaxLag = 1
    Late = {head, "svc", "rootca", "sa", "wsecret"}
    MaxEdits = 1
    MaxFaults = 1
CHECK_DEADLOCK FALSE
INVARIANTS FinalizerFirst HeadReleased
PROPERTIES NoResurrection HeadContractHolds
