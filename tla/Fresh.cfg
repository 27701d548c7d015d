SPECIFICATION FairSpec
CONSTANTS
    w1 = w1
    w2 = w2
    head = head
    Workers = {w1, w2}
    BadWorkers = {w2}
    HeadNode = head
    MaxLag = 0
    Late = {}
    MaxEdits = 1
    MaxFaults = 1
CHECK_DEADLOCK FALSE
INVARIANTS TypeOK WorkersTracked WorkersReleased
PROPERTIES WorkersAfterHead ContractHolds DeletionCompletes DesiredWorkersRun UndesiredWorkersGo
