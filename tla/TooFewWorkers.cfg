SPECIFICATION Spec
CONSTANTS
    w1 = w1
    w2 = w2
    head = head
    t1 = t1
    Workers = {w1, w2}
    HeadNode = head
    NodeTypes = {t1}
    VMClass <- OneClass
    MinWorkers <- OneEach
    MaxLag = 0
    MaxEdits = 0
    MaxFaults = 2
    MaxConditions = 3
CHECK_DEADLOCK FALSE
PROPERTIES MinimumWorkersOrUnhealthy
