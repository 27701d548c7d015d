SPECIFICATION FairSpec
CONSTANTS
    w1 = w1
    head = head
    t1 = t1
    Workers = {w1}
    HeadNode = head
    NodeTypes = {t1}
    VMClass <- OneClass
    MinWorkers <- OneEach
    MaxLag = 1
    MaxEdits = 1
    MaxFaults = 1
    MaxConditions = 3
CHECK_DEADLOCK FALSE
INVARIANTS TypeOK ConditionsBounded
PROPERTIES ReportsAgree MissingDependencyReported RecoveryClears HeadFailureRecurs
