SPECIFICATION FairSpec
CONSTANTS
    w1 = w1
    w2 = w2
    Workers = {w1, w2}
    MaxEdits = 1
    MaxOutages = 1
    MaxVersions = 4
CHECK_DEADLOCK FALSE
INVARIANTS TypeOK
PROPERTIES DesiredWorkersHeal StaleDeletionCompletes
