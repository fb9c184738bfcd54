SPECIFICATION FairRestartSpec
CONSTANTS
    v1 = v1
    v2 = v2
    Tomb = Tomb
    Absent = Absent
    Keys = {1, 2, 3}
    Vals = {v1}
    MaxEntries = 0
    L0Threshold = 1
    Fanout = 2
    MaxLevels = 3
    TTLs = {}
    Batches <- OuterBatch
    MaxSeq = 2
    MaxIds = 11
    MaxNow = 1
    MaxOpens = 1
INVARIANTS
    TypeOK
    RestartInv
    LevelsDisjoint
    LevelOrder
    BelowThreshold
    NothingLost
PROPERTIES
    OpCompletes
CHECK_DEADLOCK FALSE
