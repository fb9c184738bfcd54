SPECIFICATION Session
CONSTANTS
    v1 = v1
    v2 = v2
    Tomb = Tomb
    Absent = Absent
    Keys = {1, 2, 3, 4, 5, 6, 7, 8, 9, 10}
    Vals = {v1}
    MaxEntries = 0
    L0Threshold = 1
    Fanout = 10
    MaxLevels = 3
    TTLs = {}
    Batches <- NoBatches
    MaxSeq = 11
    MaxIds = 30
    MaxNow = 0
    MaxOpens = 0
INVARIANTS
    ReadsLatest
ACTION_CONSTRAINTS
    FillThenDelete
CHECK_DEADLOCK FALSE
