SPECIFICATION CrashSpec
CONSTANTS
    v1 = v1
    v2 = v2
    Tomb = Tomb
    Absent = Absent
    Keys = {1, 2}
    Vals = {v1}
    MaxEntries = 0
    L0Threshold = 4
    Fanout = 10
    MaxLevels = 1
    TTLs = {}
    Batches <- PutBatches
    MaxSeq = 2
    MaxIds = 5
    MaxNow = 0
    MaxOpens = 1
INVARIANTS
    NothingLost
CHECK_DEADLOCK FALSE
