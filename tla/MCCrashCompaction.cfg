SPECIFICATION CrashSpec
CONSTANTS
    v1 = v1
    v2 = v2
    Tomb = Tomb
    Absent = Absent
    Keys = {1, 2}
    Vals = {v1}
    MaxEntries = 0
    L0Threshold = 1
    Fanout = 10
    MaxLevels = 2
    TTLs = {}
    Batches <- NoBatches
    MaxSeq = 2
    MaxIds = 8
    MaxNow = 0
    MaxOpens = 1
INVARIANTS
    NothingLost
CHECK_DEADLOCK FALSE
