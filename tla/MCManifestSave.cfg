SPECIFICATION CrashSpec
CONSTANTS
    v1 = v1
    v2 = v2
    Tomb = Tomb
    Absent = Absent
    Keys = {1}
    Vals = {v1}
    MaxEntries = 0
    L0Threshold = 4
    Fanout = 10
    MaxLevels = 7
    TTLs = {}
    Batches <- NoBatches
    MaxSeq = 1
    MaxIds = 10
    MaxNow = 0
    MaxOpens = 1
INVARIANTS
    OpensAfterCrash
CHECK_DEADLOCK FALSE
