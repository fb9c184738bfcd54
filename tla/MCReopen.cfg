SPECIFICATION RestartSpec
CONSTANTS
    v1 = v1
    v2 = v2
    Tomb = Tomb
    Absent = Absent
    Keys = {1, 2}
    Vals = {v1, v2}
    MaxEntries = 0
    L0Threshold = 2
    Fanout = 10
    MaxLevels = 2
    TTLs = {}
    Batches <- NoBatches
    MaxSeq = 4
    MaxIds = 8
    MaxNow = 0
    MaxOpens = 1
INVARIANTS
    NoStaleRead
CHECK_DEADLOCK FALSE
