SPECIFICATION SnapSession
CONSTANTS
    v1 = v1
    v2 = v2
    Tomb = Tomb
    Absent = Absent
    Keys = {1, 2}
    Vals = {v1}
    MaxEntries = 0
    L0Threshold = 2
    Fanout = 10
    MaxLevels = 2
    TTLs = {1}
    Batches <- SmallBatches
    MaxSeq = 3
    MaxIds = 8
    MaxNow = 1
    MaxOpens = 0
INVARIANTS
    SessionInv
    PlacedInv
    NoStaleRead
    ReadsLatest
    ScansLatest
    
PROPERTIES
    ImplementsKVStore
CHECK_DEADLOCK FALSE
