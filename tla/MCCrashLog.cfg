SPECIFICATION FaultSpec
CONSTANTS
    v1 = v1
    Tomb = Tomb
    Absent = Absent
    Keys = {1, 2}
    Vals = {v1}
    MaxEntries = 1
    L0Threshold = 4
    Fanout = 10
    MaxLevels = 1
    TTLs = {}
    Batches = {}
    MaxSeq = 3
    MaxIds = 4
    MaxNow = 0
    MaxOpens = 1
    MaxFaults = 2
INVARIANTS
    FaultInv
    RecoversExactly
    StillThere
CHECK_DEADLOCK FALSE
