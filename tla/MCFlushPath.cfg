SPECIFICATION Spec
CONSTANTS
    Base = 16
    U32 = 2
    U64 = 2
    Magic <- MagicBytes
    Version = 1
    MaxLevel = 2
    ListSize = 3
    NodeSize = 2
    PointerSize = 1
    Words = {0, 1, 4}
    Keys <- SmallKeys
    Vals <- SmallVals
    MaxSize = 9
    L0Threshold = 2
    MaxPuts = 5
    MaxIds = 8
INVARIANTS
    FlushInv
    NamesFiles
    FindsLatest
    ListsSound
    ScansMerge
    ManifestReads
CHECK_DEADLOCK FALSE
