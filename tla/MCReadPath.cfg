SPECIFICATION Spec
CONSTANTS
    BlockSize = 34
    BitsPerKey = 2
    MinBits = 4
    NumHashes = 2
    HashRange = 16
    Hash <- SmallHash
    Capacity = 45
    SstContents <- SmallTables
    Keys <- LookedUp
    MaxSsts = 3
INVARIANTS
    ReadInv
    ReadsExact
    CacheCoherent
    CacheAccounted
    LruOrder
CHECK_DEADLOCK FALSE
