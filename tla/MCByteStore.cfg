SPECIFICATION Spec
CONSTANTS
    Base = 16
    U32 = 2
    U64 = 2
    Keys <- SmallKeys
    Puts <- SmallPuts
    TTLs = {1}
    Batches <- SmallBatches
    BadCommands <- SmallBadCommands
    PutWord <- PutW
    DeleteWord <- DeleteW
    BatchWord <- BatchW
    ScanPrefixes <- SmallPrefixes
    MaxRecords = 2
    MaxNow = 1
    MaxOpens = 2
INVARIANTS
    ByteInv
    ReadsBack
    AckedSurvive
    OpensAgain
    PrefixScans
    BatchTaken
CHECK_DEADLOCK FALSE
