SPECIFICATION FairSpec
CONSTANTS
    Owners = {o1, o2}
    Requests = {r1}
    Server = server
    Nobody = Nobody
    MaxCalls = 3
INVARIANTS
    TypeOK
    Exclusive
    ReadsRecent
    MetricsExact
PROPERTIES
    PanicHidden
    CallsReturn
CHECK_DEADLOCK FALSE
