SPECIFICATION FairSpec
CONSTANTS
    Cells = {1, 2, 3, 4, 5, 6, 7}
    NULL = NULL
    nsimmax = 2
    Arrivals = {0, 2}
    Delays = {1}
    Increments = {1, 2}
    Exact = 100
    MaxChan = 2
    MaxCalls = 2
INVARIANTS
    TypeOK
    WellLinked
    InTimeOrder
PROPERTIES
    ImplementsMedium
    RunEnds
CHECK_DEADLOCK FALSE
