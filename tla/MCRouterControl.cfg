SPECIFICATION FairSpec
CONSTANTS
    Fds = {3, 4, 5, 6}
    Nodes = {n1, n2}
    NULL = NULL
    Topologies <- ThreeRouters
    Intervals = {1}
    MayCut = TRUE
    MaxOpen = 2
    MaxConns = 3
    MaxMsgs = 1
    MaxInits = 1
INVARIANTS
    TypeOK
    WatchesWhatIsOpen
    VisitsOnlyReadable
    ExactUntilFreed
PROPERTIES
    CloseIsNoticed
    WaitingIsAccepted
CHECK_DEADLOCK FALSE
