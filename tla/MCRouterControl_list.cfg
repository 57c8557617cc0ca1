SPECIFICATION Spec
CONSTANTS
    Fds = {3, 4, 5}
    Nodes = {n1, n2}
    NULL = NULL
    Topologies <- ThreeRouters
    Intervals = {1}
    MayCut = FALSE
    MaxOpen = 2
    MaxConns = 2
    MaxMsgs = 0
    MaxInits = 0
INVARIANTS
    ActiveConnectionsListed
CHECK_DEADLOCK FALSE
