SPECIFICATION FairSpec
CONSTANTS
    Hosts = {"amy", "bob"}
    Null = "null"
    Port <- PortOf
    SLOTS = 3
    BLOCKS = 2
    MaxConns = 4
    MaxActs = 2
INVARIANTS
    TypeOK
    OneRowPerLogin
    ListsInPortOrder
    EndForEachCommand
    IInv
PROPERTIES
    BlocksOutliveLogins
    EveryRequestIsHandled
CHECK_DEADLOCK FALSE
