SPECIFICATION Spec
CONSTANTS
    Hosts = {"amy", "bob"}
    Null = "null"
    Port <- PortOf
    SLOTS = 3
    BLOCKS = 2
    MaxConns = 4
    MaxActs = 2
INVARIANTS
    RelayedToNamedHost
CHECK_DEADLOCK FALSE
