SPECIFICATION Spec
CONSTANTS
    WINDOW = 4
    MaxMsgs = 3
    MaxChan = 3
    TIMEOUT = 0
    MaxDrift = 2
    Corruptions = {"payload"}
INVARIANTS
    NoPanic
CHECK_DEADLOCK FALSE
