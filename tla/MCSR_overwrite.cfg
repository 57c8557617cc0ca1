SPECIFICATION PatientSpec
CONSTANTS
    WINDOW = 2
    MaxMsgs = 3
    MaxChan = 2
    TIMEOUT = 1
    MaxDrift = 2
    Corruptions = {"payload"}
INVARIANTS
    UnreceivedIsKept
CHECK_DEADLOCK FALSE
