SPECIFICATION Spec
CONSTANTS
    WINDOW = 3
    MaxMsgs = 4
    MaxChan = 2
    TIMEOUT = 0
    MaxDrift = 2
    Corruptions = {"payload"}
INVARIANTS
    TypeOK
    ReceiverWindow
    AckMeansReceived
    TimerFlagExact
CHECK_DEADLOCK FALSE
