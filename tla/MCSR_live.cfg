SPECIFICATION PatientFairSpec
CONSTANTS
    WINDOW = 3
    MaxMsgs = 3
    MaxChan = 3
    TIMEOUT = 1
    MaxDrift = 1
    Corruptions = {"payload"}
PROPERTIES
    WindowDrains
    ImplementsFairDelivery
CHECK_DEADLOCK FALSE
