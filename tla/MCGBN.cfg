SPECIFICATION FairSpec
CONSTANTS
    WINDOW = 3
    MaxMsgs = 4
    MaxChan = 2
    Corruptions = {"payload"}
INVARIANTS
    TypeOK
    WindowShape
    TimerIffOutstanding
    AckedImpliesDelivered
    IInv
PROPERTIES
    EveryPacketAcknowledged
    ImplementsFairDelivery
CHECK_DEADLOCK FALSE
