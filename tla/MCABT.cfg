SPECIFICATION FairSpec
CONSTANTS
    MaxMsgs = 3
    MaxChan = 3
    Corruptions = {"payload", "seqnum", "acknum"}
INVARIANTS
    TypeOK
    StopAndWait
    WaitingHasTimer
    IInv
PROPERTIES
    FlipsOnlyWhileWaiting
    ImplementsReliableDelivery
    SentIsAcknowledged
CHECK_DEADLOCK FALSE
