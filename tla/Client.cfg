\* Any peer, any loss of the link, start and stop at any time.
CONSTANTS
    HeartbeatInterval = 2
    HeartbeatTimeout = 2
    SeqMod = 3
    MaxInFlight = 2
    MaxObjects = 1
    SigPipe = TRUE
SPECIFICATION FairSpec
INVARIANTS
    TypeOK
    AckedIsHandedOver
    FramesInOrder
PROPERTIES
    IsDeviceLink
    StopCompletes
    LostLinkIsRetried
    HeartbeatDecides
\* A killed process does nothing more.
CHECK_DEADLOCK FALSE
