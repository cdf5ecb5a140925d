\* The peer closes with frames still on their way.
CONSTANTS
    HeartbeatInterval = 1
    HeartbeatTimeout = 1
    SeqMod = 2
    MaxInFlight = 2
    MaxObjects = 1
    SigPipe = TRUE
SPECIFICATION Spec
INVARIANTS
    LostLinkIsSurvived
\* A killed process does nothing more.
CHECK_DEADLOCK FALSE
