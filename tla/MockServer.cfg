\* Any clients, any loss of a link, a signal at any time, any port.
CONSTANTS
    Never = Never
    SeqMod = 2
    MaxWaiting = 1
    MaxInFlight = 1
    MaxAge = 2
    SigPipe = TRUE
    Options <- MCOptions
SPECIFICATION FairSpec
INVARIANTS
    TypeOK
PROPERTIES
    ReportsInOrder
    KeepsPoliteClient
    ListeningEndsInOrder
    SignalEndsProcess
    ClientGivesWay
    ReportsGoOn
\* The process ends.
CHECK_DEADLOCK FALSE
