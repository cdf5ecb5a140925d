\* Two threads with kills, a full disk and streams that do not open.
CONSTANTS
    Thread = {t1, t2}
    Key = {k1}
    MaxRecords = 2
    MaxAppends = 5
    Damaged = Damaged
    NoThread = NoThread
    MaxFaults = 2
SPECIFICATION Spec
SYMMETRY Symmetry
INVARIANTS
    TypeOK
    CacheBounded
    KeepsMaxRecords
    LinesInOrder
PROPERTY
    IsJournal
\* The bound MaxAppends stops the run.
CHECK_DEADLOCK FALSE
