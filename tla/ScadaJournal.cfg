\* A device and the monitor append to one file; two appends fail at any point, in
\* whole or in part, and the process ends at any point and is started again.
CONSTANTS
    NoLimit = NoLimit
    NaN = NaN
    d1 = d1
    d2 = d2
    a1 = a1
    a2 = a2
    Device = {d1}
    Address = {a1}
    PointTable <- OneAnalog
    Reading <- QualityReadings
    MaxObjects = 1
    MaxClock = 0
    MaxRestarts = 1
    MaxFailures = 2
    MaxRecords = 2
    NoSnapshot = NoSnapshot
    NoObject = NoObject
    NoDevice = NoDevice
SPECIFICATION Spec
INVARIANTS
    JournalAgrees
    RaisedLinesExplained
    ReportShowsLatest
    WorkedAlarmsStand
\* The system stops when the user stops it.
CHECK_DEADLOCK FALSE
