\* The trim drops the RAISED line of an alarm that stands.
CONSTANTS
    NoLimit = NoLimit
    NaN = NaN
    d1 = d1
    d2 = d2
    a1 = a1
    a2 = a2
    Device = {d1}
    Address = {a1}
    PointTable <- NoPoints
    Reading <- QualityReadings
    MaxObjects = 1
    MaxClock = 3
    MaxRestarts = 0
    MaxFailures = 0
    MaxRecords = 3
    NoSnapshot = NoSnapshot
    NoObject = NoObject
    NoDevice = NoDevice
SPECIFICATION Spec
INVARIANTS
    StandingAlarmsReported
\* The system stops when the user stops it.
CHECK_DEADLOCK FALSE
