\* The worker and the monitor append the lines of one STALE alarm.
CONSTANTS
    NoLimit = NoLimit
    NaN = NaN
    d1 = d1
    d2 = d2
    a1 = a1
    a2 = a2
    Device = {d1}
    Address = {a1}
    PointTable <- OneAnalog
    Reading <- OneReading
    MaxObjects = 1
    MaxClock = 3
    MaxRestarts = 0
    MaxFailures = 0
    MaxRecords = 6
    NoSnapshot = NoSnapshot
    NoObject = NoObject
    NoDevice = NoDevice
SPECIFICATION Spec
INVARIANTS
    ReportedAlarmsStand
\* The system stops when the user stops it.
CHECK_DEADLOCK FALSE
