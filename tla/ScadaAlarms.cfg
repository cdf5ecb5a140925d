\* One device with a measured value and a breaker.
CONSTANTS
    NoLimit = NoLimit
    NaN = NaN
    d1 = d1
    d2 = d2
    a1 = a1
    a2 = a2
    Device = {d1}
    Address = {a1, a2}
    PointTable <- TwoPoints
    Reading <- BothReadings
    MaxObjects = 1
    MaxClock = 2
    MaxRestarts = 0
    MaxFailures = 0
    MaxRecords = 1
    NoSnapshot = NoSnapshot
    NoObject = NoObject
    NoDevice = NoDevice
SPECIFICATION Spec
INVARIANTS
    TypeOK
    AlarmsAgreeWithSnapshot
    StaleIsTrue
    LatestAgrees
\* The system stops when the user stops it.
CHECK_DEADLOCK FALSE
