\* A point whose data stays away, with frames that may come at any time.
CONSTANTS
    NoLimit = NoLimit
    NaN = NaN
    d1 = d1
    d2 = d2
    a1 = a1
    a2 = a2
    Device = {d1}
    Address = {a1}
    PointTable <- OneAnalog
    Reading <- OneReading
    MaxObjects = 2
    MaxClock = 3
    MaxRestarts = 0
    MaxFailures = 0
    MaxRecords = 1
    NoSnapshot = NoSnapshot
    NoObject = NoObject
    NoDevice = NoDevice
SPECIFICATION FairSpec
PROPERTIES
    SilenceIsNoticed
\* The system stops when the user stops it.
CHECK_DEADLOCK FALSE
