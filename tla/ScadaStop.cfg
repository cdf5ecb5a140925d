\* stop() against two busy workers and the monitor.
CONSTANTS
    NoLimit = NoLimit
    NaN = NaN
    d1 = d1
    d2 = d2
    a1 = a1
    a2 = a2
    Device = {d1, d2}
    Address = {a1}
    PointTable <- OneAnalog
    Reading <- OneReading
    MaxObjects = 2
    MaxClock = 0
    MaxRestarts = 0
    MaxFailures = 0
    MaxRecords = 1
    NoSnapshot = NoSnapshot
    NoObject = NoObject
    NoDevice = NoDevice
SPECIFICATION FairSpec
INVARIANTS
    StoppedIsQuiet
PROPERTIES
    FileRestsWhenStopped
    StopReturns
    LinksAreDeviceLinks
\* The system stops when the user stops it.
CHECK_DEADLOCK FALSE
