---------------------------- MODULE ScadaSystem -----------------------------
(***************************************************************************)
(* The master station (src/src/scada/ScadaSystem.cpp): one IEC 104 worker  *)
(* thread per device, which hands each information object to               *)
(* onDataObject(), one monitor thread, which raises the STALE alarms, and  *)
(* the main thread, which starts and stops the others.                     *)
(*                                                                         *)
(* Workers and monitor share the snapshots and the alarm rules under one   *)
(* mutex and the cache under another.  What they write to the cache, they  *)
(* write after they let go of the first: an action below is the work       *)
(* between two points where another thread can step in.  Each critical     *)
(* section is one action, so that the mutexes need no variable; DataCache  *)
(* shows that appendLine is atomic to its callers.                         *)
(*                                                                         *)
(* The link of a device is what Iec104Client makes of it, as DeviceLink    *)
(* tells: it comes, goes, and delivers frames of some objects.             *)
(***************************************************************************)
EXTENDS AlarmManager, CacheDisk

CONSTANTS
    Device,       \* the enabled devices
    Address,      \* information object addresses
    PointTable,   \* the configured points: from <<device, address>> to definition
    Reading,      \* bound: the value, state and quality an object may carry
    MaxObjects,   \* bound: objects in one frame
    MaxClock,     \* bound: seconds
    MaxRestarts,  \* bound: restarts of the process
    MaxFailures,  \* bound: appends to the cache file of which a part fails
    NoSnapshot,   \* a point of which no object came yet
    NoObject,     \* a worker that handles no object
    NoDevice      \* stop() is not waiting for a worker

Point == Device \X Address
Object == [address : Address, snapshot : Snapshot]

ASSUME PointTableAssumption ==
    /\ DOMAIN PointTable \subseteq Point
    /\ \A point \in DOMAIN PointTable : PointTable[point] \in PointDefinition
ASSUME ReadingAssumption ==
    Reading \subseteq [value : Int \cup {NaN}, state : BOOLEAN, quality : SUBSET QualityBits]
ASSUME BoundsAssumption ==
    MaxObjects \in Nat /\ MaxClock \in Nat /\ MaxRestarts \in Nat /\ MaxFailures \in Nat
ASSUME DistinctValues ==
    NoSnapshot \notin Snapshot /\ NoObject \notin Object /\ NoDevice \notin Device

VARIABLES
    clock,          \* the wall clock, in seconds
    restarts,       \* how often the process was started again
    main,           \* the main thread
    running,        \* ScadaSystem::running_
    toStop,         \* the devices whose client stop() has not stopped yet
    joining,        \* the device whose worker stop() waits for
    clientRunning,  \* Iec104Client::running_ of each device
    connected,      \* DeviceContext::connected, as Iec104Client::connected_
    worker,         \* where the worker of each device is
    objects,        \* the objects of its frame that the worker has yet to handle
    inHand,         \* the address and the snapshot that onDataObject works on
    events,         \* the alarm events that the worker has yet to append
    snapshots,      \* snapshots_
    active,         \* activeRules_ of each device, as sets of rules
    monitor,        \* where the monitor thread is
    now,            \* the time that the monitor read
    staleEvents,    \* the alarm events that the monitor has yet to append
    latest,         \* DataCache::latest_
    recent,         \* DataCache::recentBusiness_
    file,           \* the lines of the cache file
    torn,           \* whether the last of them lacks its end
    failures,       \* how many appends failed, in whole or in part
    missing         \* an observer: what the file has not got (see CacheDisk)

process == <<main, running, toStop, joining>>
link    == <<clientRunning, connected>>
handler == <<worker, objects, inHand, events>>
alarms  == <<snapshots, active>>
watch   == <<monitor, now, staleEvents>>
memory  == <<latest, recent>>
disk    == <<file, torn, failures, missing>>
time    == <<clock, restarts>>

vars == <<time, process, link, handler, alarms, watch, memory, disk>>

-----------------------------------------------------------------------------

(***************************************************************************)
(* The definition of a point: that of the table, or one without limits.    *)
(***************************************************************************)
Fallback ==
    [type |-> "unknown", highHigh |-> NoLimit, high |-> NoLimit,
     lowLow |-> NoLimit, low |-> NoLimit, normalState |-> NoLimit,
     staleSeconds |-> 30]

PointDefinitionFor(point) ==
    IF point \in DOMAIN PointTable THEN PointTable[point] ELSE Fallback

(***************************************************************************)
(* The lines of the cache file.                                            *)
(***************************************************************************)
DataLine(kind, point, snap) ==
    [kind |-> kind, device |-> point[1], address |-> point[2],
     value |-> snap.value, state |-> snap.state, quality |-> snap.quality]

AlarmLine(point, event) ==
    [kind |-> "ALARM", device |-> point[1], address |-> point[2],
     rule |-> event.rule, raised |-> event.raised]

(***************************************************************************)
(* A line is given to appendLine(), whose result nobody looks at.          *)
(***************************************************************************)
Disk == [file |-> file, torn |-> torn, missing |-> missing]

Becomes(after) ==
    file' = after.file /\ torn' = after.torn /\ missing' = after.missing

Write(line) ==
    \/ Becomes(AppendLine(Disk, line)) /\ UNCHANGED failures
    \/ /\ failures < MaxFailures
       /\ failures' = failures + 1
       /\ \E after \in FailedAppends(Disk, line) : Becomes(after)

-----------------------------------------------------------------------------

(***************************************************************************)
(* A process that has not called start() yet, and no cache file.           *)
(***************************************************************************)
Init ==
    /\ clock = 0
    /\ restarts = 0
    /\ file = << >>
    /\ torn = FALSE
    /\ failures = 0
    /\ missing = {}
    /\ main = "down"
    /\ running = FALSE
    /\ toStop = {}
    /\ joining = NoDevice
    /\ clientRunning = [d \in Device |-> FALSE]
    /\ connected = [d \in Device |-> FALSE]
    /\ worker = [d \in Device |-> "off"]
    /\ objects = [d \in Device |-> 0]
    /\ inHand = [d \in Device |-> NoObject]
    /\ events = [d \in Device |-> << >>]
    /\ snapshots = [p \in Point |-> NoSnapshot]
    /\ active = [p \in Point |-> {}]
    /\ monitor = "off"
    /\ now = 0
    /\ staleEvents = {}
    /\ latest = [p \in Point |-> NoSnapshot]
    /\ recent = << >>

Tick ==
    /\ clock < MaxClock
    /\ clock' = clock + 1
    /\ UNCHANGED <<restarts, process, link, handler, alarms, watch, memory, disk>>

(***************************************************************************)
(* A thread is in appendLine(), or waits for its mutex.                    *)
(***************************************************************************)
Appending ==
    \/ \E d \in Device :
         \/ worker[d] \in {"appendBusiness", "appendMeasure"}
         \/ worker[d] = "alarms" /\ events[d] # << >>
    \/ monitor = "append" /\ staleEvents # {}

(***************************************************************************)
(* The process ends, at its own wish or killed, and is started again.      *)
(* Only the file is left of what it knew, and of that less, if a thread    *)
(* was trimming it.  (No line is missing for the new process, which has    *)
(* given none to the cache.)                                               *)
(***************************************************************************)
Restart ==
    /\ main # "down"
    /\ restarts < MaxRestarts
    /\ restarts' = restarts + 1
    /\ main' = "down"
    /\ running' = FALSE
    /\ toStop' = {}
    /\ joining' = NoDevice
    /\ clientRunning' = [d \in Device |-> FALSE]
    /\ connected' = [d \in Device |-> FALSE]
    /\ worker' = [d \in Device |-> "off"]
    /\ objects' = [d \in Device |-> 0]
    /\ inHand' = [d \in Device |-> NoObject]
    /\ events' = [d \in Device |-> << >>]
    /\ snapshots' = [p \in Point |-> NoSnapshot]
    /\ active' = [p \in Point |-> {}]
    /\ monitor' = "off"
    /\ now' = 0
    /\ staleEvents' = {}
    /\ latest' = [p \in Point |-> NoSnapshot]
    /\ recent' = << >>
    /\ \E after \in {Disk} \cup (IF Appending THEN {Trim(Disk)} \cup CutShort(Disk) ELSE {}) :
         file' = after.file /\ torn' = after.torn
    /\ missing' = {}
    /\ UNCHANGED <<clock, failures>>

-----------------------------------------------------------------------------
(* The main thread. *)

(***************************************************************************)
(* start(): the threads may begin at once or at any later time, so that    *)
(* the order in which it creates them does not show.                       *)
(***************************************************************************)
Start ==
    /\ main = "down"
    /\ main' = "up"
    /\ running' = TRUE
    /\ clientRunning' = [d \in Device |-> TRUE]
    /\ worker' = [d \in Device |-> "loop"]
    /\ monitor' = "check"
    /\ UNCHANGED <<time, toStop, joining, connected, objects, inHand, events,
                   alarms, now, staleEvents, memory, disk>>

(***************************************************************************)
(* stop(): it stops the clients one after the other, each by clearing its  *)
(* flag and joining its worker, and joins the monitor at last.  The order  *)
(* of the devices is left open.                                            *)
(***************************************************************************)
Stop ==
    /\ main = "up"
    /\ main' = "stopping"
    /\ running' = FALSE
    /\ toStop' = Device
    /\ UNCHANGED <<time, joining, link, handler, alarms, watch, memory, disk>>

(***************************************************************************)
(* A mutant: stop() joins a worker that it did not tell to stop.           *)
(***************************************************************************)
StopClientJoins(d) ==
    /\ main = "stopping"
    /\ joining = NoDevice
    /\ d \in toStop
    /\ toStop' = toStop \ {d}
    /\ joining' = d
    /\ UNCHANGED <<time, main, running, link, handler, alarms, watch, memory, disk>>

StopClient(d) ==
    /\ main = "stopping"
    /\ joining = NoDevice
    /\ d \in toStop
    /\ toStop' = toStop \ {d}
    /\ joining' = d
    /\ clientRunning' = [clientRunning EXCEPT ![d] = FALSE]
    /\ UNCHANGED <<time, main, running, connected, handler, alarms, watch, memory, disk>>

(***************************************************************************)
(* A mutant: stop() does not wait for the worker.                          *)
(***************************************************************************)
JoinWorkerEarly(d) ==
    /\ joining = d
    /\ joining' = NoDevice
    /\ connected' = [connected EXCEPT ![d] = FALSE]
    /\ UNCHANGED <<time, main, running, toStop, clientRunning, handler, alarms, watch, memory, disk>>

JoinWorker(d) ==
    /\ joining = d
    /\ worker[d] = "done"
    /\ joining' = NoDevice
    /\ connected' = [connected EXCEPT ![d] = FALSE]
    /\ UNCHANGED <<time, main, running, toStop, clientRunning, handler, alarms, watch, memory, disk>>

(***************************************************************************)
(* A mutant: stop() does not wait for the monitor.                         *)
(***************************************************************************)
JoinMonitorEarly ==
    /\ main = "stopping"
    /\ toStop = {}
    /\ joining = NoDevice
    /\ main' = "stopped"
    /\ UNCHANGED <<time, running, toStop, joining, link, handler, alarms, watch, memory, disk>>

JoinMonitor ==
    /\ main = "stopping"
    /\ toStop = {}
    /\ joining = NoDevice
    /\ monitor = "done"
    /\ main' = "stopped"
    /\ UNCHANGED <<time, running, toStop, joining, link, handler, alarms, watch, memory, disk>>

-----------------------------------------------------------------------------
(* The worker of a device. *)

Goto(d, label) == worker' = [worker EXCEPT ![d] = label]

(***************************************************************************)
(* The link of a device comes up or goes down: Iec104Client reports each   *)
(* change to onConnectionChanged().  A connection that the stopped client  *)
(* was still waiting for may come up too.                                  *)
(***************************************************************************)
ConnectionChanged(d) ==
    /\ worker[d] = "loop"
    /\ connected' = [connected EXCEPT ![d] = ~@]
    /\ UNCHANGED <<time, process, clientRunning, handler, alarms, watch, memory, disk>>

(***************************************************************************)
(* A mutant: a client that was stopped goes on reading.                    *)
(***************************************************************************)
ReceiveFrameAnyway(d) ==
    /\ worker[d] = "loop"
    /\ connected[d]
    /\ Goto(d, "read")
    /\ UNCHANGED <<time, process, link, objects, inHand, events, alarms, watch, memory, disk>>

(***************************************************************************)
(* The worker begins to read a frame, which it does only while the client  *)
(* runs.  It goes on with it even if the client is stopped meanwhile.      *)
(***************************************************************************)
ReceiveFrame(d) ==
    /\ worker[d] = "loop"
    /\ clientRunning[d]
    /\ connected[d]
    /\ Goto(d, "read")
    /\ UNCHANGED <<time, process, link, objects, inHand, events, alarms, watch, memory, disk>>

(***************************************************************************)
(* The frame has no object, or its link fails before it is acknowledged.   *)
(***************************************************************************)
FrameRefused(d) ==
    /\ worker[d] = "read"
    /\ \E up \in {connected[d], FALSE} : connected' = [connected EXCEPT ![d] = up]
    /\ Goto(d, "loop")
    /\ UNCHANGED <<time, process, clientRunning, objects, inHand, events, alarms, watch, memory, disk>>

FrameAccepted(d) ==
    /\ worker[d] = "read"
    /\ \E n \in 1..MaxObjects : objects' = [objects EXCEPT ![d] = n]
    /\ Goto(d, "frame")
    /\ UNCHANGED <<time, process, link, inHand, events, alarms, watch, memory, disk>>

(***************************************************************************)
(* A mutant: one object more than the frame holds.                         *)
(***************************************************************************)
ReceiveObjectMore(d) ==
    /\ worker[d] = "frame"
    /\ objects' = [objects EXCEPT ![d] = @ - 1]
    /\ \E a \in Address, r \in Reading :
         inHand' = [inHand EXCEPT ![d] =
                      [address |-> a,
                       snapshot |-> [value |-> r.value, state |-> r.state,
                                     quality |-> r.quality, timestamp |-> clock]]]
    /\ Goto(d, "evaluate")
    /\ UNCHANGED <<time, process, link, events, alarms, watch, memory, disk>>

(***************************************************************************)
(* onDataObject() builds the snapshot, and reads the clock for it before   *)
(* it asks for the mutex.                                                  *)
(***************************************************************************)
ReceiveObject(d) ==
    /\ worker[d] = "frame"
    /\ objects[d] > 0
    /\ objects' = [objects EXCEPT ![d] = @ - 1]
    /\ \E a \in Address, r \in Reading :
         inHand' = [inHand EXCEPT ![d] =
                      [address |-> a,
                       snapshot |-> [value |-> r.value, state |-> r.state,
                                     quality |-> r.quality, timestamp |-> clock]]]
    /\ Goto(d, "evaluate")
    /\ UNCHANGED <<time, process, link, events, alarms, watch, memory, disk>>

PointInHand(d) == <<d, inHand[d].address>>

(***************************************************************************)
(* The critical section of onDataObject().                                 *)
(***************************************************************************)
EvaluateObject(d) ==
    LET point == PointInHand(d)
        after == Evaluate(PointDefinitionFor(point), inHand[d].snapshot, active[point])
    IN  /\ worker[d] = "evaluate"
        /\ snapshots' = [snapshots EXCEPT ![point] = inHand[d].snapshot]
        /\ active' = [active EXCEPT ![point] = after]
        /\ events' = [events EXCEPT ![d] = Events(active[point], after)]
        /\ Goto(d, "rememberBusiness")
        /\ UNCHANGED <<time, process, link, objects, inHand, watch, memory, disk>>

(***************************************************************************)
(* A mutant: the business data does not reach latest_.                     *)
(***************************************************************************)
RememberRecentOnly(d) ==
    /\ worker[d] = "rememberBusiness"
    /\ recent' = RememberRecent(recent, DataLine("BUSINESS", PointInHand(d), inHand[d].snapshot))
    /\ Goto(d, "appendBusiness")
    /\ UNCHANGED <<time, process, link, objects, inHand, events, alarms, watch, latest, disk>>

(***************************************************************************)
(* appendBusinessData(): the memory, and then the file.                    *)
(***************************************************************************)
RememberBusiness(d) ==
    /\ worker[d] = "rememberBusiness"
    /\ latest' = [latest EXCEPT ![PointInHand(d)] = inHand[d].snapshot]
    /\ recent' = RememberRecent(recent, DataLine("BUSINESS", PointInHand(d), inHand[d].snapshot))
    /\ Goto(d, "appendBusiness")
    /\ UNCHANGED <<time, process, link, objects, inHand, events, alarms, watch, disk>>

AppendBusiness(d) ==
    /\ worker[d] = "appendBusiness"
    /\ Write(DataLine("BUSINESS", PointInHand(d), inHand[d].snapshot))
    /\ Goto(d, "rememberMeasure")
    /\ UNCHANGED <<time, process, link, objects, inHand, events, alarms, watch, memory>>

(***************************************************************************)
(* appendMeasurement(): the memory, and then the file.                     *)
(***************************************************************************)
RememberMeasurement(d) ==
    /\ worker[d] = "rememberMeasure"
    /\ latest' = [latest EXCEPT ![PointInHand(d)] = inHand[d].snapshot]
    /\ Goto(d, "appendMeasure")
    /\ UNCHANGED <<time, process, link, objects, inHand, events, alarms, watch, recent, disk>>

AppendMeasurement(d) ==
    /\ worker[d] = "appendMeasure"
    /\ Write(DataLine("MEASURE", PointInHand(d), inHand[d].snapshot))
    /\ Goto(d, "alarms")
    /\ UNCHANGED <<time, process, link, objects, inHand, events, alarms, watch, memory>>

AppendAlarm(d) ==
    /\ worker[d] = "alarms"
    /\ events[d] # << >>
    /\ Write(AlarmLine(PointInHand(d), Head(events[d])))
    /\ events' = [events EXCEPT ![d] = Tail(@)]
    /\ UNCHANGED <<time, process, link, worker, objects, inHand, alarms, watch, memory>>

ObjectHandled(d) ==
    /\ worker[d] = "alarms"
    /\ events[d] = << >>
    /\ inHand' = [inHand EXCEPT ![d] = NoObject]
    /\ Goto(d, "frame")
    /\ UNCHANGED <<time, process, link, objects, events, alarms, watch, memory, disk>>

FrameHandled(d) ==
    /\ worker[d] = "frame"
    /\ objects[d] = 0
    /\ Goto(d, "loop")
    /\ UNCHANGED <<time, process, link, objects, inHand, events, alarms, watch, memory, disk>>

(***************************************************************************)
(* The worker sees that the client was stopped, closes its link and ends.  *)
(***************************************************************************)
WorkerEnds(d) ==
    /\ worker[d] = "loop"
    /\ ~clientRunning[d]
    /\ connected' = [connected EXCEPT ![d] = FALSE]
    /\ Goto(d, "done")
    /\ UNCHANGED <<time, process, clientRunning, objects, inHand, events, alarms, watch, memory, disk>>

(***************************************************************************)
(* What a worker does without waiting for its link.                        *)
(***************************************************************************)
Handle(d) ==
    \/ FrameRefused(d) \/ FrameAccepted(d)
    \/ ReceiveObject(d) \/ EvaluateObject(d)
    \/ RememberBusiness(d) \/ AppendBusiness(d)
    \/ RememberMeasurement(d) \/ AppendMeasurement(d)
    \/ AppendAlarm(d) \/ ObjectHandled(d) \/ FrameHandled(d)

-----------------------------------------------------------------------------
(* The monitor thread. *)

MonitorChecks ==
    /\ monitor = "check"
    /\ monitor' = IF running THEN "sleep" ELSE "done"
    /\ UNCHANGED <<time, process, link, handler, alarms, now, staleEvents, memory, disk>>

(***************************************************************************)
(* The monitor slept for statusIntervalMs and reads the clock, before it   *)
(* asks for the mutex.                                                     *)
(***************************************************************************)
MonitorWakes ==
    /\ monitor = "sleep"
    /\ now' = clock
    /\ monitor' = "scan"
    /\ UNCHANGED <<time, process, link, handler, alarms, staleEvents, memory, disk>>

(***************************************************************************)
(* Mutants: stale at the limit; a point without data is not stale.         *)
(***************************************************************************)
IsStaleAtLimit(point) ==
    \/ snapshots[point] = NoSnapshot
    \/ now - snapshots[point].timestamp >= PointTable[point].staleSeconds

IsStaleOnceSeen(point) ==
    /\ snapshots[point] # NoSnapshot
    /\ now - snapshots[point].timestamp > PointTable[point].staleSeconds

(***************************************************************************)
(* A point is stale if no object came, or if the last is older than the    *)
(* configured window.                                                      *)
(***************************************************************************)
IsStale(point) ==
    \/ snapshots[point] = NoSnapshot
    \/ now - snapshots[point].timestamp > PointTable[point].staleSeconds

(***************************************************************************)
(* The critical section of the monitor covers every configured point.      *)
(***************************************************************************)
MonitorScans ==
    LET after == [p \in Point |-> IF p \in DOMAIN PointTable
                                  THEN EvaluateStale(IsStale(p), active[p]) ELSE active[p]]
    IN  /\ monitor = "scan"
        /\ active' = after
        /\ staleEvents' = {[point |-> p, rule |-> "STALE", raised |-> "STALE" \in after[p]] :
                             p \in {q \in Point : after[q] # active[q]}}
        /\ monitor' = "append"
        /\ UNCHANGED <<time, process, link, handler, snapshots, now, memory, disk>>

(***************************************************************************)
(* It appends an event for each point that changed.  Their order, which is *)
(* that of the configuration, is left open.  (now is a local variable: it  *)
(* is 0 where it is out of scope.)                                         *)
(***************************************************************************)
MonitorAppends ==
    /\ monitor = "append"
    /\ \E event \in staleEvents :
         /\ Write(AlarmLine(event.point, event))
         /\ staleEvents' = staleEvents \ {event}
    /\ UNCHANGED <<time, process, link, handler, alarms, monitor, now, memory>>

MonitorDone ==
    /\ monitor = "append"
    /\ staleEvents = {}
    /\ monitor' = "check"
    /\ now' = 0
    /\ UNCHANGED <<time, process, link, handler, alarms, staleEvents, memory, disk>>

Monitor ==
    MonitorChecks \/ MonitorWakes \/ MonitorScans \/ MonitorAppends \/ MonitorDone

-----------------------------------------------------------------------------

Stopping == (\E d \in Device : StopClient(d) \/ JoinWorker(d)) \/ JoinMonitor

Next ==
    \/ Tick
    \/ Restart
    \/ Start
    \/ Stop
    \/ Stopping
    \/ \E d \in Device :
         ConnectionChanged(d) \/ ReceiveFrame(d) \/ Handle(d) \/ WorkerEnds(d)
    \/ Monitor

Spec == Init /\ [][Next]_vars

(***************************************************************************)
(* The threads that can go on do.  A mutex is held for one action only, so *)
(* that no thread waits for one that waits.  Nothing obliges the links to  *)
(* deliver, the user to stop the program, or the process to restart.       *)
(***************************************************************************)
Fairness ==
    /\ \A d \in Device : WF_vars(Handle(d)) /\ WF_vars(WorkerEnds(d))
    /\ WF_vars(Monitor)
    /\ WF_vars(Stopping)

FairSpec == Spec /\ Fairness

-----------------------------------------------------------------------------

Line ==
    [kind : {"BUSINESS", "MEASURE"}, device : Device, address : Address,
     value : Int \cup {NaN}, state : BOOLEAN, quality : SUBSET QualityBits]
      \cup [kind : {"ALARM"}, device : Device, address : Address,
            rule : Rules, raised : BOOLEAN]
      \cup {Damaged}

WorkerStates ==
    {"off", "loop", "read", "frame", "evaluate", "rememberBusiness", "appendBusiness",
     "rememberMeasure", "appendMeasure", "alarms", "done"}

(***************************************************************************)
(* Types of the variables.                                                 *)
(***************************************************************************)
TypeOK ==
    /\ clock \in 0..MaxClock
    /\ restarts \in 0..MaxRestarts
    /\ main \in {"down", "up", "stopping", "stopped"}
    /\ running \in BOOLEAN
    /\ toStop \subseteq Device
    /\ joining \in Device \cup {NoDevice}
    /\ clientRunning \in [Device -> BOOLEAN]
    /\ connected \in [Device -> BOOLEAN]
    /\ worker \in [Device -> WorkerStates]
    /\ objects \in [Device -> 0..MaxObjects]
    /\ inHand \in [Device -> Object \cup {NoObject}]
    /\ events \in [Device -> Seq([rule : Rules, raised : BOOLEAN])]
    /\ snapshots \in [Point -> Snapshot \cup {NoSnapshot}]
    /\ active \in [Point -> SUBSET Rules]
    /\ monitor \in {"off", "check", "sleep", "scan", "append", "done"}
    /\ now \in 0..MaxClock
    /\ staleEvents \subseteq [point : Point, rule : {"STALE"}, raised : BOOLEAN]
    /\ latest \in [Point -> Snapshot \cup {NoSnapshot}]
    /\ recent \in Seq(Line)
    /\ file \in Seq(Line)
    /\ torn \in BOOLEAN
    /\ failures \in 0..MaxFailures
    /\ missing \subseteq Device \X Address \X (Rules \cup {"MEASURE"})

(***************************************************************************)
(* Except for STALE, the standing alarms of a point are exactly those that *)
(* its last snapshot calls for: no interleaving of the worker, the monitor *)
(* and stop() leaves a rule over from an older value (onDataObject         *)
(* replaces the snapshot and evaluates it in one critical section).        *)
(***************************************************************************)
AlarmsAgreeWithSnapshot ==
    \A p \in Point :
      active[p] \ {"STALE"} =
        IF snapshots[p] = NoSnapshot THEN {}
        ELSE Conditions(PointDefinitionFor(p), snapshots[p])

(***************************************************************************)
(* A standing STALE alarm is true: the point is configured, and no object  *)
(* came for longer than its window.  The monitor reads the clock before it *)
(* takes the mutex, and the worker before it stores: neither may make a    *)
(* fresh point stale.                                                      *)
(***************************************************************************)
StaleIsTrue ==
    \A p \in Point :
      "STALE" \in active[p] =>
        /\ p \in DOMAIN PointTable
        /\ \/ snapshots[p] = NoSnapshot
           \/ clock - snapshots[p].timestamp > PointTable[p].staleSeconds

(***************************************************************************)
(* latest_ of the cache and snapshots_ of the system hold the same         *)
(* snapshot of every point, except of the one in the hands of its worker:  *)
(* two maps under two mutexes that the worker updates one after the other. *)
(***************************************************************************)
LatestAgrees ==
    \A p \in Point :
      \/ latest[p] = snapshots[p]
      \/ /\ worker[p[1]] = "rememberBusiness"
         /\ inHand[p[1]].address = p[2]
         /\ inHand[p[1]].snapshot = snapshots[p]

(***************************************************************************)
(* When stop() has returned, no thread is left and every device is shown   *)
(* offline, whatever the workers were doing when they were stopped.        *)
(***************************************************************************)
StoppedIsQuiet ==
    main = "stopped" =>
      /\ monitor = "done"
      /\ \A d \in Device : worker[d] = "done" /\ ~connected[d] /\ events[d] = << >>

(***************************************************************************)
(* The cache file does not change any more when stop() has returned:       *)
(* the destructor of the cache runs next.                                  *)
(***************************************************************************)
FileRestsWhenStopped == [][main = "stopped" => UNCHANGED file]_vars

(***************************************************************************)
(* stop() returns: it joins every worker in turn and then the monitor, and *)
(* none of them waits for it.                                              *)
(***************************************************************************)
StopReturns == main = "stopping" ~> main # "stopping"

(***************************************************************************)
(* A configured point whose data stays too old is marked STALE again and   *)
(* again: neither a busy worker nor the clock that the monitor reads too   *)
(* early may keep the alarm away for good.                                 *)
(***************************************************************************)
TooOld(p) ==
    /\ running
    /\ \/ snapshots[p] = NoSnapshot
       \/ clock - snapshots[p].timestamp > PointTable[p].staleSeconds

SilenceIsNoticed ==
    \A p \in DOMAIN PointTable : <>[]TooOld(p) => []<>("STALE" \in active[p])

(***************************************************************************)
(* The links as DeviceLink sees them: the worker is at a frame until the   *)
(* last of its objects is handled.                                         *)
(***************************************************************************)
Thread(d) ==
    IF worker[d] \in {"off", "loop", "read", "done"} THEN worker[d] ELSE "frame"

Link(d) == INSTANCE DeviceLink WITH
    running <- clientRunning[d], connected <- connected[d],
    thread <- Thread(d), objects <- objects[d]

(***************************************************************************)
(* The system deals with the client of each device as DeviceLink allows,   *)
(* which Iec104Client implements: what holds here with the links as they   *)
(* are in this module, holds with the clients of the code.  (start() and   *)
(* stop() of ScadaSystem start and stop them; onDataObject() is called for *)
(* each object of a frame.)                                                *)
(***************************************************************************)
LinksAreDeviceLinks ==
    /\ \A d \in Device : Link(d)!Init
    /\ [][\A d \in Device : [Link(d)!Next]_(Link(d)!vars)]_vars

-----------------------------------------------------------------------------

(***************************************************************************)
(* What the invariants above rest on: each part holds whatever happens, if *)
(* the others do.                                                          *)
(***************************************************************************)
Busy == {"evaluate", "rememberBusiness", "appendBusiness", "rememberMeasure",
         "appendMeasure", "alarms"}

NotStarted == main = "down" => \A d \in Device : worker[d] = "off"

HasObject == \A d \in Device : worker[d] \in Busy => inHand[d] # NoObject

StoredInHand ==
    \A d \in Device :
      worker[d] \in Busy \ {"evaluate"} =>
        snapshots[PointInHand(d)] = inHand[d].snapshot

EventsWhileBusy == \A d \in Device : events[d] # << >> => worker[d] \in Busy

NowIsPast == now <= clock

JoinedInTurn ==
    /\ joining # NoDevice => main = "stopping"
    /\ main \in {"stopping", "stopped"} =>
         \A d \in Device \ (toStop \cup {joining}) : worker[d] = "done" /\ ~connected[d]
    /\ main = "stopped" => toStop = {} /\ joining = NoDevice /\ monitor = "done"

IInv ==
    /\ TypeOK
    /\ NotStarted
    /\ HasObject
    /\ StoredInHand
    /\ EventsWhileBusy
    /\ NowIsPast
    /\ JoinedInTurn
    /\ AlarmsAgreeWithSnapshot
    /\ StaleIsTrue
    /\ LatestAgrees

=============================================================================
