# A verification of the SCADA IEC 104 master station

This directory holds TLA+ specifications of the program in this repository: a
master station that connects to remote terminal units (RTUs) by IEC 60870-5-104,
evaluates alarms on what they send, and journals everything in a text file. The
specifications are checked with TLC on small instances. Every invariant and every
refinement that TLC checks is also proved with TLAPS, for instances of any size; the
liveness properties are not.
Paths of the program are given from the repository's root (`src/...`, `include/...`).

## The system

```
 RTU 1 --TCP--> Iec104Client worker 1 --+                       +--> snapshots_, AlarmManager (mutex_)
 RTU 2 --TCP--> Iec104Client worker 2 --+--> onDataObject() ----+
                                        |                       +--> DataCache (its own mutex) --> cache.log
             monitor thread ------------+--> monitorLoop() -----+                                     |
 main thread: start(), stop()                                                        scada_cache_report (by hand)
```

| Component | State | Operations | What makes it correct |
|---|---|---|---|
| `ScadaSystem` | `running_`, `snapshots_`, one `DeviceContext` per device, the monitor thread | `start`, `stop`, `onDataObject` and `onConnectionChanged` (called by workers), `monitorLoop` | alarms agree with the data; `stop()` returns and leaves nothing running |
| `AlarmManager` | `activeRules_`: rule of an address -> bool | `evaluate`, `evaluateStale`, `transition` | one event per flip, none otherwise; the outer limit silences the inner one |
| `DataCache` | `latest_`, `recentBusiness_`, the file | `appendBusinessData`, `appendMeasurement`, `appendAlarm` | the file is an ordered, bounded journal |
| `Iec104Client` | `running_`, `connected_`, `receiveSequence_`, the heartbeat of a connection | `start`, `stop`, `run` (a thread) | no frame lost, repeated or handed over after it was refused; a dead link is noticed; `stop()` returns |
| `TcpClient`, `SocketCompat` | a socket | connect, send all, receive exactly, close, wait | each wait has a timeout |
| `Iec104Frame` | none | build and parse frames | what is built is parsed back; sequence numbers wrap at 2^15; a count that promises too much is not believed |
| `scada_cache_report` | none | replay of the file | shows the latest measurement of a point and the alarms that stand |
| `Config` | the maps of devices and points that `load` fills | `load`, `defaults` | a device and a point get what the file, read as a whole, says of them |
| `Logger` | a log file | `info`, `warn`, ... | |
| `MockIec104Server` | `running_`, one client at a time | `start`, `stop`, `run`, `serveClient` | numbers its reports, keeps a client that behaves, lets go of the others, ends when told to |
| `iec104_probe` | a connection, `stats` | a sequential loop | counts and shows what was sent, acknowledges it, ends after its deadline |

The parts meet in three places. A worker calls `onDataObject` for each object of
a frame and `onConnectionChanged` for each change of its link, synchronously.
Workers and monitor share `snapshots_` and the alarm rules under
`ScadaSystem::mutex_`, but write to the cache after they released it, under the
cache's own mutex. The report, another process, reads the file.

What is hard: the stretch between the release of `mutex_` and the line in the
file; the monitor, which changes the STALE rule that the workers change too;
`stop()`, which clears flags that the threads look at only now and then; the end
of the process at any point, of which only the file is left; a file that is
truncated in place and written again; the timeouts of a link, which run while
the worker is busy reading; and what TCP makes of a peer that closes, resets or
falls silent. `PROJECT.json` lists these hazards at their lines.

## The modules

| Module | Models | Notes |
|---|---|---|
| `AlarmManager` | `AlarmManager.cpp` | operators only; `activeRules_` of an address is the set of its active rules |
| `DataCacheOps` | what an append computes | operators; used by the modules below |
| `DataCache` | `DataCache.cpp` | an append down to open, read, truncate, rewrite, flush; threads, crashes, a full disk, streams that do not open |
| `CacheDisk` | `appendLine` as its callers see it | one step from the file before to the file after, with the outcomes of an append that fails |
| `Journal` | the promise of the cache file | abstract; `DataCache!IsJournal` is the refinement |
| `CacheReport` | the replay in `scada_cache_report.cpp` | a recursive function over the lines |
| `ScadaSystem` | `ScadaSystem.cpp`, and `start`/`stop` by `main_client.cpp` | workers, monitor, main thread |
| `ScadaReport` | `ScadaSystem` with `CacheReport` | properties that relate the file to the running system |
| `DeviceLink` | the promise of one client to `ScadaSystem` | abstract; where `Iec104Client` and `ScadaSystem` meet |
| `Iec104Client` | `Iec104Client.cpp` on `TcpClient.cpp` | worker, owner, and any peer and network |
| `MockIec104Server` | `MockIec104Server.cpp`, and the end of `main_mock_server.cpp` | its thread, the main thread, and any clients |
| `Iec104Frame` | `Iec104Frame.cpp` | operators on sequences of bytes |
| `Iec104Probe` | `iec104_probe.cpp`, with `Iec104Frame` | byte by byte, against any peer |
| `Config` | `Config.cpp` | one action for each kind of line |
| `MCDataCache`, `MCScada`, `MCIec104Client`, `MCMockIec104Server`, `MCIec104Probe`, `MCConfig` | | instances for TLC |
| `ScadaSystemProofs`, `ScadaReportProofs` | | theorems about `ScadaSystem`, its links and its file |
| `DataCacheProofs`, `Iec104ClientProofs`, `MockIec104ServerProofs`, `Iec104FrameProofs`, `Iec104ProbeProofs`, `ConfigProofs` | | theorems about these modules |

`MCScada` --extends--> `ScadaReport` --> `ScadaSystem` --> `AlarmManager`, `CacheDisk` --> `DataCacheOps`.
`ScadaSystem!LinksAreDeviceLinks` and `Iec104Client!IsDeviceLink` state that both
sides keep to `DeviceLink`. `DataCache!IsJournal` justifies that `ScadaSystem`
takes `appendLine` for one step, whose outcomes `CacheDisk` has. `Iec104Probe` and `Config` stand alone: the probe
is a program of its own, and what `Config` returns are the constants of `ScadaSystem`
(`PointTable`, `Device`): a device has no two points with one address, because
`Config` keys them by it.

### How state and actions correspond to the code

*ScadaSystem.* An action is the work of one thread between two points where
another can step in. A critical section (`mutex_`, or the cache's mutex) is one
action, so that no variable stands for a mutex. `onDataObject` becomes
`ReceiveObject` (the snapshot, with the clock read before the mutex is asked
for), `EvaluateObject` (the critical section), `RememberBusiness`,
`AppendBusiness`, `RememberMeasurement`, `AppendMeasurement` and one
`AppendAlarm` per event. `monitorLoop` becomes `MonitorChecks`, `MonitorWakes`
(the sleep, and the clock that is read before the mutex), `MonitorScans` and
`MonitorAppends`. `stop` is `Stop`, then `StopClient` and `JoinWorker` for each
device, then `JoinMonitor`. `Restart` ends the process at any point; while a thread is in
`appendLine`, the trim may be done, or stop anywhere in the rewrite. An append is
`Write`, which either succeeds or ends in one of `CacheDisk!FailedAppends`: a file that
does not open, a trim that misses, a rewrite or a line that is cut. The callers do not
look at the result. `torn` says whether the last line of the file lacks its end.
`missing` observes what the file has not got: the points and rules whose last line was
lost on its way or cut off. `worker`,
`monitor` and `main` are program counters; `inHand`, `events`, `now` and
`staleEvents` are the local variables of the threads. Texts, severities and log
lines are left out. A value is a number or `NaN`, an unset limit `NoLimit`, a
quality the set of its bits, and a time a whole number of seconds.

*DataCache.* `output << line` buffers the line in a stream that is destroyed, and
flushed, after `trimIfNeeded` returned and before the mutex is released: the
trim sees the file without the new line, which makes the file one line longer
than `cache_max_records`. No write is checked, so that a full disk may cut any
line, and the next one is glued to a line that lacks its end. Each of the three streams
may fail to open: the first makes `appendLine` return false (`OpenFails`), the other two
make the trim miss (`ReadFails`, `TruncateFails`) while the new line still goes out, so
that the file grows. `missed` counts the trims in a row that missed, and `kept` is the
tail of the file that only a rewrite which is cut short may lose; both observe.

*Iec104Client.* The stream of bytes is what `readApdu` makes of it: whole frames,
bytes that start no frame, frames with a refused length, the start of a frame.
`tcp` says what the connection is: up, silent (nothing arrives any more, nothing
is refused), closed by the peer, dead (closed, and our last send was answered
with a reset) or reset. `idle` and `waiting` are the ages of `lastRx` and
`heartbeatSentAt` up to the limits they are compared with. `sendSeq`, `acked`
and `handed` observe the peer's numbering and what it was told.

*MockIec104Server.* `worker` is the thread of the server, `main` the main thread,
`conn` and `rx` are the served connection as in `Iec104Client`, and `waiting`
counts the clients in the backlog of `listen`. The loop of `serveClient` is
`Drop` or `Turn` (which reads the clock once: `now` is used after a frame was
read), `Poll`, `ReadFrame`, `Answer`, then `Silent` or `BeginReport` with one
`Report` for each point. A send fails at a connection that was reset, or at a client
that does not read (`ClientStopsReading`). `heard` and `polite` observe what a client
got and how it behaved: it sends whole frames, and it reads.

*Iec104Frame and Iec104Probe.* A frame is a sequence of bytes, and the builders and
parsers are operators with the names of the code; a float is its four bytes, and
what only the texts show is left out. The probe is the loop of `main()` with
`readApdu` inlined: `SkipByte`, `ReadLength`, `ReadBody`, and `ReceiveFails` where
`receiveExact` times out or the connection ends, which gives up the bytes that
were taken. This is the `readApdu` of the client too, which `Iec104Client`
abstracts to whole frames and noise. The peer sends frames and noise, each at
once or in two pieces (`Splits`). `sent` and `acked` observe what it sent and what
it was told, and `cut` whether a read was given up within a frame. `tcp` is `stalled`
once a send was given up because the peer did not read.

*Config.* A line is what the splits at `=` and `.` make of it: a kind, a key and a
text, which is a number, `TooWide` (a number that `int` cannot hold, but `double` can) or
`Junk`. `ReadGlobal`, `ReadDevice`, `ReadBadDevice` and
`ReadLegacyPoint` are the branches of the loop in `load`, `Finish` what follows it. The
properties compare the maps that this leaves with the file read as a whole.

## The runs

| Run | Instance | What it shows |
|---|---|---|
| `cache` | 2 threads, 5 appends, 2 lines at most, 2 faults | appends are atomic (`IsJournal`), keep their order (`LinesInOrder`), keep the newest lines (`KeepsMaxRecords`) and the bound, but for trims that missed (`CacheBounded`) |
| `alarms` | 1 device, a measured value and a breaker, clock to 2 | `AlarmsAgreeWithSnapshot`, `StaleIsTrue`, `LatestAgrees` |
| `journal` | 1 device and the monitor, 2 readings, 2 lines at most, 2 failed appends, 1 restart | `JournalAgrees`: the last line about a rule is right, if the file got it; `RaisedLinesExplained`: the measurement before a RAISED line meets its rule; `ReportShowsLatest`, `WorkedAlarmsStand`: the report is right, if the file got the lines |
| `stop` | 2 devices, 2 objects per frame | `StoppedIsQuiet`, `FileRestsWhenStopped`, `StopReturns`, `LinksAreDeviceLinks` |
| `silence` | 1 measured value, clock to 3 | `SilenceIsNoticed`, a liveness property |
| `client` | interval and timeout of 2 ticks, 3 sequence numbers, 2 frames on their way | `AckedIsHandedOver`, `FramesInOrder`, `IsDeviceLink`, `StopCompletes`, `LostLinkIsRetried`, `HeartbeatDecides` |
| `mock_server` | links that drop, links that last, the scenario "stale"; 2 numbers, 1 client waiting | `ReportsInOrder`, `KeepsPoliteClient`, `ListeningEndsInOrder`, `SignalEndsProcess`, `ClientGivesWay`, `ReportsGoOn` |
| `probe` | 7 payloads, odd ones among them, noise, 2 frames after the confirmation, from number 32766 on | `CountsWhatWasSent`, `ShownAsSent`, `AckNamesNext`, `ProbeEnds` |
| `config` | 2 devices, 2 addresses, files of at most 4 lines out of 25 | `OptionsAsWritten`, `PointsAsWritten` |
| `stale_race` | 1 measured value, clock to 3, nothing is trimmed | violation, see below |
| `trimmed_alarm` | 1 point, 3 lines at most | violation, see below |
| `client_sigpipe` | a peer that closes with frames on their way | violation, see below |

*Bounds.* Two threads are enough for every race of the cache, as a third would
wait for the same mutex; two lines at most and five appends reach the trim,
the trim after a trim, and a trim after a fault; two faults are a trim that misses
after one that missed, or a cut line in a file that was cut before. Two failed appends
(`MaxFailures`) are likewise a loss that meets another, with a restart between or after
them. In `journal` the worker and the monitor are the two that append to one
file; a second worker beside failed appends is beyond the time of a run, and the theorems
are for any number of them. The clock goes one second past
the point where data is stale (`staleSeconds` is 1), and in `silence` once more, so
that a late object may clear the alarm and go stale again. A device handles its
points one after the other, so that two points on one worker, or one point on
each of two workers, show every way two points can meet. Three sequence numbers
wrap within the run. The server reads one frame between two reports and a client
sends at any time, so that one frame on its way, which is replaced as soon as it is
read, is a client that talks all the time; two ticks pass both limits of a session.
The probe reads the confirmation and two frames (`MaxSent` and `MaxFrames`), so that
the second I frame from 32766 on is acknowledged by 0; `Splits` cuts a frame after its start byte, after its length and
within its data, and `MaxWaiting` lets the peer send while a byte is unread. Four lines
are a key for all above and below the first line of a device, that line and another
one of it; the texts are 0, a number beyond 16 bits, one beyond 32, a negative one and
junk. Symmetry is used in `cache` (threads), for safety properties only. Deadlock is not checked where the
program really stops: after `stop()`, at a bound on the appends, or when
the process is killed.

*Fairness.* `FairSpec` of `ScadaSystem`: a worker that handles a frame goes on, a
stopped worker ends, the monitor goes on, and so does `stop()`. The code
justifies each: the mutexes are held for one action, and nothing that holds one
waits. Nothing obliges a link to deliver, the clock to advance, the user to stop the program or the process
to restart. `FairSpec` of `Iec104Client`: the worker goes on, because each of its
waits (`select` with a timeout before each `recv`, `send` and after `connect`,
the sleep) ends by itself; `stop()` returns once the worker ended; time passes.
The peer and the network owe nothing. `FairSpec` of `MockIec104Server` is the same
for its thread, its main thread and the clock. Its liveness properties assume that
no client keeps `readApdu` skipping bytes for good (`[]<>(worker # "scan")`), which
is the one way to hold the thread. `FairSpec` of `Iec104Probe`: the probe goes on,
because each `receiveExact` has a timeout, and its deadline comes. `ProbeEnds`
assumes that no peer keeps `readApdu` skipping bytes (`[]<>(pc # "scan")`).

## What the checks found

Three runs are violations: the code does something else than a document says.

- `stale_race`. The monitor raises STALE, releases `mutex_`, and is overtaken by a
  worker that stores an object, clears STALE and writes its CLEARED line. Then the
  monitor writes its RAISED line. The report shows an alarm that does not stand, until the next
  one of this rule (`docs/field_debug_playbook.md:109`: the alarms that are not
  recovered). `JournalAgrees` shows that the rules which only a worker changes are not
  concerned, and `WorkedAlarmsStand` says the same of the report.
- `trimmed_alarm`. The trim drops the RAISED line of an alarm that still stands
  (`README.md:89`).
- `client_sigpipe`. A peer closes the connection while at least two I frames are
  on their way. The first acknowledgement is answered with a reset, the second
  raises SIGPIPE, which nothing ignores: the process with all its devices ends
  (`README.md:50`: one RTU that goes offline does not disturb the others). In the
  other runs `SigPipe` is TRUE too, and `Killed` is an end the properties allow for.

More disagreements and surprises are part of the models without a run of their own:

- A peer that keeps sending bytes that start no frame keeps `readApdu` busy, and the
  heartbeat timeout is not looked at (`docs/field_debug_playbook.md:80`).
  `HeartbeatDecides` excludes it, and shows that this is the only way.
- The file holds one line more than `cache_max_records` (`CacheBounded` has the `+ 1`;
  `docs/project_profile.md:28`), and one more for each trim in a row that could not open it.
- A line that could not be appended is not written again, and nobody is told: the file may
  say for good that an alarm stands which was cleared, or show an older measurement, until
  the next line about the rule or the point. The properties about the file except what is
  `missing` from it, and `RaisedLinesExplained` a run in which an append failed.
- An alarm of the process before is never cleared in the file (`JournalAgrees` leaves
  this case out).
- A value that is not topical raises no alarm (`Conditions`; `README.md:143`).
- The default of the reconnect interval is 3000 ms (`DefaultClient`;
  `docs/project_profile.md:30` says 2 seconds).
- If the port is taken, `run` of the simulator clears `running_`, `stop` returns before
  it joins, and the destructor of the thread ends the process by `std::terminate`
  (`Destroy`). `ListeningEndsInOrder` shows that this happens only then.
- A read that times out within a frame gives up the bytes it took: what follows is
  searched for a start byte, and data may be counted as a frame. A start byte in the
  noise swallows the frame after it. The properties of the probe hold up to the first
  such read (`cut`).
- A key for all devices does not reach a device whose first line is above it. A line
  that begins with `device.` and says nothing turns off the built-in device and its
  points, so that no device may be left. A refused limit becomes 0, where other
  refused texts keep the old value. (`OptionsAsWritten` and `PointsAsWritten` say so.)

## What is proved

The theorems assume the `ASSUME`s of the modules: the types of the constants,
that special values (`NoSnapshot`, `NoThread`, `Damaged`, ...) are none of the others,
that `MaxRecords` is positive, which `configure` ensures, that there are sequence numbers,
and what the peer of the probe may send (see there). TLC evaluates these assumptions in every run. Two theorems
about the probe have a hypothesis of their own, `PayloadsAsRead`, and a third removes it.

Each state machine has an inductive invariant (`IInv`, with the theorem `Inductive`; in
`ConfigProofs` it is `ConfigInv`, in `Iec104ProbeProofs` it is `Inv`), which holds at first and is
preserved by every action, with a lemma for each action or group of actions. The
properties are not inductive by themselves.

### The master station

| Theorem | States | Module |
|---|---|---|
| `TypeCorrect` | `TypeOK` | `ScadaSystemProofs` |
| `AlarmsAgree` | `AlarmsAgreeWithSnapshot` | |
| `StaleTrue` | `StaleIsTrue` | |
| `LatestFollows` | `LatestAgrees` | |
| `Quiet` | `StoppedIsQuiet` | |
| `FileRests` | `FileRestsWhenStopped`, an action property | |
| `SystemUsesDeviceLinks` | `LinksAreDeviceLinks`, a refinement | |
| `JournalIsTrue` | `JournalAgrees` | `ScadaReportProofs` |
| `RaisedIsExplained` | `RaisedLinesExplained` | |
| `ReportReadsLast` | what the replay computes, for every file | |
| `ReportIsLatest` | `ReportShowsLatest` | |
| `ReportedWorkedAlarmsStand` | `WorkedAlarmsStand` | |

`StaleIsTrue` needs that the monitor's `now` is not later than the clock (`NowIsPast`).
`LatestAgrees` needs that a worker between its two updates holds the snapshot that it
stored (`StoredInHand`), which needs that it has an object at all (`HasObject`).
`StoppedIsQuiet` needs that `stop()` joins in turn: every device that is neither to be
stopped nor being joined is done and offline (`JoinedInTurn`), that no worker
runs in a process that did not start (`NotStarted`), and that only a busy worker
has events left (`EventsWhileBusy`). `LinksAreDeviceLinks` needs that no client runs
before the process did start it, and that a link is up only while its worker is there
(`LinkInv`).

`JournalAgrees` rests on `JournalInv`: a worker that is about to evaluate has no event
left, each event says how its rule stands now, and the last line of the file about a
rule that no event speaks of says so too, unless it is missing. An append keeps this,
whatever fails in it, because what it leaves of the file is a piece without a gap and what
it loses is missing (`WriteLeaves`, `LastAboutLeft`), and because an evaluation names each
rule it flips in an event (`FlipsAreNamed`). `RaisedLinesExplained` rests on
`MeasureInv`: while a worker appends its events, the last measurement of its point in
the file is the object in its hand, however the others append in between, and a line that
lacks its end, which the last process left, meets the BUSINESS line of a worker or a STALE
line of the monitor, no other (`TornIsFresh`).

The replay of `scada_cache_report` is a recursive function, line by line. `ReportReadsLast`
says what it ends with: the last measurement of each point, and the alarms whose last
line is RAISED. If it failed for some number of lines, there would be a least such
number, which is not 0, and the line before it makes it right. `ReportIsLatest`
adds what `ScadaSystem` keeps of the file: unless a snapshot is still on its way there
(`OnItsWay`), the last measurement of its point in the file, if the trim left one, is that
snapshot (`Written`).
`ReportedWorkedAlarmsStand` joins `ReportReadsLast` and `JournalAgrees`: an alarm that the
report lists, that is not STALE, whose last line the file got, and whose worker is done,
stands, where there was no restart. A late line of the monitor, as in `stale_race`, the end
of the process, and a CLEARED line that was lost are the reasons why an alarm may be
listed that does not stand. All of this is proved with any number of failed appends, and
with restarts that leave the file in the middle of a rewrite; `RaisedIsExplained` assumes
that no append failed.

### The cache

`DataCacheProofs` proves, for any number of threads, any maximum and any faults,
`CacheTypeCorrect` (`TypeOK`), `CacheStaysBounded` (`CacheBounded`),
`CacheKeepsMaxRecords` (`KeepsMaxRecords`), `CacheKeepsOrder` (`LinesInOrder`) and
`CacheIsJournal`, the refinement `IsJournal`. `IInv` says who holds the mutex
(`MutexMatches`), what a thread at each place has in hand (`RecordMatches`), how long the
file and the rest of a rewrite are (`LinesMatch`), that the lines of both are in order and
that nothing in them is younger than what its thread appended (`Ordered`, `NothingLater`),
that what is kept is their end (`KeptMatches`), and that each trim that missed is a fault
(`MissedMatches`). Every step adds a line, trims, misses a trim, loses lines by a fault, or
changes nothing that the journal sees.

### The client

`Iec104ClientProofs` proves, for any limits of the heartbeat, any number of sequence
numbers and any number of frames on their way, `ClientTypeCorrect` (`TypeOK`),
`ClientAcksWhatItHandsOver` (`AckedIsHandedOver`), `ClientKeepsFramesInOrder`
(`FramesInOrder`) and `ClientIsDeviceLink`, the refinement `IsDeviceLink`. `IInv` ties
flags and connection to the place of the worker (`LinkMatches`, `FrameMatches`), and
says that what was handed over, is in hand and is on its way is one stream of
consecutive numbers (`InOrder`) and that the peer was told its position in it
(`AckMatches`). `ClientIsDeviceLink` and `SystemUsesDeviceLinks` meet in `DeviceLink`: what
holds of `ScadaSystem` holds with the clients as they are.

### The simulator

`MockIec104ServerProofs` proves, for any clients, scenario and limits,
`ServerTypeCorrect` (`TypeOK`), `ServerReportsInOrder` (`ReportsInOrder`),
`ServerKeepsPoliteClient` (`KeepsPoliteClient`) and `ServerListeningEndsInOrder`
(`ListeningEndsInOrder`). The first rests on `NumberMatches`: the counter, twice as wide
as the number on the wire, is the number after the last that the client heard
(`CounterWraps`). The second rests on `PoliteMatches`: nothing that a polite client sent
is half a frame. The last one rests on `JoinMatches`: as long as the
thread lives, the main thread has yet to join it.

### The codec and the probe

`Iec104FrameProofs` proves that S and I frames are read back as they were built
(`SFormatReadsBack`, `IFormatReadsBack`): the format, the numbers modulo 2^15, the data;
that the objects read from an I frame are those of its ASDU (`IFormatObjects`); and that
what the three builders of data make is read back with its address, value and quality
(`SinglePointReadsBack`, `FloatReadsBack`, `ScaledReadsBack`), for addresses of three
bytes, values and qualities of their width.

| Theorem of `Iec104ProbeProofs` | States | Hypothesis |
|---|---|---|
| `ProbeTypes` | `TypeOK` | |
| `AcksNameNext` | `AckNamesNext` | |
| `CountsAreRight` | `CountsWhatWasSent` | `PayloadsAsRead` |
| `ShowsWhatWasSent` | `ShownAsSent` | `PayloadsAsRead` |
| `BuiltDataArrives` | both | every payload made by a builder of `Iec104Frame` |

The peer sends frames and noise of any number and length, cut in two pieces anywhere, from
any first number. `ProbeAssumption` says of it that an ASDU fits into a frame, and that in the
noise no start byte is followed by a length that `readApdu` accepts: such a start byte swallows
the frame after it, which is listed above and which no code can tell from a frame. An object
of a payload is what the peer means by it; `PayloadsAsRead` says that the parser reads the
same. The theorems need it because a payload may be anything, odd counts and types included.
`BuiltDataArrives` needs it no more: for data of the builders it follows from the theorems of
the codec. The payloads of the run are of both kinds, and `ShownAsSent` of the run compares
each with what is meant by it.

The argument is about the stream: `Taken`, what the read in progress took already, then
`rx`, then `rest`. `Framing` says that the messages after the first `Done` stand in this
stream one after the other, at places `at[k]`, and that no start byte between them is
followed by an accepted length (`InPlace`). A byte that is skipped is thus none of a frame (`DropOther`), a
start byte whose length is refused neither (`DropRefused`), and a frame that is read is the
next message, from its first byte to its last (`DropFrame`); a message and noise that are sent
stand behind the others (`AddMessage`, `AddNoise`). `Counting` then says that the counters
are those of the messages up to there, `Telling` that the number which the peer was told
follows from them, `PeerOK` that the peer numbers its I frames, and `Showing` that `shown`
is the data of the last of them. `Framing`, `Counting`, `Telling` and `Showing` hold up to the
first read that is given up within a frame (`cut`).

### The configuration

`ConfigProofs` proves `OptionsAreAsWritten` (`OptionsAsWritten`) and `PointsAreAsWritten`
(`PointsAsWritten`) for any identifiers, addresses and texts and for files of any lines
and any length. `load` fills maps line by line, while the properties look at the file as a
whole and take the last accepted line of a kind. `ReadInv` says that at every line the
maps are what the lines so far say. It is kept because of an attribute the last line
decides, if its text is accepted, and else the lines before (`LastOfNew`, `LastOfOld`),
because the first line of a device stays its first (`FirstLineGrown`), and because the
options above that line are those that its device is made of (`DeviceMade`).
`ConfigTypes` proves `TypeOK`: ports and addresses keep within their 16 bits, whatever
number a line has.

### Only model-checked

The liveness properties, which are beyond the prover: `StopReturns`, `SilenceIsNoticed`,
`StopCompletes`, `LostLinkIsRetried`, `HeartbeatDecides`, `SignalEndsProcess`,
`ClientGivesWay`, `ReportsGoOn` and `ProbeEnds`. That the three violations are violations
is shown by the traces of their runs.

## What is not modelled

`Logger` and the self test, the command lines, and the texts of lines and messages. Of
`Config`, the options of cache and log, names, units and types, which are assigned as
they are. The values that the scenarios of `MockIec104Server` report. The list of addresses
that `connectTo` tries is one success or failure. The wall clock does not jump. A read
error in the middle of the cache file, which would make the trim take a part of it for all,
and a machine that goes down with writes of the kernel still to come. A line that was cut
or glued to its successor counts as no entry of the report: one that still reads as an
entry is one of the point or rule it was about, which the properties except as `missing`,
or of a key that no point has.

Some hazards of the code are left out because they are what the code says and no
document says otherwise: `heartbeat_timeout_ms=0` turns the timeout off; a first frame
that does not confirm STARTDT ends the connection; a heartbeat answer that waits behind other
frames when the timeout is over comes too late; and with reports every few milliseconds
the client acknowledges each frame on its own.

## The plan

Done, in this order: `AlarmManager`, `DataCacheOps`, `DataCache` with `Journal`, `CacheDisk`,
`ScadaSystem` with `CacheReport`, its proofs, `Iec104Client` with `DeviceLink`,
`MockIec104Server`, `Iec104Frame` with `Iec104Probe`, `Config`; the proofs of the client, the cache,
the links, the simulator, the frames, the file's contents, the configuration, the report and the probe.

Next:

1. A session: `MockIec104Server` composed with `Iec104Client` over a pair of
   channels, with the abstract view that what the server sends arrives in order
   until the link drops, and that a quiet server keeps its client. Both have the
   other as an environment so far that does more than the other can.
2. What a trim may do to the alarms of the report: those that a RAISED line left out is
   about are missing, and no other.
3. The probe and the simulator in one system, where `BuiltDataArrives` would apply to what
   `MockIec104Server` sends.
