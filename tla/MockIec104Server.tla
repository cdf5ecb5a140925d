-------------------------- MODULE MockIec104Server --------------------------
(***************************************************************************)
(* The simulated substation (src/src/mock/MockIec104Server.cpp) and the    *)
(* main thread that starts and stops it (src/src/main_mock_server.cpp).    *)
(* One thread listens, and serves one client at a time to its end: it      *)
(* confirms STARTDT, answers test frames, reports its three points once an *)
(* interval, falls quiet in the scenario "stale" and drops the link after  *)
(* dropEverySeconds.  Clients and the network are the environment.         *)
(*                                                                         *)
(* What a client sends is modelled by what readApdu() makes of it, as in   *)
(* Iec104Client: whole frames, bytes that start no frame (garbage), and    *)
(* what makes readApdu() fail (a refused length, a frame that does not     *)
(* come to its end in time).  The interval is one tick of the clock.  The  *)
(* values that a scenario reports are left out.                            *)
(***************************************************************************)
EXTENDS Naturals, Sequences

CONSTANTS
    Options,      \* sets of options: dropEvery and quietAfter, in ticks
    Never,        \* no option: the scenario is not "stale", nothing is dropped
    SeqMod,       \* how many numbers fit in a frame (2^15)
    MaxWaiting,   \* bound: clients that wait in the backlog
    MaxInFlight,  \* bound: frames on their way to the server
    MaxAge,       \* bound: the age of a session is counted up to here
    SigPipe       \* sending on a dead connection kills the process (POSIX)

ASSUME ServerAssumption ==
    /\ Options \subseteq [dropEvery : (Nat \ {0}) \cup {Never}, quietAfter : Nat \cup {Never}]
    /\ SeqMod \in Nat \ {0} /\ MaxWaiting \in Nat /\ MaxInFlight \in Nat /\ MaxAge \in Nat
    /\ SigPipe \in BOOLEAN

VARIABLES
    options,        \* options_
    running,        \* running_
    stopRequested,  \* stopRequested of main()
    main,           \* where the main thread is
    joinable,       \* worker_ holds a thread that was not joined
    worker,         \* where the thread of the server is
    waiting,        \* how many clients wait to be accepted
    conn,           \* the client's connection: none, up, silent, closed, dead or reset
    rx,             \* what is on its way to the server
    started,        \* STARTDT was confirmed on this connection
    polite,         \* the client sent nothing but whole frames, and reads
    sendSequence,   \* sendSequence, 16 bit wide
    point,          \* the point to be reported next
    age,            \* the clock minus start, up to MaxAge
    due,            \* the clock has reached nextSend
    now,            \* what the loop made of the clock when it read it
    late,           \* the clock went on since the loop read it
    heard           \* the last report that went to this client

process == <<options, running, stopRequested, main, joinable>>
peer    == <<waiting, conn, rx>>
clock   == <<age, due, now, late>>
session == <<started, polite, sendSequence, point, clock, heard>>
vars    == <<process, worker, peer, session>>

Points == <<"load", "voltage", "breaker">>
Requests == {"startAct", "testAct"}
Whole == Requests \cup {"other"}
Kinds == Whole \cup {"garbage", "broken"}
NotHeard == [number |-> 0, point |-> 0]
Unread == [due |-> FALSE, quiet |-> FALSE]

Init ==
    /\ options \in Options
    /\ running = FALSE
    /\ stopRequested = FALSE
    /\ main = "start"
    /\ joinable = FALSE
    /\ worker = "off"
    /\ waiting = 0
    /\ conn = "none"
    /\ rx = << >>
    /\ started = FALSE
    /\ polite = TRUE
    /\ sendSequence = 0
    /\ point = 1
    /\ age = 0
    /\ due = FALSE
    /\ now = Unread
    /\ late = FALSE
    /\ heard = NotHeard

Goto(label) == worker' = label

-----------------------------------------------------------------------------
(* The main thread. *)

Start ==
    /\ main = "start"
    /\ running' = TRUE
    /\ joinable' = TRUE
    /\ main' = "watch"
    /\ Goto("open")
    /\ UNCHANGED <<options, stopRequested, peer, session>>

Signal ==
    /\ main = "watch"
    /\ ~stopRequested
    /\ stopRequested' = TRUE
    /\ UNCHANGED <<options, running, main, joinable, worker, peer, session>>

Watch ==
    /\ main = "watch"
    /\ stopRequested \/ ~running
    /\ main' = "stop"
    /\ UNCHANGED <<options, running, stopRequested, joinable, worker, peer, session>>

(***************************************************************************)
(* stop() joins the thread only if it was the one to clear running_.       *)
(***************************************************************************)
Stop ==
    /\ main = "stop"
    /\ main' = IF running THEN "join" ELSE "destroy"
    /\ running' = FALSE
    /\ UNCHANGED <<options, stopRequested, joinable, worker, peer, session>>

Join ==
    /\ main = "join"
    /\ worker = "done"
    /\ joinable' = FALSE
    /\ main' = "destroy"
    /\ UNCHANGED <<options, running, stopRequested, worker, peer, session>>

(***************************************************************************)
(* The destructor calls stop() again, which returns at once; destroying a  *)
(* thread that was not joined ends the process by std::terminate().        *)
(***************************************************************************)
Destroy ==
    /\ main = "destroy"
    /\ main' = IF joinable THEN "aborted" ELSE "exited"
    /\ UNCHANGED <<options, running, stopRequested, joinable, worker, peer, session>>

Main == Start \/ Watch \/ Stop \/ Join \/ Destroy

-----------------------------------------------------------------------------
(* The connection as the server sees it. *)

(***************************************************************************)
(* A mutant: the numbering goes on with the next client.                   *)
(***************************************************************************)
ForgottenButNumber ==
    /\ conn' = "none"
    /\ rx' = << >>
    /\ started' = FALSE
    /\ polite' = TRUE
    /\ sendSequence' = sendSequence
    /\ point' = 1
    /\ age' = 0
    /\ due' = FALSE
    /\ now' = Unread
    /\ late' = FALSE
    /\ heard' = NotHeard

(***************************************************************************)
(* The connection is gone, and with it the local variables of              *)
(* serveClient().                                                          *)
(***************************************************************************)
Forgotten ==
    /\ conn' = "none"
    /\ rx' = << >>
    /\ started' = FALSE
    /\ polite' = TRUE
    /\ sendSequence' = 0
    /\ point' = 1
    /\ age' = 0
    /\ due' = FALSE
    /\ now' = Unread
    /\ late' = FALSE
    /\ heard' = NotHeard

(***************************************************************************)
(* serveClient() returns, and run() closes the socket.                     *)
(***************************************************************************)
Close ==
    /\ Forgotten
    /\ Goto("listen")
    /\ UNCHANGED <<process, waiting>>

(***************************************************************************)
(* sendAll(), as in Iec104Client.  It waits for 1 s for a client that does *)
(* not read.                                                               *)
(***************************************************************************)
Sent ==
    \/ conn \in {"up", "silent", "closed"} /\ conn' = conn
    \/ conn = "closed" /\ conn' = "dead"

SendFails ==
    \/ conn \in {"silent", "reset"}
    \/ conn = "up" /\ ~polite
    \/ conn = "dead" /\ ~SigPipe

Killed ==
    /\ SigPipe
    /\ conn = "dead"
    /\ worker \in {"confirm", "answer", "report"}
    /\ Forgotten
    /\ Goto("killed")
    /\ waiting' = 0
    /\ running' = FALSE
    /\ main' = "killed"
    /\ UNCHANGED <<options, stopRequested, joinable>>

-----------------------------------------------------------------------------
(* run() *)

Listens ==
    /\ worker = "open"
    /\ Goto("listen")
    /\ UNCHANGED <<process, peer, session>>

(***************************************************************************)
(* The socket cannot be had, bound or listened to.                         *)
(***************************************************************************)
OpenFails ==
    /\ worker = "open"
    /\ running' = FALSE
    /\ Goto("done")
    /\ UNCHANGED <<options, stopRequested, main, joinable, peer, session>>

(***************************************************************************)
(* A mutant: the loop does not look at running_.                           *)
(***************************************************************************)
ListenAlways ==
    /\ worker = "listen"
    /\ Goto("select")
    /\ UNCHANGED <<process, peer, session>>

Listen ==
    /\ worker = "listen"
    /\ Goto(IF running THEN "select" ELSE "done")
    /\ waiting' = IF running THEN waiting ELSE 0
    /\ UNCHANGED <<process, conn, rx, session>>

Accept ==
    /\ worker = "select"
    /\ waiting > 0
    /\ waiting' = waiting - 1
    /\ conn' = "up"
    /\ Goto("scan")
    /\ UNCHANGED <<process, rx, session>>

(***************************************************************************)
(* A mutant: a failed accept() ends the server as a failed bind() does.    *)
(***************************************************************************)
AcceptFailsForGood ==
    /\ worker = "select"
    /\ waiting' = IF waiting > 0 THEN waiting - 1 ELSE 0
    /\ running' = (running /\ waiting = 0)
    /\ Goto(IF waiting > 0 THEN "done" ELSE "listen")
    /\ UNCHANGED <<options, stopRequested, main, joinable, conn, rx, session>>

(***************************************************************************)
(* Nobody came in 500 ms, or the client was gone before accept().          *)
(***************************************************************************)
AcceptFails ==
    /\ worker = "select"
    /\ waiting' = IF waiting > 0 THEN waiting - 1 ELSE 0
    /\ Goto("listen")
    /\ UNCHANGED <<process, conn, rx, session>>

-----------------------------------------------------------------------------
(* readApdu() *)

(***************************************************************************)
(* Bytes before a start byte are skipped, one after the other, each with a *)
(* timeout of its own and without a look at running_.                      *)
(***************************************************************************)
SkipByte ==
    /\ worker = "scan"
    /\ rx # << >>
    /\ Head(rx) = "garbage"
    /\ rx' = Tail(rx)
    /\ UNCHANGED <<process, worker, waiting, conn, session>>

ReadFails ==
    /\ worker = "scan"
    /\ rx = << >> \/ (rx # << >> /\ Head(rx) = "broken")
    /\ Close

HelloRefused ==
    /\ worker = "scan"
    /\ ~started
    /\ rx # << >>
    /\ Head(rx) \in {"testAct", "other"}
    /\ Close

HelloRead ==
    /\ worker = "scan"
    /\ ~started
    /\ rx # << >>
    /\ Head(rx) = "startAct"
    /\ rx' = Tail(rx)
    /\ Goto("confirm")
    /\ UNCHANGED <<process, waiting, conn, session>>

Confirm ==
    /\ worker = "confirm"
    /\ \/ /\ Sent
          /\ started' = TRUE
          /\ due' = TRUE
          /\ Goto("top")
          /\ UNCHANGED <<process, waiting, rx, polite, sendSequence, point, age, now, late, heard>>
       \/ SendFails /\ Close

-----------------------------------------------------------------------------
(* The loop of serveClient() *)

(***************************************************************************)
(* A mutant: a client that talks is not dropped.                           *)
(***************************************************************************)
DropDueWhenIdle ==
    options.dropEvery # Never /\ age >= options.dropEvery /\ rx = << >>

DropDue == options.dropEvery # Never /\ age >= options.dropEvery

Drop ==
    /\ worker = "top"
    /\ ~running \/ DropDue
    /\ Close

Turn ==
    /\ worker = "top"
    /\ running
    /\ ~DropDue
    /\ now' = [due |-> due, quiet |-> options.quietAfter # Never /\ age >= options.quietAfter]
    /\ late' = FALSE
    /\ Goto("poll")
    /\ UNCHANGED <<process, peer, started, polite, sendSequence, point, age, due, heard>>

(***************************************************************************)
(* A mutant: readApdu() is called whether or not there is something.       *)
(***************************************************************************)
PollAlways ==
    /\ worker = "poll"
    /\ Goto("scan")
    /\ UNCHANGED <<process, peer, session>>

PeerGone == conn \in {"closed", "dead", "reset"}

Poll ==
    /\ worker = "poll"
    /\ Goto(IF rx # << >> \/ PeerGone THEN "scan" ELSE "send")
    /\ UNCHANGED <<process, peer, session>>

(***************************************************************************)
(* A mutant: the loop starts over after it has read a frame.               *)
(***************************************************************************)
ReadFrameContinues ==
    /\ worker = "scan"
    /\ started
    /\ rx # << >>
    /\ Head(rx) \in Whole
    /\ rx' = Tail(rx)
    /\ Goto(IF Head(rx) \in Requests THEN "answer" ELSE "top")
    /\ UNCHANGED <<process, waiting, conn, session>>

ReadFrame ==
    /\ worker = "scan"
    /\ started
    /\ rx # << >>
    /\ Head(rx) \in Whole
    /\ rx' = Tail(rx)
    /\ Goto(IF Head(rx) \in Requests THEN "answer" ELSE "send")
    /\ UNCHANGED <<process, waiting, conn, session>>

(***************************************************************************)
(* Whether the answer could be sent is not looked at.                      *)
(***************************************************************************)
Answer ==
    /\ worker = "answer"
    /\ Sent \/ (SendFails /\ conn' = conn)
    /\ Goto("send")
    /\ UNCHANGED <<process, waiting, rx, session>>

(***************************************************************************)
(* Nothing is due, or the scenario is quiet: then the interval starts      *)
(* again at the time that the loop has read.                               *)
(***************************************************************************)
Silent ==
    /\ worker = "send"
    /\ ~now.due \/ now.quiet
    /\ due' = IF now.due THEN late ELSE due
    /\ Goto("top")
    /\ UNCHANGED <<process, peer, started, polite, sendSequence, point, age, now, late, heard>>

BeginReport ==
    /\ worker = "send"
    /\ now.due
    /\ ~now.quiet
    /\ Goto("report")
    /\ UNCHANGED <<process, peer, session>>

(***************************************************************************)
(* A mutant: buildIFormat() keeps all 16 bits of the number.               *)
(***************************************************************************)
WireNumberWide == sendSequence

(***************************************************************************)
(* buildIFormat() shifts the number, and with it the highest bit out.      *)
(***************************************************************************)
WireNumber == sendSequence % SeqMod

Report ==
    /\ worker = "report"
    /\ \/ /\ Sent
          /\ heard' = [number |-> WireNumber, point |-> point]
          /\ sendSequence' = (sendSequence + 1) % (2 * SeqMod)
          /\ point' = (point % Len(Points)) + 1
          /\ due' = IF point = Len(Points) THEN late ELSE due
          /\ Goto(IF point = Len(Points) THEN "top" ELSE "report")
          /\ UNCHANGED <<process, waiting, rx, started, polite, age, now, late>>
       \/ SendFails /\ Close

Work ==
    \/ Listens \/ OpenFails \/ Listen \/ Accept \/ AcceptFails
    \/ SkipByte \/ ReadFails \/ HelloRefused \/ HelloRead \/ Confirm
    \/ Drop \/ Turn \/ Poll \/ ReadFrame \/ Answer \/ Silent \/ BeginReport \/ Report
    \/ Killed

-----------------------------------------------------------------------------
(* The environment: clients, the network, the clock. *)

ClientConnects ==
    /\ worker \notin {"off", "open", "done", "killed"}
    /\ waiting < MaxWaiting
    /\ waiting' = waiting + 1
    /\ UNCHANGED <<process, worker, conn, rx, session>>

ClientSends ==
    /\ conn = "up"
    /\ Len(rx) < MaxInFlight
    /\ rx # << >> => rx[Len(rx)] # "broken"
    /\ \E kind \in Kinds :
          /\ rx' = Append(rx, kind)
          /\ polite' = (polite /\ kind \in Whole)
    /\ UNCHANGED <<process, worker, waiting, conn, started, sendSequence, point, clock, heard>>

ClientStopsReading ==
    /\ conn = "up"
    /\ polite
    /\ polite' = FALSE
    /\ UNCHANGED <<process, worker, peer, started, sendSequence, point, clock, heard>>

LinkLost ==
    /\ \/ conn = "up" /\ conn' \in {"closed", "reset", "silent"}
       \/ conn = "silent" /\ conn' = "reset"
    /\ UNCHANGED <<process, worker, waiting, rx, session>>

Tick ==
    /\ started
    /\ age' = IF age < MaxAge THEN age + 1 ELSE age
    /\ due' = TRUE
    /\ late' = TRUE
    /\ UNCHANGED <<process, worker, peer, started, polite, sendSequence, point, now, heard>>

Environment == Signal \/ ClientConnects \/ ClientSends \/ ClientStopsReading \/ LinkLost

Next == Main \/ Work \/ Tick \/ Environment

Spec == Init /\ [][Next]_vars

(***************************************************************************)
(* The thread does not rest: each of its waits has a timeout.  Neither     *)
(* does the main thread.  Time passes.                                     *)
(***************************************************************************)
FairSpec == Spec /\ WF_vars(Work) /\ WF_vars(Main) /\ WF_vars(Tick)

-----------------------------------------------------------------------------

(***************************************************************************)
(* Types of the variables.                                                 *)
(***************************************************************************)
TypeOK ==
    /\ options \in Options
    /\ running \in BOOLEAN
    /\ stopRequested \in BOOLEAN
    /\ main \in {"start", "watch", "stop", "join", "destroy", "exited", "aborted", "killed"}
    /\ joinable \in BOOLEAN
    /\ worker \in {"off", "open", "listen", "select", "scan", "confirm", "top", "poll",
                   "answer", "send", "report", "done", "killed"}
    /\ waiting \in 0..MaxWaiting
    /\ conn \in {"none", "up", "silent", "closed", "dead", "reset"}
    /\ rx \in Seq(Kinds)
    /\ started \in BOOLEAN
    /\ polite \in BOOLEAN
    /\ sendSequence \in 0..2 * SeqMod - 1
    /\ point \in 1..Len(Points)
    /\ age \in 0..MaxAge
    /\ due \in BOOLEAN
    /\ now \in [due : BOOLEAN, quiet : BOOLEAN]
    /\ late \in BOOLEAN
    /\ heard \in [number : 0..SeqMod - 1, point : 0..Len(Points)]

(***************************************************************************)
(* A client gets the reports numbered from 0 on, one after the other, and  *)
(* the three points in turn, also where the numbers wrap, and whatever the *)
(* client before it got: a round is never left out or cut by an answer     *)
(* (the loop of serveClient()).                                            *)
(***************************************************************************)
ReportsInOrder ==
    [][heard' \notin {heard, NotHeard} =>
         /\ heard'.number = IF heard = NotHeard THEN 0 ELSE (heard.number + 1) % SeqMod
         /\ heard'.point = (heard.point % Len(Points)) + 1]_vars

(***************************************************************************)
(* A client that sends nothing but whole frames, and reads what it is      *)
(* sent, keeps its link, quiet or not, until the server stops or drops it  *)
(* on time (returns of serveClient()): this is what the scenario "stale"   *)
(* is for.  (One that stops reading loses it when waitWritable() gives     *)
(* up.)                                                                    *)
(***************************************************************************)
KeepsPoliteClient ==
    [][conn = "up" /\ started /\ polite /\ conn' = "none" => ~running \/ DropDue]_vars

(***************************************************************************)
(* Once the server has listened, the process does not end by               *)
(* std::terminate(), whenever the signal comes and whatever accept() says: *)
(* only a port that cannot be had leaves a thread that nobody joins.       *)
(***************************************************************************)
ListeningEndsInOrder == [](worker = "listen" => [](main # "aborted"))

(***************************************************************************)
(* A signal ends the process, whatever the clients do, as long as none     *)
(* keeps readApdu() skipping bytes.                                        *)
(***************************************************************************)
SignalEndsProcess ==
    []<>(worker # "scan") => (stopRequested ~> main \in {"exited", "aborted", "killed"})

(***************************************************************************)
(* With dropEverySeconds no client keeps the others waiting for good, be   *)
(* it silent, half open or talking all the time.                           *)
(***************************************************************************)
ClientGivesWay ==
    []<>(worker # "scan") => (conn # "none" /\ options.dropEvery # Never ~> conn = "none")

(***************************************************************************)
(* A client that talks all the time does not keep the server from          *)
(* reporting.                                                              *)
(***************************************************************************)
ReportsGoOn ==
    []<>(worker # "scan") =>
        (started /\ options.quietAfter = Never ~> worker = "report" \/ conn = "none")

=============================================================================
