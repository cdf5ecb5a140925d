---------------------------- MODULE Iec104Client ----------------------------
(***************************************************************************)
(* The client of one device (src/src/iec104/Iec104Client.cpp on top of     *)
(* src/src/net/TcpClient.cpp): its worker thread connects, starts the data *)
(* transfer, reads frames, acknowledges and hands them over, tests an idle *)
(* link and connects again when the link is lost.  Its owner starts and    *)
(* stops it.  The peer and the network are the environment: they send what *)
(* they like, and close, reset or silently drop the connection at any      *)
(* time.                                                                   *)
(*                                                                         *)
(* A byte stream is modelled by what readApdu() makes of it: a sequence of *)
(* whole frames, of bytes that do not start a frame, of frames with a      *)
(* length that readApdu() refuses, and at last perhaps of a frame of which *)
(* only the start has come.  An action is the work between two points      *)
(* where the worker waits, reads running_ or meets the network.            *)
(***************************************************************************)
EXTENDS Naturals, Sequences

CONSTANTS
    HeartbeatInterval,  \* in ticks; 0 turns the heartbeat off
    HeartbeatTimeout,   \* in ticks; 0 turns the timeout off
    SeqMod,             \* how many sequence numbers there are (2^15)
    MaxInFlight,        \* bound: frames on their way to the client
    MaxObjects,         \* bound: objects in one frame
    SigPipe             \* sending on a dead connection kills the process (POSIX)

ASSUME ClientAssumption ==
    /\ HeartbeatInterval \in Nat /\ HeartbeatTimeout \in Nat
    /\ SeqMod \in Nat \ {0} /\ MaxInFlight \in Nat /\ MaxObjects \in Nat
    /\ SigPipe \in BOOLEAN

VARIABLES
    running,     \* running_
    owner,       \* free, or joining the worker in stop()
    worker,      \* where the worker is
    transfer,    \* STARTDT was confirmed on this connection
    connected,   \* connected_, as last told to connectionHandler_
    frame,       \* the frame that readApdu() returned
    objects,     \* the objects of the frame yet to be handed over
    receiveSeq,  \* receiveSequence_
    pending,     \* heartbeatPending
    idle,        \* the age of lastRx, up to HeartbeatInterval
    waiting,     \* the age of heartbeatSentAt, up to HeartbeatTimeout
    tcp,         \* the connection: none, up, silent, closed, dead or reset
    rx,          \* what is on its way to the client
    sendSeq,     \* the number of the peer's next I frame
    acked,       \* the number that the peer was last told of
    handed       \* the number after that of the last frame handed over

control == <<running, owner>>
beat    == <<pending, idle, waiting>>
network == <<tcp, rx, sendSeq, acked>>
vars    == <<control, worker, transfer, connected, frame, objects, receiveSeq,
             beat, network, handed>>

Sequence == 0..SeqMod - 1

NoFrame == [kind |-> "none", seq |-> 0]
WholeKinds == {"startCon", "testAct", "testCon", "other", "data"}
Frame == [kind : WholeKinds, seq : Sequence]

(***************************************************************************)
(* What is not a frame: bytes before the next start byte, a frame with a   *)
(* refused length, the start of a frame.                                   *)
(***************************************************************************)
Garbage == [kind |-> "garbage", seq |-> 0]
Broken  == [kind |-> "broken", seq |-> 0]
Partial == [kind |-> "partial", seq |-> 0]

Init ==
    /\ running = FALSE
    /\ owner = "free"
    /\ worker = "off"
    /\ transfer = FALSE
    /\ connected = FALSE
    /\ frame = NoFrame
    /\ objects = 0
    /\ receiveSeq = 0
    /\ pending = FALSE
    /\ idle = 0
    /\ waiting = 0
    /\ tcp = "none"
    /\ rx = << >>
    /\ sendSeq = 0
    /\ acked = 0
    /\ handed = 0

-----------------------------------------------------------------------------
(* The owner. *)

Start ==
    /\ owner = "free"
    /\ worker \in {"off", "done"}
    /\ ~running
    /\ running' = TRUE
    /\ worker' = "top"
    /\ UNCHANGED <<owner, transfer, connected, frame, objects, receiveSeq, beat, network, handed>>

Stop ==
    /\ owner = "free"
    /\ worker # "killed"
    /\ running
    /\ running' = FALSE
    /\ owner' = "joining"
    /\ UNCHANGED <<worker, transfer, connected, frame, objects, receiveSeq, beat, network, handed>>

Joined ==
    /\ owner = "joining"
    /\ worker = "done"
    /\ owner' = "free"
    /\ connected' = FALSE
    /\ UNCHANGED <<running, worker, transfer, frame, objects, receiveSeq, beat, network, handed>>

-----------------------------------------------------------------------------
(* The connection as the worker sees it. *)

(***************************************************************************)
(* The connection is gone, and with it what belonged to it.                *)
(***************************************************************************)
Disconnected ==
    /\ tcp' = "none"
    /\ rx' = << >>
    /\ connected' = FALSE
    /\ transfer' = FALSE
    /\ frame' = NoFrame
    /\ objects' = 0
    /\ pending' = FALSE
    /\ idle' = 0
    /\ waiting' = 0
    /\ sendSeq' = 0
    /\ acked' = 0
    /\ handed' = 0

(***************************************************************************)
(* The worker gives the connection up: it closes the socket, reports the   *)
(* link as down and goes to sleep before it tries again.                   *)
(***************************************************************************)
Drop ==
    /\ Disconnected
    /\ worker' = "sleep"
    /\ UNCHANGED <<control, receiveSeq>>

(***************************************************************************)
(* sendAll(): a peer that closed its side answers what it gets with a      *)
(* reset, which may be there for the next send.  A silent peer takes       *)
(* nothing off the buffers, and one that is up may not read what it is     *)
(* sent: then waitWritable() gives up.  (Linux: a reset that meets a       *)
(* socket whose peer has closed turns the next send into EPIPE and the     *)
(* signal SIGPIPE, which nothing in the program handles or ignores.)       *)
(***************************************************************************)
Sent ==
    \/ tcp \in {"up", "silent", "closed"} /\ tcp' = tcp
    \/ tcp = "closed" /\ tcp' = "dead"

SendFails ==
    \/ tcp \in {"up", "silent", "reset"}
    \/ tcp = "dead" /\ ~SigPipe

Killed ==
    /\ SigPipe
    /\ tcp = "dead"
    /\ worker \in {"startdt", "beat", "answer", "ack"}
    /\ Disconnected
    /\ worker' = "killed"
    /\ running' = FALSE
    /\ owner' = "free"
    /\ receiveSeq' = 0

PeerGone == tcp \in {"closed", "dead", "reset"}

-----------------------------------------------------------------------------
(* The worker. *)

Goto(label) == worker' = label

Top ==
    /\ worker = "top"
    /\ Goto(IF running THEN "connect" ELSE "done")
    /\ UNCHANGED <<control, transfer, connected, frame, objects, receiveSeq, beat, network, handed>>

Connect ==
    /\ worker = "connect"
    /\ Goto("startdt")
    /\ tcp' = "up"
    /\ connected' = TRUE
    /\ receiveSeq' = 0
    /\ UNCHANGED <<control, transfer, frame, objects, beat, rx, sendSeq, acked, handed>>

ConnectFails ==
    /\ worker = "connect"
    /\ Drop

Sleep ==
    /\ worker = "sleep"
    /\ Goto("top")
    /\ UNCHANGED <<control, transfer, connected, frame, objects, receiveSeq, beat, network, handed>>

SendStartDt ==
    /\ worker = "startdt"
    /\ \/ /\ Sent
          /\ Goto("scan")
          /\ UNCHANGED <<control, transfer, connected, frame, objects, receiveSeq, beat,
                         rx, sendSeq, acked, handed>>
       \/ SendFails /\ Drop

(***************************************************************************)
(* A mutant: only a start byte ends the search for one.                    *)
(***************************************************************************)
SkipByteAnyway ==
    /\ worker = "scan"
    /\ rx # << >>
    /\ Head(rx) = Garbage
    /\ rx' = Tail(rx)
    /\ UNCHANGED <<control, worker, transfer, connected, frame, objects, receiveSeq, beat,
                   tcp, sendSeq, acked, handed>>

(***************************************************************************)
(* readApdu() skips what does not start a frame, as long as the client     *)
(* runs.                                                                   *)
(***************************************************************************)
SkipByte ==
    /\ worker = "scan"
    /\ rx # << >>
    /\ Head(rx) = Garbage
    /\ running
    /\ rx' = Tail(rx)
    /\ UNCHANGED <<control, worker, transfer, connected, frame, objects, receiveSeq, beat,
                   tcp, sendSeq, acked, handed>>

(***************************************************************************)
(* A mutant: a stopped client reads the frame all the same.                *)
(***************************************************************************)
StartByteAnyway ==
    /\ worker = "scan"
    /\ rx # << >>
    /\ Head(rx) # Garbage
    /\ Goto("body")
    /\ UNCHANGED <<control, transfer, connected, frame, objects, receiveSeq, beat, network, handed>>

(***************************************************************************)
(* The start byte: the rest of the frame is read whether or not the client *)
(* still runs.                                                             *)
(***************************************************************************)
StartByte ==
    /\ worker = "scan"
    /\ rx # << >>
    /\ Head(rx) # Garbage
    /\ running
    /\ Goto("body")
    /\ UNCHANGED <<control, transfer, connected, frame, objects, receiveSeq, beat, network, handed>>

ReadBody ==
    /\ worker = "body"
    /\ Head(rx) \in Frame
    /\ frame' = Head(rx)
    /\ rx' = Tail(rx)
    /\ Goto("handle")
    /\ UNCHANGED <<control, transfer, connected, objects, receiveSeq, beat, tcp, sendSeq,
                   acked, handed>>

(***************************************************************************)
(* readApdu() fails if no byte comes in receiveTimeoutMs, if the peer is   *)
(* gone, if the length is refused, or if the client was stopped.           *)
(***************************************************************************)
ReadFails ==
    /\ \/ worker = "scan" /\ rx = << >>
       \/ worker = "scan" /\ rx # << >> /\ ~running
       \/ worker = "body" /\ Head(rx) \in {Broken, Partial}
    /\ Drop

(***************************************************************************)
(* performStartDt(): the first frame must be the confirmation.             *)
(***************************************************************************)
StartConfirmed ==
    /\ worker = "handle"
    /\ ~transfer
    /\ frame.kind = "startCon"
    /\ transfer' = TRUE
    /\ frame' = NoFrame
    /\ idle' = 0
    /\ waiting' = 0
    /\ Goto("loop")
    /\ UNCHANGED <<control, connected, objects, receiveSeq, pending, network, handed>>

StartRefused ==
    /\ worker = "handle"
    /\ ~transfer
    /\ frame.kind # "startCon"
    /\ Drop

(***************************************************************************)
(* The top of the receive loop.                                            *)
(***************************************************************************)
Expired == pending /\ HeartbeatTimeout > 0 /\ waiting >= HeartbeatTimeout

GiveUp ==
    /\ worker = "loop"
    /\ ~running \/ Expired
    /\ Drop

(***************************************************************************)
(* A mutant: a new heartbeat while one is pending.                         *)
(***************************************************************************)
StartHeartbeatAgain ==
    /\ worker = "loop"
    /\ running
    /\ HeartbeatInterval > 0 /\ idle >= HeartbeatInterval
    /\ waiting' = 0
    /\ Goto("beat")
    /\ UNCHANGED <<control, transfer, connected, frame, objects, receiveSeq, pending, idle,
                   network, handed>>

StartHeartbeat ==
    /\ worker = "loop"
    /\ running
    /\ ~pending /\ HeartbeatInterval > 0 /\ idle >= HeartbeatInterval
    /\ waiting' = 0
    /\ Goto("beat")
    /\ UNCHANGED <<control, transfer, connected, frame, objects, receiveSeq, pending, idle,
                   network, handed>>

NoHeartbeat ==
    /\ worker = "loop"
    /\ running
    /\ ~Expired
    /\ pending \/ HeartbeatInterval = 0 \/ idle < HeartbeatInterval
    /\ Goto("poll")
    /\ UNCHANGED <<control, transfer, connected, frame, objects, receiveSeq, beat, network, handed>>

SendHeartbeat ==
    /\ worker = "beat"
    /\ \/ /\ Sent
          /\ pending' = TRUE
          /\ Goto("poll")
          /\ UNCHANGED <<control, transfer, connected, frame, objects, receiveSeq, idle,
                         waiting, rx, sendSeq, acked, handed>>
       \/ SendFails /\ Drop

(***************************************************************************)
(* waitReadable(): a byte, the end of the stream or an error wakes it.     *)
(***************************************************************************)
Poll ==
    /\ worker = "poll"
    /\ Goto(IF rx # << >> \/ PeerGone THEN "scan" ELSE "loop")
    /\ UNCHANGED <<control, transfer, connected, frame, objects, receiveSeq, beat, network, handed>>

(***************************************************************************)
(* What a frame does to the transfer.                                      *)
(***************************************************************************)
HandleControl ==
    /\ worker = "handle"
    /\ transfer
    /\ frame.kind # "data"
    /\ idle' = 0
    /\ pending' = (pending /\ frame.kind # "testCon")
    /\ Goto(IF frame.kind = "testAct" THEN "answer" ELSE "loop")
    /\ frame' = NoFrame
    /\ UNCHANGED <<control, transfer, connected, objects, receiveSeq, waiting, network, handed>>

(***************************************************************************)
(* Mutants: the frames are counted without end; the acknowledgement names  *)
(* the frame instead of its successor; any frame renews the timeout of the *)
(* heartbeat.                                                              *)
(***************************************************************************)
HandleDataCounts ==
    /\ worker = "handle"
    /\ transfer
    /\ frame.kind = "data"
    /\ idle' = 0
    /\ receiveSeq' = receiveSeq + 1
    /\ Goto("ack")
    /\ UNCHANGED <<control, transfer, connected, frame, objects, pending, waiting, network, handed>>

HandleDataOwnNumber ==
    /\ worker = "handle"
    /\ transfer
    /\ frame.kind = "data"
    /\ idle' = 0
    /\ receiveSeq' = frame.seq
    /\ Goto("ack")
    /\ UNCHANGED <<control, transfer, connected, frame, objects, pending, waiting, network, handed>>

HandleDataRenews ==
    /\ worker = "handle"
    /\ transfer
    /\ frame.kind = "data"
    /\ idle' = 0
    /\ waiting' = 0
    /\ receiveSeq' = frame.seq + 1
    /\ Goto("ack")
    /\ UNCHANGED <<control, transfer, connected, frame, objects, pending, network, handed>>

HandleData ==
    /\ worker = "handle"
    /\ transfer
    /\ frame.kind = "data"
    /\ idle' = 0
    /\ receiveSeq' = frame.seq + 1
    /\ Goto("ack")
    /\ UNCHANGED <<control, transfer, connected, frame, objects, pending, waiting, network, handed>>

SendAnswer ==
    /\ worker = "answer"
    /\ \/ /\ Sent
          /\ Goto("loop")
          /\ UNCHANGED <<control, transfer, connected, frame, objects, receiveSeq, beat,
                         rx, sendSeq, acked, handed>>
       \/ SendFails /\ Drop

(***************************************************************************)
(* A mutant: a frame that could not be acknowledged is skipped.            *)
(***************************************************************************)
SendAckOrSkip ==
    /\ worker = "ack"
    /\ \/ /\ Sent
          /\ acked' = receiveSeq % SeqMod
          /\ objects' \in 0..MaxObjects
          /\ Goto("deliver")
          /\ UNCHANGED <<control, transfer, connected, frame, receiveSeq, beat, rx, sendSeq, handed>>
       \/ /\ SendFails
          /\ Goto("loop")
          /\ UNCHANGED <<control, transfer, connected, frame, objects, receiveSeq, beat, network, handed>>

(***************************************************************************)
(* The S frame carries the number modulo 2^15.  A frame of an unknown type *)
(* has no objects.                                                         *)
(***************************************************************************)
SendAck ==
    /\ worker = "ack"
    /\ \/ /\ Sent
          /\ acked' = receiveSeq % SeqMod
          /\ objects' \in 0..MaxObjects
          /\ Goto("deliver")
          /\ UNCHANGED <<control, transfer, connected, frame, receiveSeq, beat, rx, sendSeq, handed>>
       \/ SendFails /\ Drop

(***************************************************************************)
(* dataHandler_ gets the objects one by one.                               *)
(***************************************************************************)
Deliver ==
    /\ worker = "deliver"
    /\ objects > 0
    /\ objects' = objects - 1
    /\ UNCHANGED <<control, worker, transfer, connected, frame, receiveSeq, beat, network, handed>>

Delivered ==
    /\ worker = "deliver"
    /\ objects = 0
    /\ handed' = (frame.seq + 1) % SeqMod
    /\ frame' = NoFrame
    /\ Goto("loop")
    /\ UNCHANGED <<control, transfer, connected, objects, receiveSeq, beat, network>>

Work ==
    \/ Top \/ Connect \/ ConnectFails \/ Sleep \/ SendStartDt
    \/ SkipByte \/ StartByte \/ ReadBody \/ ReadFails
    \/ StartConfirmed \/ StartRefused
    \/ GiveUp \/ StartHeartbeat \/ NoHeartbeat \/ SendHeartbeat \/ Poll
    \/ HandleControl \/ HandleData \/ SendAnswer \/ SendAck \/ Deliver \/ Delivered
    \/ Killed

-----------------------------------------------------------------------------
(* The environment. *)

(***************************************************************************)
(* Time passes; the ages of the time stamps that the loop compares with    *)
(* its limits count no further than these.                                 *)
(***************************************************************************)
Tick ==
    /\ worker # "killed"
    /\ transfer
    /\ idle' = IF idle < HeartbeatInterval THEN idle + 1 ELSE idle
    /\ waiting' = IF waiting < HeartbeatTimeout THEN waiting + 1 ELSE waiting
    /\ <<idle, waiting>>' # <<idle, waiting>>
    /\ UNCHANGED <<control, worker, transfer, connected, frame, objects, receiveSeq, pending,
                   network, handed>>

(***************************************************************************)
(* The peer sends anything, and numbers its I frames.                      *)
(***************************************************************************)
Incomplete == rx # << >> /\ rx[Len(rx)] = Partial

PeerSends ==
    /\ tcp = "up"
    /\ Len(rx) < MaxInFlight
    /\ ~Incomplete
    /\ \/ /\ \E kind \in WholeKinds \ {"data"} : rx' = Append(rx, [kind |-> kind, seq |-> 0])
          /\ UNCHANGED sendSeq
       \/ /\ rx' = Append(rx, [kind |-> "data", seq |-> sendSeq])
          /\ sendSeq' = (sendSeq + 1) % SeqMod
       \/ /\ \E junk \in {Garbage, Broken, Partial} : rx' = Append(rx, junk)
          /\ UNCHANGED sendSeq
    /\ UNCHANGED <<control, worker, transfer, connected, frame, objects, receiveSeq, beat,
                   tcp, acked, handed>>

PeerCompletes ==
    /\ tcp = "up"
    /\ Incomplete
    /\ \/ /\ \E kind \in WholeKinds \ {"data"} : rx' = [rx EXCEPT ![Len(rx)] = [kind |-> kind, seq |-> 0]]
          /\ UNCHANGED sendSeq
       \/ /\ rx' = [rx EXCEPT ![Len(rx)] = [kind |-> "data", seq |-> sendSeq]]
          /\ sendSeq' = (sendSeq + 1) % SeqMod
    /\ UNCHANGED <<control, worker, transfer, connected, frame, objects, receiveSeq, beat,
                   tcp, acked, handed>>

(***************************************************************************)
(* The connection is closed by the peer, reset, or falls silent.           *)
(***************************************************************************)
LinkLost ==
    /\ \/ tcp = "up" /\ tcp' \in {"closed", "reset", "silent"}
       \/ tcp = "silent" /\ tcp' = "reset"
    /\ UNCHANGED <<control, worker, transfer, connected, frame, objects, receiveSeq, beat,
                   rx, sendSeq, acked, handed>>

Environment == PeerSends \/ PeerCompletes \/ LinkLost

Next == Start \/ Stop \/ Joined \/ Work \/ Tick \/ Environment

Spec == Init /\ [][Next]_vars

(***************************************************************************)
(* The worker does not rest: each of its waits has a timeout.  stop()      *)
(* returns when the worker ended.  Time passes.                            *)
(***************************************************************************)
FairSpec == Spec /\ WF_vars(Work) /\ WF_vars(Joined) /\ WF_vars(Tick)

-----------------------------------------------------------------------------

WorkerStates ==
    {"off", "top", "connect", "sleep", "startdt", "scan", "body", "handle", "loop", "beat",
     "poll", "answer", "ack", "deliver", "done", "killed"}

(***************************************************************************)
(* Types of the variables.                                                 *)
(***************************************************************************)
TypeOK ==
    /\ running \in BOOLEAN
    /\ owner \in {"free", "joining"}
    /\ worker \in WorkerStates
    /\ transfer \in BOOLEAN
    /\ connected \in BOOLEAN
    /\ frame \in Frame \cup {NoFrame}
    /\ objects \in 0..MaxObjects
    /\ receiveSeq \in 0..SeqMod
    /\ pending \in BOOLEAN
    /\ idle \in 0..HeartbeatInterval
    /\ waiting \in 0..HeartbeatTimeout
    /\ tcp \in {"none", "up", "silent", "closed", "dead", "reset"}
    /\ rx \in Seq(Frame \cup {Garbage, Broken, Partial})
    /\ sendSeq \in Sequence
    /\ acked \in Sequence
    /\ handed \in Sequence

(***************************************************************************)
(* An acknowledged frame is handed over: once the worker is done with a    *)
(* frame, the peer was told of exactly the frames that dataHandler_ got,   *)
(* also where the sequence numbers wrap around.  (The ack goes out before  *)
(* the objects are handled, and neither a lost link nor stop() may come    *)
(* between.)                                                               *)
(***************************************************************************)
AckedIsHandedOver == worker # "deliver" => acked = handed

(***************************************************************************)
(* The I frames of a connection reach dataHandler_ in the order in which   *)
(* the peer numbered them, each once and none left out: bytes skipped on   *)
(* the way, failed sends and heartbeats in between notwithstanding.        *)
(***************************************************************************)
FramesInOrder == worker \in {"ack", "deliver"} => frame.seq = handed

(***************************************************************************)
(* The client implements the abstract link: objects only from a connected  *)
(* and started link, whole frames, no new frame after stop(), and offline  *)
(* when it ended.  The frame that readApdu() is about to return is read    *)
(* from its start byte on.                                                 *)
(***************************************************************************)
Thread ==
    CASE worker \in {"off", "killed"} -> "off"
      [] worker = "done" -> "done"
      [] worker = "deliver" -> "frame"
      [] transfer /\ worker \in {"body", "handle", "ack"} -> "read"
      [] OTHER -> "loop"

Link == INSTANCE DeviceLink WITH thread <- Thread

IsDeviceLink == Link!Spec

(***************************************************************************)
(* stop() returns, wherever the worker is and whatever the peer sends.     *)
(***************************************************************************)
StopCompletes == owner = "joining" ~> owner = "free"

(***************************************************************************)
(* A link that is lost is tried again, unless the client is stopped: a     *)
(* closed, a reset and a silent peer are all noticed, at any point of the  *)
(* worker, and whatever they left in the buffers.                          *)
(***************************************************************************)
Lost == tcp \in {"closed", "dead", "reset", "silent"}

LostLinkIsRetried == Lost /\ running ~> worker \in {"connect", "killed"} \/ ~running

(***************************************************************************)
(* A heartbeat is answered or ends the link, as long as the peer does not  *)
(* keep readApdu() skipping bytes: frames that come meanwhile are no       *)
(* answer.                                                                 *)
(***************************************************************************)
HeartbeatDecides == []<>(worker # "scan") => (pending ~> ~pending)

(***************************************************************************)
(* What README.md says: that one RTU goes offline does not disturb the     *)
(* others, whose workers are threads of the same process (sendAll()).      *)
(***************************************************************************)
LostLinkIsSurvived == worker # "killed"

=============================================================================
