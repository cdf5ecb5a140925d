---------------------------- MODULE Iec104Probe ----------------------------
(***************************************************************************)
(* The probe (src/src/tools/iec104_probe.cpp): it connects, starts the     *)
(* data transfer, and until its deadline reads frames byte by byte, counts *)
(* what they hold and acknowledges them.  A read that times out gives up   *)
(* the bytes that it already took, and the next one looks for a start byte *)
(* in what follows.                                                        *)
(*                                                                         *)
(* The peer is the environment: it confirms or refuses the start, sends    *)
(* I frames with the data of Payloads, control frames and Noise, each of   *)
(* them at once or in two pieces, and may close or reset the connection.   *)
(***************************************************************************)
EXTENDS Iec104Frame, FiniteSets

CONSTANTS
    Payloads,   \* what an I frame may hold: [asdu, and the objects it means]
    Noise,      \* bytes between frames that begin none
    FirstSeq,   \* the number of the peer's first I frame
    MaxFrames,  \* options.maxFrames; 0 is no limit
    MaxSent,    \* bound: frames sent
    MaxWaiting, \* bound: bytes that wait for the probe when the peer sends more
    Splits      \* bound: where a message may be split

ASSUME ProbeAssumption ==
    /\ \A payload \in Payloads : payload.asdu \in Seq(Byte) /\ Len(payload.asdu) <= 249
    /\ \A bytes \in Noise :
         /\ bytes \in Seq(Byte)
         /\ \A k \in 1..Len(bytes) : bytes[k] = StartByte =>
              k < Len(bytes) /\ bytes[k + 1] \notin 4..MaxApduLength - 2
    /\ FirstSeq \in Nat /\ FirstSeq < 32768
    /\ MaxFrames \in Nat /\ MaxSent \in Nat /\ MaxWaiting \in Nat
    /\ Splits \subseteq Nat \ {0}

VARIABLES
    pc,         \* where the probe is: in main(), or in readApdu()
    confirmed,  \* STARTDT was confirmed
    length,     \* the length byte of the frame that is read
    frame,      \* the frame that was read
    stats,      \* stats
    shown,      \* the objects of the I frame that describe() parsed last
    expired,    \* the deadline is past
    exit,       \* what main() returned; "killed" by SIGPIPE
    tcp,        \* the connection: none, up, stalled, closed, dead or reset
    rx,         \* bytes that reached the probe's socket
    rest,       \* bytes of the last piece that did not yet
    sent,       \* the frames that the peer sent, first its answer to STARTDT
    acked,      \* the number that the peer was last told
    cut         \* a read was given up within a frame

network == <<tcp, rx, rest, sent, acked>>
vars    == <<pc, confirmed, length, frame, stats, shown, expired, exit, network, cut>>

NoStats == [frames |-> 0, i |-> 0, s |-> 0, u |-> 0, objects |-> 0, bad |-> 0]

Init ==
    /\ pc = "connect"
    /\ confirmed = FALSE
    /\ length = 0
    /\ frame = << >>
    /\ stats = NoStats
    /\ shown = << >>
    /\ expired = FALSE
    /\ exit = "none"
    /\ tcp = "none"
    /\ rx = << >>
    /\ rest = << >>
    /\ sent = << >>
    /\ acked = FirstSeq
    /\ cut = FALSE

-----------------------------------------------------------------------------
(* main() *)

Goto(label) == pc' = label

Exit(code) ==
    /\ exit' = code
    /\ Goto("ended")

(***************************************************************************)
(* On a stalled connection a frame was not sent to its end, as the peer    *)
(* did not read for the timeout; all else goes on.                         *)
(***************************************************************************)
Open == tcp \in {"up", "stalled"}

(***************************************************************************)
(* sendAll(): what meets a closed peer may be answered by a reset; after a *)
(* reset, one send fails and the next raises SIGPIPE.                      *)
(***************************************************************************)
Sent ==
    \/ (Open \/ tcp = "closed") /\ tcp' = tcp
    \/ tcp = "closed" /\ tcp' = "dead"

SendFails ==
    \/ tcp = "reset" /\ tcp' = "dead"
    \/ Open /\ tcp' = "stalled"

Killed ==
    /\ tcp = "dead"
    /\ pc \in {"answer", "ack"}
    /\ Exit("killed")
    /\ UNCHANGED <<confirmed, length, frame, stats, shown, expired, network, cut>>

Connect ==
    /\ pc = "connect"
    /\ \/ tcp' = "up" /\ Goto("startdt") /\ UNCHANGED exit
       \/ Exit("1") /\ UNCHANGED tcp
    /\ UNCHANGED <<confirmed, length, frame, stats, shown, expired, rx, rest, sent, acked, cut>>

SendStartDt ==
    /\ pc = "startdt"
    /\ \/ Sent /\ Goto("scan") /\ UNCHANGED exit
       \/ SendFails /\ Exit("1")
    /\ UNCHANGED <<confirmed, length, frame, stats, shown, expired, rx, rest, sent, acked, cut>>

StartAnswered ==
    /\ pc = "handle"
    /\ ~confirmed
    /\ IF frame = StartDtCon
       THEN confirmed' = TRUE /\ Goto("top") /\ UNCHANGED exit
       ELSE Exit("1") /\ UNCHANGED confirmed
    /\ UNCHANGED <<length, frame, stats, shown, expired, network, cut>>

(***************************************************************************)
(* A mutant: only the number of frames ends the loop.                      *)
(***************************************************************************)
TopNoDeadline ==
    /\ pc = "top"
    /\ IF MaxFrames = 0 \/ stats.frames < MaxFrames
       THEN Goto("scan") /\ UNCHANGED exit
       ELSE Exit(IF stats.frames > 0 THEN "0" ELSE "2")
    /\ UNCHANGED <<confirmed, length, frame, stats, shown, expired, network, cut>>

Top ==
    /\ pc = "top"
    /\ IF ~expired /\ (MaxFrames = 0 \/ stats.frames < MaxFrames)
       THEN Goto("scan") /\ UNCHANGED exit
       ELSE Exit(IF stats.frames > 0 THEN "0" ELSE "2")
    /\ UNCHANGED <<confirmed, length, frame, stats, shown, expired, network, cut>>

-----------------------------------------------------------------------------
(* readApdu() *)

SkipByte ==
    /\ pc = "scan"
    /\ rx # << >>
    /\ IF Head(rx) = StartByte THEN Goto("length") ELSE UNCHANGED pc
    /\ rx' = Tail(rx)
    /\ UNCHANGED <<confirmed, length, frame, stats, shown, expired, exit,
                   tcp, rest, sent, acked, cut>>

(***************************************************************************)
(* The end of a read that found no frame: main() gives up before the       *)
(* confirmation, and sleeps and tries again after it.                      *)
(***************************************************************************)
ReadFails ==
    IF confirmed THEN Goto("top") /\ UNCHANGED exit ELSE Exit("1")

(***************************************************************************)
(* A mutant: any length is taken.                                          *)
(***************************************************************************)
ReadLengthAny ==
    /\ pc = "length"
    /\ rx # << >>
    /\ rx' = Tail(rx)
    /\ length' = Head(rx)
    /\ Goto("body")
    /\ UNCHANGED <<confirmed, frame, stats, shown, expired, exit, tcp, rest, sent, acked, cut>>

ReadLength ==
    /\ pc = "length"
    /\ rx # << >>
    /\ rx' = Tail(rx)
    /\ IF Head(rx) \in 4..MaxApduLength - 2
       THEN length' = Head(rx) /\ Goto("body") /\ UNCHANGED exit
       ELSE ReadFails /\ UNCHANGED length
    /\ UNCHANGED <<confirmed, frame, stats, shown, expired, tcp, rest, sent, acked, cut>>

ReadBody ==
    /\ pc = "body"
    /\ Len(rx) >= length
    /\ frame' = << StartByte, length >> \o SubSeq(rx, 1, length)
    /\ rx' = SubSeq(rx, length + 1, Len(rx))
    /\ Goto("handle")
    /\ UNCHANGED <<confirmed, length, stats, shown, expired, exit, tcp, rest, sent, acked, cut>>

(***************************************************************************)
(* receiveExact() times out, or finds the connection closed or reset: what *)
(* it took is gone.                                                        *)
(***************************************************************************)
ReceiveFails ==
    /\ \/ pc \in {"scan", "length"} /\ rx = << >>
       \/ pc = "body" /\ Len(rx) < length
    /\ rx' = << >>
    /\ cut' = (cut \/ pc # "scan")
    /\ tcp' = IF tcp = "reset" THEN "dead" ELSE tcp
    /\ ReadFails
    /\ UNCHANGED <<confirmed, length, frame, stats, shown, expired, rest, sent, acked>>

-----------------------------------------------------------------------------
(* What a frame does. *)

HasBadQuality(object) == object.quality # {}

(***************************************************************************)
(* updateStats(), and the objects that describe() parses.                  *)
(***************************************************************************)
UpdateStats(format, objects) ==
    [stats EXCEPT !.frames = @ + 1,
                  !.i = @ + (IF format = "I" THEN 1 ELSE 0),
                  !.s = @ + (IF format = "S" THEN 1 ELSE 0),
                  !.u = @ + (IF format = "U" THEN 1 ELSE 0),
                  !.objects = @ + Len(objects),
                  !.bad = @ + Cardinality({j \in DOMAIN objects : HasBadQuality(objects[j])})]

HandleFrame ==
    /\ pc = "handle"
    /\ confirmed
    /\ LET format  == Format(frame)
           objects == ParseInformationObjects(frame)
       IN  /\ stats' = UpdateStats(format, objects)
           /\ shown' = IF format = "I" THEN objects ELSE shown
           /\ Goto(IF frame = TestFrAct THEN "answer" ELSE IF format = "I" THEN "ack" ELSE "top")
    /\ UNCHANGED <<confirmed, length, frame, expired, exit, network, cut>>

(***************************************************************************)
(* Whether a send succeeds is not looked at.                               *)
(***************************************************************************)
SendAnswer ==
    /\ pc = "answer"
    /\ Sent \/ SendFails
    /\ Goto("top")
    /\ UNCHANGED <<confirmed, length, frame, stats, shown, expired, exit,
                   rx, rest, sent, acked, cut>>

(***************************************************************************)
(* A mutant: the acknowledgement names the frame, not the next one.        *)
(***************************************************************************)
AckOwnNumber == BuildSFormat(SendSequence(frame))

Ack == BuildSFormat(SendSequence(frame) + 1)

SendAck ==
    /\ pc = "ack"
    /\ \/ Sent /\ acked' = ReceiveSequence(Ack)
       \/ SendFails /\ UNCHANGED acked
    /\ Goto("top")
    /\ UNCHANGED <<confirmed, length, frame, stats, shown, expired, exit, rx, rest, sent, cut>>

Work ==
    \/ Killed \/ Connect \/ SendStartDt \/ StartAnswered \/ Top
    \/ SkipByte \/ ReadLength \/ ReadBody \/ ReceiveFails
    \/ HandleFrame \/ SendAnswer \/ SendAck

-----------------------------------------------------------------------------
(* The environment. *)

Deadline ==
    /\ confirmed
    /\ exit = "none"
    /\ ~expired
    /\ expired' = TRUE
    /\ UNCHANGED <<pc, confirmed, length, frame, stats, shown, exit, network, cut>>

(***************************************************************************)
(* The bytes of a message of the peer, which may come in two pieces.       *)
(***************************************************************************)
Arrive(bytes) ==
    \E n \in {k \in Splits : k < Len(bytes)} \cup {Len(bytes)} :
        /\ rx' = rx \o SubSeq(bytes, 1, n)
        /\ rest' = SubSeq(bytes, n + 1, Len(bytes))

IFrames == Cardinality({k \in DOMAIN sent : sent[k].kind = "I"})

Message(kind, bytes, objects) == [kind |-> kind, bytes |-> bytes, objects |-> objects]

Messages ==
    IF sent = << >> THEN {Message("U", StartDtCon, << >>), Message("U", TestFrAct, << >>)}
    ELSE {Message("U", TestFrAct, << >>), Message("S", BuildSFormat(0), << >>)} \cup
         {Message("I", BuildIFormat((FirstSeq + IFrames) % 32768, 0, payload.asdu),
                  payload.objects) : payload \in Payloads}

PeerSends ==
    /\ Open
    /\ pc \notin {"startdt", "ended"}
    /\ rest = << >>
    /\ Len(rx) <= MaxWaiting
    /\ \/ /\ Len(sent) < MaxSent
          /\ \E message \in Messages :
                /\ Arrive(message.bytes)
                /\ sent' = Append(sent, message)
       \/ /\ \E bytes \in Noise : Arrive(bytes)
          /\ UNCHANGED sent
    /\ UNCHANGED <<pc, confirmed, length, frame, stats, shown, expired, exit, tcp, acked, cut>>

RestArrives ==
    /\ Open
    /\ rest # << >>
    /\ exit = "none"
    /\ rx' = rx \o rest
    /\ rest' = << >>
    /\ UNCHANGED <<pc, confirmed, length, frame, stats, shown, expired, exit,
                   tcp, sent, acked, cut>>

LinkLost ==
    /\ Open
    /\ exit = "none"
    /\ tcp' \in {"closed", "reset"}
    /\ UNCHANGED <<pc, confirmed, length, frame, stats, shown, expired, exit,
                   rx, rest, sent, acked, cut>>

Next == Work \/ Deadline \/ PeerSends \/ RestArrives \/ LinkLost

Spec == Init /\ [][Next]_vars

(***************************************************************************)
(* The probe does not rest, as each of its waits has a timeout, and time   *)
(* passes.                                                                 *)
(***************************************************************************)
FairSpec == Spec /\ WF_vars(Work) /\ WF_vars(Deadline)
-----------------------------------------------------------------------------

(***************************************************************************)
(* Types of the variables.  The last check of readApdu() never fails: what *)
(* it read is a valid APDU.                                                *)
(***************************************************************************)
TypeOK ==
    /\ pc \in {"connect", "startdt", "top", "scan", "length", "body", "handle", "answer", "ack",
               "ended"}
    /\ confirmed \in BOOLEAN
    /\ length \in {0} \cup 4..MaxApduLength - 2
    /\ frame = << >> \/ IsValidApdu(frame)
    /\ stats \in [DOMAIN NoStats -> Nat]
    /\ \A k \in DOMAIN shown : shown[k].address \in Nat
    /\ expired \in BOOLEAN
    /\ exit \in {"none", "0", "1", "2", "killed"}
    /\ tcp \in {"none", "up", "stalled", "closed", "dead", "reset"}
    /\ rx \in Seq(Byte) /\ rest \in Seq(Byte)
    /\ Len(sent) <= MaxSent
    /\ acked \in Nat /\ acked < 32768
    /\ cut \in BOOLEAN

(***************************************************************************)
(* What the counters count: the frames read after the confirmation.        *)
(***************************************************************************)
Counted == SubSeq(sent, 2, stats.frames + 1)

OfKind(kind) == Cardinality({k \in DOMAIN Counted : Counted[k].kind = kind})

(***************************************************************************)
(* The objects of these frames, each as its frame and its place in it.     *)
(***************************************************************************)
CountedObjects == UNION {{k} \X DOMAIN Counted[k].objects : k \in DOMAIN Counted}

(***************************************************************************)
(* The summary is that of the frames that were sent, in order, none left   *)
(* out and none found in between, unless a read was given up within a      *)
(* frame: noise, refused lengths, start bytes within the data and pauses   *)
(* between frames do not matter, nor ASDUs that promise more objects than  *)
(* they hold (readApdu(), updateStats(), parseAsduInfo()).                 *)
(***************************************************************************)
CountsWhatWasSent ==
    confirmed /\ ~cut =>
        /\ Len(Counted) = stats.frames
        /\ stats.i = OfKind("I") /\ stats.s = OfKind("S") /\ stats.u = OfKind("U")
        /\ stats.objects = Cardinality(CountedObjects)
        /\ stats.bad = Cardinality({o \in CountedObjects : Counted[o[1]].objects[o[2]].quality # {}})
        /\ pc = "top" /\ rx = << >> /\ rest = << >> => stats.frames + 1 = Len(sent)

(***************************************************************************)
(* What describe() parses from an I frame is what it was built from:       *)
(* address, value and quality, for every type, with one address for all    *)
(* objects or one for each, negative values and addresses of three bytes   *)
(* included.  (Its text has the first three of them.)                      *)
(***************************************************************************)
ShownAsSent ==
    ~cut /\ stats.i > 0 =>
        \E k \in DOMAIN Counted :
            /\ Counted[k].kind = "I"
            /\ Counted[k].objects = shown
            /\ \A later \in k + 1..Len(Counted) : Counted[later].kind # "I"

(***************************************************************************)
(* The peer is told the number after that of the last frame counted, also  *)
(* where the numbers wrap at 2^15: N(S) is 15 bits wide, receiveSequence   *)
(* 16, and buildSFormat() shifts it.  A peer that once did not read for    *)
(* the timeout of a send may be told less: no send is repeated.            *)
(***************************************************************************)
AckNamesNext ==
    ~cut /\ pc = "top" /\ tcp = "up" => acked = (FirstSeq + stats.i) % 32768

(***************************************************************************)
(* The probe ends after its deadline, whatever the peer does, unless bytes *)
(* that start no frame keep readApdu() skipping.                           *)
(***************************************************************************)
ProbeEnds == []<>(pc # "scan") => <>(exit # "none")

=============================================================================
