----------------------- MODULE MockIec104ServerProofs -----------------------
(***************************************************************************)
(* Theorems about MockIec104Server, for any options, any width of the      *)
(* sequence numbers and any number of clients and frames on their way.     *)
(***************************************************************************)
EXTENDS MockIec104Server, SequenceTheorems, TLAPS

-----------------------------------------------------------------------------
(* The inductive invariant. *)

(***************************************************************************)
(* What a polite client has on its way are whole frames, and a served      *)
(* client is read only when something is there, unless it is gone.         *)
(***************************************************************************)
PoliteMatches ==
    polite =>
      /\ \A k \in 1..Len(rx) : rx[k] \in Whole
      /\ worker = "scan" /\ started /\ conn = "up" => rx # << >>

(***************************************************************************)
(* The next report goes on where the last one ended.                       *)
(***************************************************************************)
NumberMatches ==
    /\ heard = NotHeard => sendSequence = 0 /\ point = 1
    /\ heard # NotHeard =>
         /\ sendSequence % SeqMod = (heard.number + 1) % SeqMod
         /\ point = (heard.point % Len(Points)) + 1

(***************************************************************************)
(* As long as the thread lives, the main thread has a reason to join it.   *)
(***************************************************************************)
JoinMatches ==
    /\ main = "start" => worker = "off"
    /\ worker \notin {"off", "done", "killed"} =>
         /\ main \in {"watch", "stop", "join"}
         /\ main # "join" => running

(***************************************************************************)
(* A connection that is not served has confirmed nothing.                  *)
(***************************************************************************)
Unserved ==
    worker \in {"off", "open", "listen", "select", "confirm"} => ~started

IInv == TypeOK /\ Unserved /\ PoliteMatches /\ NumberMatches /\ JoinMatches

-----------------------------------------------------------------------------
(* Numbers. *)

(***************************************************************************)
(* A counter twice as wide as the number on the wire wraps with it.        *)
(***************************************************************************)
LEMMA CounterWraps ==
  ASSUME NEW n \in 0..2 * SeqMod - 1
  PROVE  /\ n % SeqMod \in 0..SeqMod - 1
         /\ (n + 1) % (2 * SeqMod) \in 0..2 * SeqMod - 1
         /\ ((n + 1) % (2 * SeqMod)) % SeqMod = ((n % SeqMod) + 1) % SeqMod
<1> DEFINE m == SeqMod
<1>1. m \in Nat /\ m > 0 /\ n \in Nat /\ n < 2 * m
  BY ServerAssumption
<1> HIDE DEF m
<1>2. \A k \in Nat : k < m => k % m = k
  BY <1>1
<1>3. \A k \in Nat : m <= k /\ k < 2 * m => k % m = k - m
  BY <1>1
<1>4. \A k \in Nat : k < 2 * m => k % (2 * m) = k
  BY <1>1
<1>5. (2 * m) % (2 * m) = 0 /\ 0 % m = 0 /\ m % m = 0
  BY <1>1
<1> QED BY <1>1, <1>2, <1>3, <1>4, <1>5 DEF m

(***************************************************************************)
(* What is left of the frames when the first one was read, and what is     *)
(* there when one more was sent.                                           *)
(***************************************************************************)
LEMMA Frames ==
  ASSUME NEW s \in Seq(Kinds)
  PROVE  /\ << >> \in Seq(Kinds)
         /\ s # << >> => /\ Head(s) = s[1] /\ Head(s) \in Kinds
                        /\ Tail(s) \in Seq(Kinds)
                        /\ Len(Tail(s)) = Len(s) - 1
                        /\ \A k \in 1..Len(Tail(s)) : Tail(s)[k] = s[k + 1]
         /\ \A kind \in Kinds :
              /\ Append(s, kind) \in Seq(Kinds)
              /\ Append(s, kind) # << >>
              /\ Len(Append(s, kind)) = Len(s) + 1
              /\ \A k \in 1..Len(s) : Append(s, kind)[k] = s[k]
              /\ Append(s, kind)[Len(s) + 1] = kind
<1>1. s # << >> => /\ Head(s) = s[1] /\ Head(s) \in Kinds
                  /\ Tail(s) \in Seq(Kinds)
                  /\ Len(Tail(s)) = Len(s) - 1
                  /\ \A k \in 1..Len(Tail(s)) : Tail(s)[k] = s[k + 1]
  BY HeadTailProperties, ElementOfSeq
<1>2. ASSUME NEW kind \in Kinds
      PROVE  /\ Append(s, kind) \in Seq(Kinds)
             /\ Append(s, kind) # << >>
             /\ Len(Append(s, kind)) = Len(s) + 1
             /\ \A k \in 1..Len(s) : Append(s, kind)[k] = s[k]
             /\ Append(s, kind)[Len(s) + 1] = kind
  BY AppendProperties
<1> QED BY <1>1, <1>2

-----------------------------------------------------------------------------
(* Types. *)

(***************************************************************************)
(* A connection begins with the first point, and nothing was reported.     *)
(***************************************************************************)
LEMMA FirstValues ==
  /\ 1 \in 1..Len(Points)
  /\ NotHeard \in [number : 0..SeqMod - 1, point : 0..Len(Points)]
  /\ Unread \in [due : BOOLEAN, quiet : BOOLEAN]
<1>1. 1 \in 1..Len(Points) /\ 0 \in 0..Len(Points)
  BY DEF Points
<1>2. 0 \in 0..SeqMod - 1
  BY ServerAssumption
<1> QED BY <1>1, <1>2 DEF NotHeard, Unread

(***************************************************************************)
(* The variables start with their types.                                   *)
(***************************************************************************)
LEMMA TypeInit == Init => TypeOK
<1>1. /\ 0 \in 0..MaxWaiting /\ 0 \in 0..MaxAge
      /\ 0 \in 0..2 * SeqMod - 1 /\ 0 \in 0..SeqMod - 1
  BY ServerAssumption
<1>2. << >> \in Seq(Kinds)
  OBVIOUS
<1> QED BY <1>1, <1>2, FirstValues DEF Init, TypeOK

(***************************************************************************)
(* A connection that is closed leaves the types.                           *)
(***************************************************************************)
LEMMA TypeForgotten ==
  ASSUME TypeOK, Forgotten,
         options' \in Options, running' \in BOOLEAN, stopRequested' \in BOOLEAN,
         main' \in {"start", "watch", "stop", "join", "destroy", "exited", "aborted", "killed"},
         joinable' \in BOOLEAN, worker' \in {"listen", "killed"}, waiting' \in 0..MaxWaiting
  PROVE  TypeOK'
<1>1. /\ 0 \in 0..MaxAge /\ 0 \in 0..2 * SeqMod - 1 /\ 0 \in 0..SeqMod - 1
  BY ServerAssumption
<1>2. << >> \in Seq(Kinds)
  OBVIOUS
<1> QED BY <1>1, <1>2, FirstValues DEF Forgotten, TypeOK

(***************************************************************************)
(* The main thread, the network and what is not reading or sending keep    *)
(* the types.                                                              *)
(***************************************************************************)
LEMMA TypeControl ==
  ASSUME TypeOK,
         \/ Main \/ Signal \/ ClientConnects \/ LinkLost \/ Listens \/ OpenFails \/ Listen
         \/ Accept \/ AcceptFails \/ Turn \/ Poll \/ Answer \/ Silent \/ BeginReport
         \/ UNCHANGED vars
  PROVE  TypeOK'
<1> USE DEF TypeOK, process, peer, clock, session, Goto
<1>1. CASE Main
  <2>1. CASE Start BY <2>1 DEF Start
  <2>2. CASE Watch BY <2>2 DEF Watch
  <2>3. CASE Stop
    <3>1. running' \in BOOLEAN
      BY <2>3 DEF Stop
    <3> QED BY <2>3, <3>1 DEF Stop
  <2>4. CASE Join BY <2>4 DEF Join
  <2>5. CASE Destroy BY <2>5 DEF Destroy
  <2> QED BY <1>1, <2>1, <2>2, <2>3, <2>4, <2>5 DEF Main
<1>2. CASE Signal \/ LinkLost \/ Listens \/ OpenFails \/ Poll \/ Silent \/ BeginReport
  <2>1. CASE Signal BY <2>1 DEF Signal
  <2>2. CASE LinkLost BY <2>2 DEF LinkLost
  <2>3. CASE Listens BY <2>3 DEF Listens
  <2>4. CASE OpenFails
    <3>1. running' \in BOOLEAN
      BY <2>4 DEF OpenFails
    <3> QED BY <2>4, <3>1 DEF OpenFails
  <2>5. CASE Poll BY <2>5 DEF Poll
  <2>6. CASE Silent BY <2>6 DEF Silent
  <2>7. CASE BeginReport BY <2>7 DEF BeginReport
  <2> QED BY <1>2, <2>1, <2>2, <2>3, <2>4, <2>5, <2>6, <2>7
<1>3. CASE ClientConnects
  BY <1>3, ServerAssumption DEF ClientConnects
<1>4. CASE Listen \/ Accept \/ AcceptFails
  <2>1. waiting' \in 0..MaxWaiting
    BY <1>4, ServerAssumption DEF Listen, Accept, AcceptFails
  <2> QED BY <1>4, <2>1 DEF Listen, Accept, AcceptFails
<1>5. CASE Turn
  BY <1>5 DEF Turn
<1>6. CASE Answer
  BY <1>6 DEF Answer, Sent, SendFails
<1>7. CASE UNCHANGED vars
  BY <1>7 DEF vars
<1> QED BY <1>1, <1>2, <1>3, <1>4, <1>5, <1>6, <1>7

(***************************************************************************)
(* Reading, sending and the clock keep the types.                          *)
(***************************************************************************)
LEMMA TypeTraffic ==
  ASSUME TypeOK, SkipByte \/ HelloRead \/ ReadFrame \/ ClientSends \/ ClientStopsReading \/ Tick
  PROVE  TypeOK'
<1> USE DEF TypeOK, process, peer, clock, session, Goto
<1>1. CASE SkipByte \/ HelloRead \/ ReadFrame
  <2>1. rx' \in Seq(Kinds)
    BY <1>1, Frames DEF SkipByte, HelloRead, ReadFrame
  <2> QED BY <1>1, <2>1 DEF SkipByte, HelloRead, ReadFrame
<1>2. CASE ClientSends
  <2>1. rx' \in Seq(Kinds) /\ polite' \in BOOLEAN
    BY <1>2, Frames DEF ClientSends
  <2> QED BY <1>2, <2>1 DEF ClientSends
<1>3. CASE Tick
  <2>1. age' \in 0..MaxAge
    BY <1>3, ServerAssumption DEF Tick
  <2> QED BY <1>3, <2>1 DEF Tick
<1>4. CASE ClientStopsReading
  <2>1. polite' \in BOOLEAN
    BY <1>4 DEF ClientStopsReading
  <2> QED BY <1>4, <2>1 DEF ClientStopsReading
<1> QED BY <1>1, <1>2, <1>3, <1>4

(***************************************************************************)
(* serveClient() keeps the types, whether it goes on or returns.           *)
(***************************************************************************)
LEMMA TypeServe ==
  ASSUME TypeOK, Confirm \/ Report \/ ReadFails \/ HelloRefused \/ Drop \/ Killed
  PROVE  TypeOK'
<1>1. CASE Close
  BY <1>1, TypeForgotten DEF Close, Goto, process, TypeOK
<1>2. CASE Killed
  <2>1. 0 \in 0..MaxWaiting
    BY ServerAssumption
  <2> QED BY <1>2, <2>1, TypeForgotten DEF Killed, Goto, TypeOK
<1>3. CASE Confirm /\ ~Close
  BY <1>3 DEF Confirm, Sent, TypeOK, process, Goto
<1>4. CASE Report /\ ~Close
  <2>1. sendSequence' \in 0..2 * SeqMod - 1 /\ WireNumber \in 0..SeqMod - 1
    BY <1>4, CounterWraps DEF Report, WireNumber, TypeOK
  <2>2. point' \in 1..Len(Points) /\ point \in 0..Len(Points)
    BY <1>4 DEF Report, TypeOK, Points
  <2>3. heard' \in [number : 0..SeqMod - 1, point : 0..Len(Points)]
    BY <1>4, <2>1, <2>2 DEF Report
  <2>4. due' \in BOOLEAN /\ worker' \in {"top", "report"}
    BY <1>4 DEF Report, TypeOK, Goto
  <2>5. conn' \in {"none", "up", "silent", "closed", "dead", "reset"}
    BY <1>4 DEF Report, Sent, TypeOK
  <2> QED BY <1>4, <2>1, <2>2, <2>3, <2>4, <2>5 DEF Report, TypeOK, process
<1> QED BY <1>1, <1>2, <1>3, <1>4 DEF ReadFails, HelloRefused, Drop

(***************************************************************************)
(* Every step keeps the types.                                             *)
(***************************************************************************)
LEMMA TypeStep == TypeOK /\ [Next]_vars => TypeOK'
BY TypeControl, TypeTraffic, TypeServe DEF Next, Work, Environment

-----------------------------------------------------------------------------
(* The parts of the invariant. *)

(***************************************************************************)
(* Every step keeps the reason to join the thread.                         *)
(***************************************************************************)
LEMMA JoinStep == JoinMatches /\ [Next]_vars => JoinMatches'
<1> SUFFICES ASSUME JoinMatches, [Next]_vars PROVE JoinMatches'
  OBVIOUS
<1> USE DEF JoinMatches, Goto, process, peer, session
<1>1. CASE Main
  BY <1>1 DEF Main, Start, Watch, Stop, Join, Destroy
<1>2. CASE Listens \/ OpenFails \/ Killed
  BY <1>2 DEF Listens, OpenFails, Killed
<1>3. CASE worker \notin {"off", "done", "killed"} /\ UNCHANGED <<main, running>>
  BY <1>3
<1>4. CASE UNCHANGED <<worker, main, running>>
  BY <1>4
<1>5. Work => \/ Listens \/ OpenFails \/ Killed
              \/ worker \notin {"off", "done", "killed"} /\ UNCHANGED <<main, running>>
  BY DEF Work, Listen, Accept, AcceptFails, SkipByte, ReadFails, HelloRefused, HelloRead,
         Confirm, Drop, Turn, Poll, ReadFrame, Answer, Silent, BeginReport, Report, Close
<1>6. Tick \/ Environment \/ UNCHANGED vars => UNCHANGED <<worker, main, running>>
  BY DEF Tick, Environment, Signal, ClientConnects, ClientSends, ClientStopsReading, LinkLost, vars
<1> QED BY <1>1, <1>2, <1>3, <1>4, <1>5, <1>6 DEF Next

(***************************************************************************)
(* Only a report, and the end of a connection, change what NumberMatches   *)
(* speaks of.                                                              *)
(***************************************************************************)
LEMMA NumberFrame ==
  ASSUME [Next]_vars
  PROVE  UNCHANGED <<heard, sendSequence, point>> \/ Forgotten \/ (Report /\ ~Close)
BY DEF Next, Main, Start, Watch, Stop, Join, Destroy, Work, Listens, OpenFails, Listen, Accept,
       AcceptFails, SkipByte, ReadFails, HelloRefused, HelloRead, Confirm, Drop, Turn, Poll,
       ReadFrame, Answer, Silent, BeginReport, Killed, Close, Tick, Environment, Signal,
       ClientConnects, ClientSends, ClientStopsReading, LinkLost, vars, session

(***************************************************************************)
(* A report has the next number and the next point.                        *)
(***************************************************************************)
LEMMA ReportStep ==
  ASSUME TypeOK, NumberMatches, Report, ~Close
  PROVE  /\ heard' # NotHeard
         /\ heard'.number = IF heard = NotHeard THEN 0 ELSE (heard.number + 1) % SeqMod
         /\ heard'.point = (heard.point % Len(Points)) + 1
         /\ sendSequence' % SeqMod = (heard'.number + 1) % SeqMod
         /\ point' = (heard'.point % Len(Points)) + 1
<1>1. /\ heard' = [number |-> WireNumber, point |-> point]
      /\ sendSequence' = (sendSequence + 1) % (2 * SeqMod)
      /\ point' = (point % Len(Points)) + 1
  BY DEF Report
<1>2. heard'.number = sendSequence % SeqMod /\ heard'.point = point
  BY <1>1 DEF WireNumber
<1>3. point \in 1..Len(Points) /\ Len(Points) = 3
  BY DEF TypeOK, Points
<1>4. heard' # NotHeard
  BY <1>2, <1>3 DEF NotHeard
<1>5. sendSequence' % SeqMod = (heard'.number + 1) % SeqMod
  BY <1>1, <1>2, CounterWraps DEF TypeOK
<1>6. CASE heard = NotHeard
  <2>1. sendSequence = 0 /\ point = 1 /\ heard.point = 0
    BY <1>6 DEF NumberMatches, NotHeard
  <2>2. 0 % SeqMod = 0
    BY ServerAssumption
  <2>3. (0 % Len(Points)) + 1 = 1
    BY <1>3
  <2> QED BY <1>1, <1>2, <1>4, <1>5, <1>6, <2>1, <2>2, <2>3
<1>7. CASE heard # NotHeard
  BY <1>1, <1>2, <1>4, <1>5, <1>7 DEF NumberMatches
<1> QED BY <1>6, <1>7

(***************************************************************************)
(* Every step keeps the numbering.                                         *)
(***************************************************************************)
LEMMA NumberStep == TypeOK /\ NumberMatches /\ [Next]_vars => NumberMatches'
<1> SUFFICES ASSUME TypeOK, NumberMatches, [Next]_vars PROVE NumberMatches'
  OBVIOUS
<1>1. CASE UNCHANGED <<heard, sendSequence, point>>
  BY <1>1 DEF NumberMatches
<1>2. CASE Forgotten
  BY <1>2 DEF Forgotten, NumberMatches
<1>3. CASE Report /\ ~Close
  BY <1>3, ReportStep DEF NumberMatches
<1> QED BY <1>1, <1>2, <1>3, NumberFrame

(***************************************************************************)
(* Every step keeps the connections apart.                                 *)
(***************************************************************************)
LEMMA UnservedStep == Unserved /\ JoinMatches /\ [Next]_vars => Unserved'
<1> SUFFICES ASSUME Unserved, JoinMatches, [Next]_vars PROVE Unserved'
  OBVIOUS
<1> USE DEF Unserved, Goto, process, peer, session
<1>1. CASE Main
  BY <1>1 DEF JoinMatches, Main, Start, Watch, Stop, Join, Destroy
<1>2. CASE Work
  BY <1>2 DEF Work, Listens, OpenFails, Listen, Accept, AcceptFails, SkipByte, ReadFails,
       HelloRefused, HelloRead, Confirm, Drop, Turn, Poll, ReadFrame, Answer, Silent,
       BeginReport, Report, Killed, Close, Forgotten
<1>3. CASE Tick \/ Environment \/ UNCHANGED vars
  BY <1>3 DEF Tick, Environment, Signal, ClientConnects, ClientSends, ClientStopsReading, LinkLost, vars
<1> QED BY <1>1, <1>2, <1>3 DEF Next

(***************************************************************************)
(* Only these steps change what is on its way, or begin to read.           *)
(***************************************************************************)
LEMMA PoliteFrame ==
  ASSUME [Next]_vars
  PROVE  \/ /\ UNCHANGED <<rx, polite>>
            /\ worker' = "scan" => worker = "scan" /\ UNCHANGED started /\ (conn' = "up" => conn = "up")
         \/ Accept \/ Poll \/ SkipByte \/ HelloRead \/ ReadFrame \/ ClientSends
         \/ ClientStopsReading \/ Forgotten
BY DEF Next, Main, Start, Watch, Stop, Join, Destroy, Work, Listens, OpenFails, Listen,
       AcceptFails, ReadFails, HelloRefused, Confirm, Drop, Turn,
       Answer, Silent, BeginReport, Report, Killed, Close, Sent, SendFails, Tick, Environment, Signal,
       ClientConnects, LinkLost, vars, process, peer, session, Goto

(***************************************************************************)
(* Every step keeps what a polite client has on its way.                   *)
(***************************************************************************)
LEMMA PoliteStep ==
  TypeOK /\ PoliteMatches /\ Unserved /\ [Next]_vars => PoliteMatches'
<1> SUFFICES ASSUME TypeOK, PoliteMatches, Unserved, [Next]_vars PROVE PoliteMatches'
  OBVIOUS
<1> USE DEF PoliteMatches, session, process, Goto
<1>1. rx \in Seq(Kinds) /\ Len(rx) \in Nat
  BY LenProperties DEF TypeOK
<1>2. CASE /\ UNCHANGED <<rx, polite>>
           /\ worker' = "scan" => worker = "scan" /\ UNCHANGED started /\ (conn' = "up" => conn = "up")
  BY <1>2
<1>3. CASE Accept
  BY <1>3 DEF Accept, Unserved
<1>4. CASE Poll
  BY <1>4 DEF Poll, PeerGone, peer
<1>5. CASE SkipByte
  <2>1. ~polite
    <3>1. rx # << >> /\ rx[1] = "garbage"
      BY <1>1, <1>5, Frames DEF SkipByte
    <3>2. 1 \in 1..Len(rx)
      BY <1>1, <3>1, EmptySeq
    <3> QED BY <3>1, <3>2 DEF Whole, Requests
  <2> QED BY <1>5, <2>1 DEF SkipByte
<1>6. CASE HelloRead \/ ReadFrame
  <2>1. rx # << >> /\ rx' = Tail(rx) /\ polite' = polite /\ worker' # "scan"
    BY <1>6 DEF HelloRead, ReadFrame
  <2>2. \A k \in 1..Len(rx') : k + 1 \in 1..Len(rx) /\ rx'[k] = rx[k + 1]
    BY <1>1, <2>1, Frames
  <2> QED BY <2>1, <2>2
<1>7. CASE ClientSends
  <2>1. PICK kind \in Kinds : rx' = Append(rx, kind) /\ polite' = (polite /\ kind \in Whole)
    BY <1>7 DEF ClientSends
  <2>2. /\ rx' # << >> /\ Len(rx') = Len(rx) + 1
        /\ \A k \in 1..Len(rx) : rx'[k] = rx[k]
        /\ rx'[Len(rx) + 1] = kind
    BY <1>1, <2>1, Frames
  <2>3. ASSUME polite', NEW k \in 1..Len(rx') PROVE rx'[k] \in Whole
    <3>1. polite /\ kind \in Whole
      BY <2>1, <2>3
    <3>2. k \in 1..Len(rx) \/ k = Len(rx) + 1
      BY <1>1, <2>2
    <3> QED BY <2>2, <3>1, <3>2
  <2> QED BY <2>2, <2>3
<1>8. CASE Forgotten
  BY <1>8, EmptySeq DEF Forgotten
<1>9. CASE ClientStopsReading
  BY <1>9 DEF ClientStopsReading
<1> QED BY <1>2, <1>3, <1>4, <1>5, <1>6, <1>7, <1>8, <1>9, PoliteFrame

-----------------------------------------------------------------------------
(* The theorems. *)

(***************************************************************************)
(* The invariant of the simulator holds at any time, for any clients: its  *)
(* thread and the main thread agree on who is joined, and a session on     *)
(* what was reported, asked for and answered.                              *)
(***************************************************************************)
THEOREM Inductive == Spec => []IInv
<1>1. Init => IInv
  <2> SUFFICES ASSUME Init PROVE IInv
    OBVIOUS
  <2>1. TypeOK
    BY TypeInit
  <2>2. PoliteMatches
    BY EmptySeq DEF Init, PoliteMatches
  <2>3. Unserved /\ NumberMatches /\ JoinMatches
    BY DEF Init, Unserved, NumberMatches, JoinMatches
  <2> QED BY <2>1, <2>2, <2>3 DEF IInv
<1>2. IInv /\ [Next]_vars => IInv'
  BY TypeStep, UnservedStep, PoliteStep, NumberStep, JoinStep DEF IInv
<1> QED BY <1>1, <1>2, PTL DEF Spec

(***************************************************************************)
(* The variables of the simulator keep their types.                        *)
(***************************************************************************)
THEOREM ServerTypeCorrect == Spec => []TypeOK
<1>1. IInv => TypeOK
  BY DEF IInv
<1> QED BY <1>1, Inductive, PTL

(***************************************************************************)
(* Every client gets the reports numbered from 0 on, one after the other,  *)
(* and the points in turn, for any width of the numbers.                   *)
(***************************************************************************)
THEOREM ServerReportsInOrder == Spec => ReportsInOrder
<1>1. IInv /\ [Next]_vars =>
        (heard' \notin {heard, NotHeard} =>
           /\ heard'.number = IF heard = NotHeard THEN 0 ELSE (heard.number + 1) % SeqMod
           /\ heard'.point = (heard.point % Len(Points)) + 1)
  <2> SUFFICES ASSUME IInv, [Next]_vars, heard' \notin {heard, NotHeard}
               PROVE  /\ heard'.number = IF heard = NotHeard THEN 0
                                         ELSE (heard.number + 1) % SeqMod
                      /\ heard'.point = (heard.point % Len(Points)) + 1
    OBVIOUS
  <2>1. Report /\ ~Close
    BY NumberFrame DEF Forgotten
  <2> QED BY <2>1, ReportStep DEF IInv
<1> QED BY <1>1, Inductive, PTL DEF Spec, ReportsInOrder

(***************************************************************************)
(* A client that sends nothing but whole frames keeps its link until the   *)
(* server stops or drops it on time, however many frames it sends.         *)
(***************************************************************************)
THEOREM ServerKeepsPoliteClient == Spec => KeepsPoliteClient
<1>1. IInv /\ [Next]_vars =>
        (conn = "up" /\ started /\ polite /\ conn' = "none" => ~running \/ DropDue)
  <2> SUFFICES ASSUME IInv, [Next]_vars, conn = "up", started, polite, conn' = "none"
               PROVE  ~running \/ DropDue
    OBVIOUS
  <2>1. Drop \/ ReadFails
    BY DEF Next, Main, Start, Watch, Stop, Join, Destroy, Work, Listens, OpenFails, Listen,
       Accept, AcceptFails, SkipByte, HelloRefused, HelloRead, Confirm, Turn, Poll, ReadFrame,
       Answer, Silent, BeginReport, Report, Killed, Sent, SendFails, Tick, Environment, Signal,
       ClientConnects, ClientSends, ClientStopsReading, LinkLost, vars, peer, session
  <2>2. ~ReadFails
    <3>1. rx \in Seq(Kinds)
      BY DEF IInv, TypeOK
    <3>2. rx # << >> => 1 \in 1..Len(rx) /\ Head(rx) = rx[1]
      BY <3>1, Frames, EmptySeq, LenProperties
    <3> QED BY <3>2 DEF ReadFails, IInv, PoliteMatches, Whole, Requests
  <2> QED BY <2>1, <2>2 DEF Drop
<1> QED BY <1>1, Inductive, PTL DEF Spec, KeepsPoliteClient

(***************************************************************************)
(* What holds once the server has listened: the main thread joins the      *)
(* thread before it is destroyed.                                          *)
(***************************************************************************)
InHand ==
    /\ worker \notin {"off", "open"}
    /\ main \notin {"start", "aborted"}
    /\ main \in {"watch", "stop"} => running
    /\ main = "destroy" => ~joinable

(***************************************************************************)
(* Once the server has listened, the process does not end by               *)
(* std::terminate(), whenever the signal comes and whatever accept() says. *)
(***************************************************************************)
THEOREM ServerListeningEndsInOrder == Spec => ListeningEndsInOrder
<1>1. IInv /\ worker = "listen" => InHand
  BY DEF IInv, JoinMatches, InHand
<1>2. InHand /\ [Next]_vars => InHand'
  <2> SUFFICES ASSUME InHand, [Next]_vars PROVE InHand'
    OBVIOUS
  <2> USE DEF InHand, Goto, process, peer, session
  <2>1. CASE Main
    BY <2>1 DEF Main, Start, Watch, Stop, Join, Destroy
  <2>2. CASE Killed
    BY <2>2 DEF Killed
  <2>3. CASE worker' \notin {"off", "open"} /\ UNCHANGED <<main, running, joinable>>
    BY <2>3
  <2>4. Work => Killed \/ (worker' \notin {"off", "open"} /\ UNCHANGED <<main, running, joinable>>)
    BY DEF Work, Listens, OpenFails, Listen, Accept, AcceptFails, SkipByte, ReadFails,
       HelloRefused, HelloRead, Confirm, Drop, Turn, Poll, ReadFrame, Answer, Silent,
       BeginReport, Report, Close
  <2>5. Tick \/ Environment \/ UNCHANGED vars => UNCHANGED <<worker, main, running, joinable>>
    BY DEF Tick, Environment, Signal, ClientConnects, ClientSends, ClientStopsReading, LinkLost, vars
  <2> QED BY <2>1, <2>2, <2>3, <2>4, <2>5 DEF Next
<1>3. InHand => main # "aborted"
  BY DEF InHand
<1> QED BY <1>1, <1>2, <1>3, Inductive, PTL DEF Spec, ListeningEndsInOrder

=============================================================================
