------------------------- MODULE Iec104ClientProofs -------------------------
(***************************************************************************)
(* Theorems about Iec104Client, for all limits of the heartbeat, any       *)
(* number of sequence numbers and all values of the bounds.                *)
(***************************************************************************)
EXTENDS Iec104Client, SequenceTheorems, TLAPS

-----------------------------------------------------------------------------
(* Numbered streams. *)

Item == Frame \cup {Garbage, Broken, Partial}

Follow(n) == (n + 1) % SeqMod

Count(items, number) ==
    \A k \in 1..Len(items) :
        IF items[k].kind = "data"
        THEN items[k].seq = number[k - 1] /\ number[k] = Follow(number[k - 1])
        ELSE number[k] = number[k - 1]

(***************************************************************************)
(* The data of the items is numbered without a gap from the number from    *)
(* on, and the next number after them is to.                               *)
(***************************************************************************)
Numbered(items, from, to) ==
    \E number \in [0..Len(items) -> Sequence] :
        /\ Count(items, number)
        /\ number[0] = from
        /\ number[Len(items)] = to

(***************************************************************************)
(* A number is followed by a number.                                       *)
(***************************************************************************)
LEMMA FollowType ==
  ASSUME NEW n \in Sequence
  PROVE  Follow(n) \in Sequence
BY ClientAssumption DEF Follow, Sequence

(***************************************************************************)
(* Nothing on its way takes the numbers no further.                        *)
(***************************************************************************)
LEMMA NumberedEmpty ==
  ASSUME NEW n \in Sequence
  PROVE  Numbered(<< >>, n, n)
<1> DEFINE number == [k \in 0..0 |-> n]
<1>1. Count(<< >>, number)
  BY DEF Count
<1> QED BY <1>1 DEF Numbered

(***************************************************************************)
(* What arrives is the next frame or no data at all.                       *)
(***************************************************************************)
LEMMA NumberedAppend ==
  ASSUME NEW items \in Seq(Item), NEW from, NEW to, Numbered(items, from, to),
         NEW item \in Item, item.kind = "data" => item.seq = to
  PROVE  Numbered(Append(items, item), from, IF item.kind = "data" THEN Follow(to) ELSE to)
<1> DEFINE longer == Append(items, item)
           next == IF item.kind = "data" THEN Follow(to) ELSE to
<1>1. PICK number \in [0..Len(items) -> Sequence] :
         Count(items, number) /\ number[0] = from /\ number[Len(items)] = to
  BY DEF Numbered
<1> DEFINE more == [k \in 0..Len(longer) |-> IF k = Len(longer) THEN next ELSE number[k]]
<1>2. /\ Len(items) \in Nat
      /\ Len(longer) = Len(items) + 1
      /\ \A k \in 1..Len(items) : longer[k] = items[k]
      /\ longer[Len(longer)] = item
  OBVIOUS
<1>3. to \in Sequence /\ next \in Sequence
  <2>1. Len(items) \in 0..Len(items)
    BY <1>2
  <2>2. to \in Sequence
    BY <1>1, <2>1 DEF Count
  <2> QED BY <2>2, FollowType
<1>4. more \in [0..Len(longer) -> Sequence]
  BY <1>1, <1>2, <1>3 DEF Count
<1>5. ASSUME NEW k \in 1..Len(longer)
      PROVE  IF longer[k].kind = "data"
             THEN longer[k].seq = more[k - 1] /\ more[k] = Follow(more[k - 1])
             ELSE more[k] = more[k - 1]
  <2>1. CASE k = Len(longer)
    <3>1. more[k] = next /\ more[k - 1] = to /\ longer[k] = item
      BY <1>1, <1>2, <2>1
    <3> QED BY <3>1
  <2>2. CASE k # Len(longer)
    <3>1. k \in 1..Len(items)
      BY <1>2, <2>2
    <3>2. more[k] = number[k] /\ more[k - 1] = number[k - 1] /\ longer[k] = items[k]
      BY <1>2, <3>1
    <3> QED BY <1>1, <3>1, <3>2 DEF Count
  <2> QED BY <2>1, <2>2
<1>6. more[0] = from /\ more[Len(longer)] = next
  BY <1>1, <1>2
<1>7. Count(longer, more)
  BY <1>5 DEF Count
<1> QED BY <1>4, <1>6, <1>7 DEF Numbered

(***************************************************************************)
(* What is read first is the next frame or no data at all.                 *)
(***************************************************************************)
LEMMA NumberedTail ==
  ASSUME NEW items \in Seq(Item), items # << >>, NEW from, NEW to, Numbered(items, from, to)
  PROVE  /\ Head(items).kind = "data" =>
              Head(items).seq = from /\ Numbered(Tail(items), Follow(from), to)
         /\ Head(items).kind # "data" => Numbered(Tail(items), from, to)
<1>1. PICK number \in [0..Len(items) -> Sequence] :
         Count(items, number) /\ number[0] = from /\ number[Len(items)] = to
  BY DEF Numbered
<1> DEFINE rest == Tail(items)
           less == [k \in 0..Len(rest) |-> number[k + 1]]
<1>2. /\ Len(items) \in Nat \ {0}
      /\ Len(rest) = Len(items) - 1
      /\ \A k \in 1..Len(rest) : rest[k] = items[k + 1]
      /\ Head(items) = items[1]
  OBVIOUS
<1>3. less \in [0..Len(rest) -> Sequence]
  BY <1>1, <1>2 DEF Count
<1>4. ASSUME NEW k \in 1..Len(rest)
      PROVE  IF rest[k].kind = "data"
             THEN rest[k].seq = less[k - 1] /\ less[k] = Follow(less[k - 1])
             ELSE less[k] = less[k - 1]
  <2>1. k + 1 \in 1..Len(items) /\ (k + 1) - 1 = k
    BY <1>2
  <2>2. less[k] = number[k + 1] /\ less[k - 1] = number[k] /\ rest[k] = items[k + 1]
    BY <1>2
  <2>3. IF items[k + 1].kind = "data"
        THEN items[k + 1].seq = number[k] /\ number[k + 1] = Follow(number[k])
        ELSE number[k + 1] = number[k]
    BY <1>1, <2>1 DEF Count
  <2> QED BY <2>2, <2>3
<1>5. Count(rest, less)
  BY <1>4 DEF Count
<1>6. less[Len(rest)] = to
  BY <1>1, <1>2
<1>7. IF items[1].kind = "data"
      THEN items[1].seq = from /\ less[0] = Follow(from)
      ELSE less[0] = from
  <2>1. 1 \in 1..Len(items) /\ 1 - 1 = 0 /\ less[0] = number[1]
    BY <1>2
  <2> QED BY <1>1, <2>1 DEF Count
<1> QED BY <1>2, <1>3, <1>5, <1>6, <1>7 DEF Numbered

(***************************************************************************)
(* A frame that is completed is numbered as if it came now.                *)
(***************************************************************************)
LEMMA NumberedComplete ==
  ASSUME NEW items \in Seq(Item), items # << >>, items[Len(items)].kind # "data",
         NEW from, NEW to, Numbered(items, from, to),
         NEW item \in Item, item.kind = "data" => item.seq = to
  PROVE  Numbered([items EXCEPT ![Len(items)] = item], from,
                  IF item.kind = "data" THEN Follow(to) ELSE to)
<1> DEFINE last == Len(items)
           whole == [items EXCEPT ![last] = item]
           next == IF item.kind = "data" THEN Follow(to) ELSE to
<1>1. PICK number \in [0..Len(items) -> Sequence] :
         Count(items, number) /\ number[0] = from /\ number[last] = to
  BY DEF Numbered
<1> DEFINE new == [k \in 0..last |-> IF k = last THEN next ELSE number[k]]
<1>2. /\ last \in Nat \ {0}
      /\ Len(whole) = last
      /\ \A k \in 1..last : whole[k] = IF k = last THEN item ELSE items[k]
  OBVIOUS
<1>3. to \in Sequence /\ next \in Sequence
  <2>1. last \in 0..last
    BY <1>2
  <2>2. to \in Sequence
    BY <1>1, <2>1 DEF Count
  <2> QED BY <2>2, FollowType
<1>4. new \in [0..Len(whole) -> Sequence]
  BY <1>1, <1>2, <1>3 DEF Count
<1>5. number[last - 1] = to
  BY <1>1, <1>2 DEF Count
<1>6. ASSUME NEW k \in 1..Len(whole)
      PROVE  IF whole[k].kind = "data"
             THEN whole[k].seq = new[k - 1] /\ new[k] = Follow(new[k - 1])
             ELSE new[k] = new[k - 1]
  <2>1. k \in 1..last /\ k \in 0..last /\ k - 1 \in 0..last /\ k - 1 # last
    BY <1>2
  <2>2. new[k - 1] = number[k - 1]
    BY <2>1
  <2>3. new[k] = IF k = last THEN next ELSE number[k]
    BY <2>1
  <2>4. whole[k] = IF k = last THEN item ELSE items[k]
    BY <1>2, <2>1
  <2>5. CASE k = last
    <3>1. new[k - 1] = to
      BY <1>5, <2>2, <2>5
    <3> QED BY <2>3, <2>4, <2>5, <3>1
  <2>6. CASE k # last
    <3>1. IF items[k].kind = "data"
          THEN items[k].seq = number[k - 1] /\ number[k] = Follow(number[k - 1])
          ELSE number[k] = number[k - 1]
      BY <1>1, <2>1 DEF Count
    <3> HIDE DEF new, whole
    <3> QED BY <2>2, <2>3, <2>4, <2>6, <3>1
  <2> QED BY <2>5, <2>6
<1>7. new[0] = from /\ new[Len(whole)] = next
  BY <1>1, <1>2
<1>8. Count(whole, new)
  BY <1>6 DEF Count
<1> QED BY <1>4, <1>7, <1>8 DEF Numbered

-----------------------------------------------------------------------------
(* The inductive invariant. *)

(***************************************************************************)
(* Where the worker is tells whether it is connected and may transfer.     *)
(***************************************************************************)
Unlinked == {"off", "top", "connect", "sleep", "done", "killed"}

LinkMatches ==
    /\ connected <=> worker \notin Unlinked
    /\ worker \in Unlinked \cup {"startdt"} => ~transfer
    /\ worker \in {"loop", "beat", "poll", "answer", "ack", "deliver"} => transfer
    /\ objects > 0 => worker = "deliver"

(***************************************************************************)
(* A frame is held from readApdu() to the delivery, and only then.  The    *)
(* body is read of something that is there.                                *)
(***************************************************************************)
FrameMatches ==
    /\ frame = NoFrame <=> worker \notin {"handle", "ack", "deliver"}
    /\ worker \in {"ack", "deliver"} => frame.kind = "data"
    /\ worker = "ack" => receiveSeq = frame.seq + 1
    /\ worker = "body" => rx # << >>

(***************************************************************************)
(* The frame in hand, and then what is on its way, are numbered from the   *)
(* last frame that was handed over.                                        *)
(***************************************************************************)
NextOnWay == IF frame.kind = "data" THEN Follow(handed) ELSE handed

InOrder ==
    /\ frame.kind = "data" => frame.seq = handed
    /\ Numbered(rx, NextOnWay, sendSeq)

AckMatches == acked = IF worker = "deliver" THEN Follow(handed) ELSE handed

IInv == TypeOK /\ LinkMatches /\ FrameMatches /\ InOrder /\ AckMatches

-----------------------------------------------------------------------------
(* The invariant is inductive. *)

(***************************************************************************)
(* A frame is whole.                                                       *)
(***************************************************************************)
LEMMA FrameKinds == \A f \in Frame : f.kind \in WholeKinds /\ f.seq \in Sequence /\ f # NoFrame
BY DEF Frame, WholeKinds, NoFrame

(***************************************************************************)
(* The invariant holds at first: nothing is on its way.                    *)
(***************************************************************************)
LEMMA InitHolds == Init => IInv
<1> SUFFICES ASSUME Init PROVE IInv
  OBVIOUS
<1>1. 0 \in Sequence
  BY ClientAssumption DEF Sequence
<1>2. TypeOK
  <2>1. /\ 0 \in 0..SeqMod /\ 0 \in 0..MaxObjects
        /\ 0 \in 0..HeartbeatInterval /\ 0 \in 0..HeartbeatTimeout
    BY ClientAssumption
  <2>2. << >> \in Seq(Frame \cup {Garbage, Broken, Partial})
    OBVIOUS
  <2> QED BY <1>1, <2>1, <2>2, Zenon DEF Init, TypeOK, WorkerStates
<1>3. LinkMatches
  BY DEF Init, LinkMatches, Unlinked
<1>4. FrameMatches
  BY DEF Init, FrameMatches
<1>5. InOrder
  <2>1. Numbered(<< >>, 0, 0)
    BY <1>1, NumberedEmpty
  <2> QED BY <2>1 DEF Init, InOrder, NextOnWay, NoFrame
<1>6. AckMatches
  BY DEF Init, AckMatches
<1> QED BY <1>2, <1>3, <1>4, <1>5, <1>6 DEF IInv

(***************************************************************************)
(* Nothing of a connection is left when it is gone.                        *)
(***************************************************************************)
LEMMA DisconnectedHolds ==
  ASSUME IInv, Disconnected, worker' \in {"sleep", "killed"},
         running' \in BOOLEAN, owner' \in {"free", "joining"}, receiveSeq' \in 0..SeqMod
  PROVE  IInv'
<1>1. 0 \in Sequence
  BY ClientAssumption DEF Sequence
<1>2. TypeOK'
  <2>1. 0 \in 0..MaxObjects /\ 0 \in 0..HeartbeatInterval /\ 0 \in 0..HeartbeatTimeout
    BY ClientAssumption
  <2>2. << >> \in Seq(Frame \cup {Garbage, Broken, Partial})
    OBVIOUS
  <2>3. worker' \in WorkerStates
    BY DEF WorkerStates
  <2> QED BY <1>1, <2>1, <2>2, <2>3, Zenon DEF Disconnected, TypeOK
<1>3. LinkMatches'
  BY DEF Disconnected, LinkMatches, Unlinked
<1>4. FrameMatches'
  BY DEF Disconnected, FrameMatches
<1>5. InOrder'
  <2>1. Numbered(<< >>, 0, 0)
    BY <1>1, NumberedEmpty
  <2> QED BY <2>1 DEF Disconnected, InOrder, NextOnWay, NoFrame
<1>6. AckMatches'
  BY DEF Disconnected, AckMatches
<1> QED BY <1>2, <1>3, <1>4, <1>5, <1>6 DEF IInv

(***************************************************************************)
(* To let go of the connection forgets the frame at hand and all that is   *)
(* on its way.                                                             *)
(***************************************************************************)
LEMMA DropHolds == IInv /\ Drop => IInv'
<1> SUFFICES ASSUME IInv, Drop PROVE IInv'
  OBVIOUS
<1> QED BY DisconnectedHolds DEF Drop, control, IInv, TypeOK

(***************************************************************************)
(* A process that ended has nothing at hand.                               *)
(***************************************************************************)
LEMMA KilledHolds == IInv /\ Killed => IInv'
<1> SUFFICES ASSUME IInv, Killed PROVE IInv'
  OBVIOUS
<1>1. 0 \in 0..SeqMod
  BY ClientAssumption
<1> QED BY <1>1, DisconnectedHolds DEF Killed

(***************************************************************************)
(* Steps that leave the frame and the stream alone.                        *)
(***************************************************************************)
Aside == UNCHANGED <<frame, objects, rx, sendSeq, acked, handed>>

(***************************************************************************)
(* A step that moves no frame keeps the order of the frames and the        *)
(* account of what was acknowledged.                                       *)
(***************************************************************************)
LEMMA AsideHolds ==
  ASSUME IInv, Aside, LinkMatches', FrameMatches',
         running' \in BOOLEAN, owner' \in {"free", "joining"}, worker' \in WorkerStates,
         transfer' \in BOOLEAN, connected' \in BOOLEAN, receiveSeq' \in 0..SeqMod,
         pending' \in BOOLEAN, idle' \in 0..HeartbeatInterval, waiting' \in 0..HeartbeatTimeout,
         tcp' \in {"none", "up", "silent", "closed", "dead", "reset"},
         worker = "deliver" <=> worker' = "deliver"
  PROVE  IInv'
<1>1. TypeOK'
  BY DEF Aside, TypeOK, IInv
<1>2. InOrder'
  BY DEF Aside, InOrder, NextOnWay, IInv
<1>3. AckMatches'
  BY DEF Aside, AckMatches, IInv
<1> QED BY <1>1, <1>2, <1>3 DEF IInv

(***************************************************************************)
(* The owner, time, the loss of the link, and the worker between two       *)
(* frames.                                                                 *)
(***************************************************************************)
Asides ==
    \/ Start \/ Stop \/ Joined \/ Top \/ Connect \/ Sleep \/ StartByte
    \/ StartHeartbeat \/ NoHeartbeat \/ Poll \/ Tick \/ LinkLost \/ UNCHANGED vars

(***************************************************************************)
(* The steps that move no frame keep the invariant.                        *)
(***************************************************************************)
LEMMA AsidesHold == IInv /\ Asides => IInv'
<1> SUFFICES ASSUME IInv, Asides PROVE IInv'
  OBVIOUS
<1> USE DEF control, beat, network
<1>1. Aside
  BY DEF Asides, Aside, Start, Stop, Joined, Top, Connect, Sleep, StartByte, StartHeartbeat,
         NoHeartbeat, Poll, Tick, LinkLost, Goto, vars
<1>2. LinkMatches'
  BY DEF Asides, IInv, LinkMatches, Unlinked, TypeOK, WorkerStates,
         Start, Stop, Joined, Top, Connect, Sleep, StartByte, StartHeartbeat,
         NoHeartbeat, Poll, Tick, LinkLost, Goto, vars
<1>3. FrameMatches'
  BY DEF Asides, IInv, FrameMatches, TypeOK, WorkerStates,
         Start, Stop, Joined, Top, Connect, Sleep, StartByte, StartHeartbeat,
         NoHeartbeat, Poll, Tick, LinkLost, Goto, vars
<1>4. /\ running' \in BOOLEAN /\ owner' \in {"free", "joining"}
      /\ transfer' \in BOOLEAN /\ connected' \in BOOLEAN /\ pending' \in BOOLEAN
  BY DEF Asides, IInv, TypeOK,
         Start, Stop, Joined, Top, Connect, Sleep, StartByte, StartHeartbeat,
         NoHeartbeat, Poll, Tick, LinkLost, vars
<1>5. worker' \in WorkerStates /\ (worker = "deliver" <=> worker' = "deliver")
  BY DEF Asides, IInv, TypeOK, WorkerStates,
         Start, Stop, Joined, Top, Connect, Sleep, StartByte, StartHeartbeat,
         NoHeartbeat, Poll, Tick, LinkLost, Goto, vars
<1>6. receiveSeq' \in 0..SeqMod /\ tcp' \in {"none", "up", "silent", "closed", "dead", "reset"}
  BY ClientAssumption DEF Asides, IInv, TypeOK,
         Start, Stop, Joined, Top, Connect, Sleep, StartByte, StartHeartbeat,
         NoHeartbeat, Poll, Tick, LinkLost, vars
<1>7. idle' \in 0..HeartbeatInterval /\ waiting' \in 0..HeartbeatTimeout
  BY ClientAssumption DEF Asides, IInv, TypeOK,
         Start, Stop, Joined, Top, Connect, Sleep, StartByte, StartHeartbeat,
         NoHeartbeat, Poll, Tick, LinkLost, vars
<1> QED BY <1>1, <1>2, <1>3, <1>4, <1>5, <1>6, <1>7, AsideHolds

(***************************************************************************)
(* A send that fails drops the connection; one that succeeds leaves the    *)
(* stream alone, and that of an acknowledgement tells of the frame in      *)
(* hand.                                                                   *)
(***************************************************************************)
LEMMA SendHolds == IInv /\ (SendStartDt \/ SendHeartbeat \/ SendAnswer) => IInv'
<1> SUFFICES ASSUME IInv, SendStartDt \/ SendHeartbeat \/ SendAnswer, ~Drop PROVE IInv'
  BY DropHolds
<1> USE DEF control, beat, network
<1> DEFINE went == UNCHANGED <<control, transfer, connected, frame, objects, receiveSeq, idle,
                               waiting, rx, sendSeq, acked, handed>>
<1>1. Sent /\ went
  BY DEF SendStartDt, SendHeartbeat, SendAnswer
<1>2. \/ worker = "startdt" /\ worker' = "scan" /\ pending' = pending
      \/ worker = "beat" /\ worker' = "poll" /\ pending' = TRUE
      \/ worker = "answer" /\ worker' = "loop" /\ pending' = pending
  BY DEF SendStartDt, SendHeartbeat, SendAnswer, Goto
<1>3. LinkMatches'
  BY <1>1, <1>2 DEF IInv, LinkMatches, Unlinked
<1>4. FrameMatches'
  BY <1>1, <1>2 DEF IInv, FrameMatches
<1> QED BY <1>1, <1>2, <1>3, <1>4, AsideHolds DEF Aside, IInv, TypeOK, WorkerStates, Sent

(***************************************************************************)
(* The acknowledgement names the frame after the one at hand: the peer is  *)
(* told of one frame more than was handed over.                            *)
(***************************************************************************)
LEMMA SendAckHolds == IInv /\ SendAck => IInv'
<1> SUFFICES ASSUME IInv, SendAck, ~Drop PROVE IInv'
  BY DropHolds
<1> USE DEF control, beat, network
<1>1. /\ worker = "ack" /\ worker' = "deliver"
      /\ acked' = receiveSeq % SeqMod
      /\ objects' \in 0..MaxObjects
      /\ tcp' \in {tcp, "dead"}
      /\ UNCHANGED <<control, transfer, connected, frame, receiveSeq, beat, rx, sendSeq, handed>>
  BY DEF SendAck, Sent, Goto
<1>2. frame.kind = "data" /\ receiveSeq = frame.seq + 1 /\ frame.seq = handed
  BY <1>1 DEF IInv, FrameMatches, InOrder
<1>3. acked' = Follow(handed) /\ acked' \in Sequence
  BY <1>1, <1>2, FollowType DEF Follow, IInv, TypeOK
<1>4. TypeOK'
  BY <1>1, <1>3 DEF IInv, TypeOK, WorkerStates
<1>5. LinkMatches' /\ FrameMatches'
  BY <1>1, <1>2 DEF IInv, LinkMatches, Unlinked, FrameMatches
<1>6. InOrder'
  BY <1>1 DEF IInv, InOrder, NextOnWay
<1>7. AckMatches'
  BY <1>1, <1>3 DEF AckMatches
<1> QED BY <1>4, <1>5, <1>6, <1>7 DEF IInv

(***************************************************************************)
(* readApdu(): what does not start a frame is no data; a frame that is     *)
(* read is the next one.                                                   *)
(***************************************************************************)
LEMMA SkipByteHolds == IInv /\ SkipByte => IInv'
<1> SUFFICES ASSUME IInv, SkipByte PROVE IInv'
  OBVIOUS
<1> USE DEF control, beat, SkipByte
<1>1. rx \in Seq(Item) /\ rx # << >> /\ Head(rx).kind # "data"
  BY DEF IInv, TypeOK, Item, Garbage
<1>2. Numbered(rx', NextOnWay, sendSeq)
  BY <1>1, NumberedTail DEF IInv, InOrder
<1>3. rx' \in Seq(Item)
  BY <1>1
<1>4. TypeOK'
  BY <1>3 DEF IInv, TypeOK, Item
<1>5. LinkMatches' /\ FrameMatches' /\ AckMatches'
  BY DEF IInv, LinkMatches, FrameMatches, AckMatches
<1>6. InOrder'
  BY <1>2 DEF IInv, InOrder, NextOnWay
<1> QED BY <1>4, <1>5, <1>6 DEF IInv

(***************************************************************************)
(* The frame at hand is the first of what was on its way.                  *)
(***************************************************************************)
LEMMA ReadBodyHolds == IInv /\ ReadBody => IInv'
<1> SUFFICES ASSUME IInv, ReadBody PROVE IInv'
  OBVIOUS
<1> USE DEF control, beat, ReadBody, Goto
<1>1. rx \in Seq(Item) /\ rx # << >>
  BY DEF IInv, TypeOK, Item, FrameMatches
<1>2. frame = NoFrame /\ frame.kind = "none" /\ NextOnWay = handed
  BY DEF IInv, FrameMatches, NoFrame, NextOnWay
<1>3. frame' \in Frame /\ frame' # NoFrame
  BY FrameKinds
<1>4. /\ frame'.kind = "data" => frame'.seq = handed /\ Numbered(rx', Follow(handed), sendSeq)
      /\ frame'.kind # "data" => Numbered(rx', handed, sendSeq)
  BY <1>1, <1>2, NumberedTail DEF IInv, InOrder, TypeOK
<1>5. rx' \in Seq(Item)
  BY <1>1
<1>6. TypeOK'
  BY <1>3, <1>5 DEF IInv, TypeOK, Item, WorkerStates
<1>7. LinkMatches'
  BY DEF IInv, LinkMatches, Unlinked
<1>8. FrameMatches' /\ AckMatches'
  BY <1>3 DEF IInv, FrameMatches, AckMatches
<1>9. InOrder'
  BY <1>4 DEF InOrder, NextOnWay
<1> QED BY <1>6, <1>7, <1>8, <1>9 DEF IInv

(***************************************************************************)
(* What the worker does with a frame.                                      *)
(***************************************************************************)
LEMMA HandleHolds == IInv /\ (StartConfirmed \/ HandleControl) => IInv'
<1> SUFFICES ASSUME IInv, StartConfirmed \/ HandleControl PROVE IInv'
  OBVIOUS
<1> USE DEF control, beat, network
<1>1. /\ worker = "handle" /\ frame.kind # "data" /\ frame' = NoFrame
      /\ worker' \in {"loop", "answer"} /\ transfer'
      /\ UNCHANGED <<control, connected, objects, receiveSeq, network, handed>>
  BY DEF StartConfirmed, HandleControl, Goto
<1>2. /\ transfer' \in BOOLEAN /\ pending' \in BOOLEAN
      /\ idle' \in 0..HeartbeatInterval /\ waiting' \in 0..HeartbeatTimeout
  <2>1. 0 \in 0..HeartbeatInterval /\ 0 \in 0..HeartbeatTimeout
    BY ClientAssumption
  <2> QED BY <2>1, Zenon DEF StartConfirmed, HandleControl, IInv, TypeOK
<1>3. TypeOK'
  BY <1>1, <1>2 DEF IInv, TypeOK, WorkerStates
<1>4. LinkMatches'
  BY <1>1 DEF IInv, LinkMatches, Unlinked
<1>5. FrameMatches' /\ AckMatches'
  BY <1>1 DEF IInv, FrameMatches, AckMatches
<1>6. InOrder'
  BY <1>1 DEF IInv, InOrder, NextOnWay, NoFrame
<1> QED BY <1>3, <1>4, <1>5, <1>6 DEF IInv

(***************************************************************************)
(* A data frame keeps its number while it is at hand.                      *)
(***************************************************************************)
LEMMA HandleDataHolds == IInv /\ HandleData => IInv'
<1> SUFFICES ASSUME IInv, HandleData PROVE IInv'
  OBVIOUS
<1> USE DEF control, beat, network, HandleData, Goto
<1>1. receiveSeq' \in 0..SeqMod
  <2>1. frame.seq \in Sequence
    BY FrameKinds DEF IInv, TypeOK, NoFrame
  <2> QED BY <2>1, ClientAssumption DEF Sequence
<1>2. TypeOK'
  <2>1. 0 \in 0..HeartbeatInterval
    BY ClientAssumption
  <2> QED BY <1>1, <2>1 DEF IInv, TypeOK, WorkerStates
<1>3. LinkMatches'
  BY DEF IInv, LinkMatches, Unlinked
<1>4. FrameMatches' /\ AckMatches'
  BY DEF IInv, FrameMatches, AckMatches
<1>5. InOrder'
  BY DEF IInv, InOrder, NextOnWay
<1> QED BY <1>2, <1>3, <1>4, <1>5 DEF IInv

(***************************************************************************)
(* The objects are handed over after the acknowledgement and before the    *)
(* next frame.                                                             *)
(***************************************************************************)
LEMMA DeliverHolds == IInv /\ Deliver => IInv'
<1> SUFFICES ASSUME IInv, Deliver PROVE IInv'
  OBVIOUS
<1> USE DEF control, beat, network, Deliver
<1>1. objects' \in 0..MaxObjects
  BY ClientAssumption DEF IInv, TypeOK
<1>2. TypeOK'
  BY <1>1 DEF IInv, TypeOK
<1>3. LinkMatches' /\ FrameMatches' /\ AckMatches'
  BY DEF IInv, LinkMatches, FrameMatches, AckMatches
<1>4. InOrder'
  BY DEF IInv, InOrder, NextOnWay
<1> QED BY <1>2, <1>3, <1>4 DEF IInv

(***************************************************************************)
(* With its last object, the frame that was acknowledged is handed over.   *)
(***************************************************************************)
LEMMA DeliveredHolds == IInv /\ Delivered => IInv'
<1> SUFFICES ASSUME IInv, Delivered PROVE IInv'
  OBVIOUS
<1> USE DEF control, beat, network, Delivered, Goto
<1>1. frame.kind = "data" /\ frame.seq = handed
  BY DEF IInv, FrameMatches, InOrder
<1>2. handed' = Follow(handed) /\ handed' \in Sequence
  BY <1>1, FollowType DEF Follow, IInv, TypeOK
<1>3. TypeOK'
  BY <1>2 DEF IInv, TypeOK, WorkerStates
<1>4. LinkMatches'
  BY DEF IInv, LinkMatches, Unlinked
<1>5. FrameMatches' /\ AckMatches'
  BY <1>2 DEF IInv, FrameMatches, AckMatches
<1>6. InOrder'
  BY <1>1, <1>2 DEF IInv, InOrder, NextOnWay, NoFrame
<1> QED BY <1>3, <1>4, <1>5, <1>6 DEF IInv

(***************************************************************************)
(* The peer numbers what it sends.                                         *)
(***************************************************************************)
LEMMA ItemTypes ==
  /\ \A kind \in WholeKinds, n \in Sequence : [kind |-> kind, seq |-> n] \in Item
  /\ {Garbage, Broken, Partial} \subseteq Item
  /\ Garbage.kind # "data" /\ Broken.kind # "data" /\ Partial.kind # "data"
  /\ 0 \in Sequence
BY ClientAssumption DEF Item, Frame, Garbage, Broken, Partial, Sequence

(***************************************************************************)
(* What the peer sends comes last, with its next number.                   *)
(***************************************************************************)
LEMMA PeerHolds == IInv /\ (PeerSends \/ PeerCompletes) => IInv'
<1> SUFFICES ASSUME IInv, PeerSends \/ PeerCompletes PROVE IInv'
  OBVIOUS
<1> USE DEF control, beat
<1>1. rx \in Seq(Item) /\ sendSeq \in Sequence
  BY DEF IInv, TypeOK, Item
<1>2. UNCHANGED <<control, worker, transfer, connected, frame, objects, receiveSeq, beat,
                  tcp, acked, handed>>
  BY DEF PeerSends, PeerCompletes
<1>3. /\ rx' \in Seq(Item) /\ rx' # << >> /\ sendSeq' \in Sequence
      /\ Numbered(rx', NextOnWay, sendSeq')
  <2>1. Numbered(rx, NextOnWay, sendSeq)
    BY DEF IInv, InOrder
  <2>2. CASE PeerSends
    <3>1. PICK item \in Item :
            /\ item.kind = "data" => item.seq = sendSeq
            /\ sendSeq' = IF item.kind = "data" THEN Follow(sendSeq) ELSE sendSeq
            /\ rx' = Append(rx, item)
      BY <1>1, <2>2, ItemTypes DEF PeerSends, Follow, WholeKinds
    <3> QED BY <1>1, <2>1, <3>1, NumberedAppend, FollowType
  <2>3. CASE PeerCompletes
    <3>1. PICK item \in Item :
            /\ item.kind = "data" => item.seq = sendSeq
            /\ sendSeq' = IF item.kind = "data" THEN Follow(sendSeq) ELSE sendSeq
            /\ rx' = [rx EXCEPT ![Len(rx)] = item]
      BY <1>1, <2>3, ItemTypes DEF PeerCompletes, Follow, WholeKinds
    <3>2. rx # << >> /\ rx[Len(rx)].kind # "data"
      BY <2>3, ItemTypes DEF PeerCompletes, Incomplete
    <3>3. rx' \in Seq(Item) /\ rx' # << >>
      BY <1>1, <3>1, <3>2
    <3> QED BY <1>1, <2>1, <3>1, <3>2, <3>3, NumberedComplete, FollowType
  <2> QED BY <2>2, <2>3
<1>4. TypeOK'
  BY <1>2, <1>3 DEF IInv, TypeOK, Item
<1>5. LinkMatches' /\ FrameMatches' /\ AckMatches'
  BY <1>2, <1>3 DEF IInv, LinkMatches, FrameMatches, AckMatches
<1>6. InOrder'
  BY <1>2, <1>3 DEF IInv, InOrder, NextOnWay
<1> QED BY <1>4, <1>5, <1>6 DEF IInv

(***************************************************************************)
(* Every step keeps the invariant.                                         *)
(***************************************************************************)
LEMMA NextHolds == IInv /\ [Next]_vars => IInv'
<1> SUFFICES ASSUME IInv, [Next]_vars PROVE IInv'
  OBVIOUS
<1>1. CASE Asides
  BY <1>1, AsidesHold
<1>2. CASE ConnectFails \/ ReadFails \/ StartRefused \/ GiveUp
  BY <1>2, DropHolds DEF ConnectFails, ReadFails, StartRefused, GiveUp
<1>3. CASE SendStartDt \/ SendHeartbeat \/ SendAnswer \/ SendAck
  BY <1>3, SendHolds, SendAckHolds
<1>4. CASE SkipByte \/ ReadBody
  BY <1>4, SkipByteHolds, ReadBodyHolds
<1>5. CASE StartConfirmed \/ HandleControl \/ HandleData
  BY <1>5, HandleHolds, HandleDataHolds
<1>6. CASE Deliver \/ Delivered
  BY <1>6, DeliverHolds, DeliveredHolds
<1>7. CASE PeerSends \/ PeerCompletes
  BY <1>7, PeerHolds
<1>8. CASE Killed
  BY <1>8, KilledHolds
<1> QED BY <1>1, <1>2, <1>3, <1>4, <1>5, <1>6, <1>7, <1>8 DEF Next, Work, Environment, Asides

(***************************************************************************)
(* The invariant of the client's run() holds at any time: what is at hand  *)
(* and what is on its way are the frames that follow those handed over,    *)
(* numbered without a gap up to the next one the peer will send, and the   *)
(* peer was told of no other ones.                                         *)
(***************************************************************************)
THEOREM Inductive == Spec => []IInv
BY InitHolds, NextHolds, PTL DEF Spec

(***************************************************************************)
(* The variables keep their types.                                         *)
(***************************************************************************)
THEOREM ClientTypeCorrect == Spec => []TypeOK
<1>1. IInv => TypeOK
  BY DEF IInv
<1> QED BY <1>1, Inductive, PTL

(***************************************************************************)
(* An acknowledged frame is handed over, and no other is acknowledged.     *)
(***************************************************************************)
THEOREM ClientAcksWhatItHandsOver == Spec => []AckedIsHandedOver
<1>1. IInv => AckedIsHandedOver
  BY DEF IInv, AckMatches, AckedIsHandedOver
<1> QED BY <1>1, Inductive, PTL

(***************************************************************************)
(* dataHandler_ gets the I frames of a connection in the peer's order,     *)
(* each once and none left out.                                            *)
(***************************************************************************)
THEOREM ClientKeepsFramesInOrder == Spec => []FramesInOrder
<1>1. IInv => FramesInOrder
  BY DEF IInv, InOrder, FrameMatches, FramesInOrder
<1> QED BY <1>1, Inductive, PTL

-----------------------------------------------------------------------------
(* The client implements the abstract link. *)

(***************************************************************************)
(* A client that was not started is a link that was not started.           *)
(***************************************************************************)
LEMMA LinkInit == Init => Link!Init
BY DEF Init, Link!Init, Thread

(***************************************************************************)
(* Drop as the abstract link sees it.                                      *)
(***************************************************************************)
LEMMA LinkDrop ==
  ASSUME IInv, Drop, worker \notin {"off", "killed", "done", "deliver"}
  PROVE  [Link!Next]_Link!vars
<1>1. running' = running /\ connected' = FALSE /\ objects' = 0 /\ objects = 0
  BY DEF Drop, Disconnected, control, IInv, LinkMatches, TypeOK
<1>2. Thread' = "loop"
  BY DEF Drop, Disconnected, Thread
<1>3. Thread \in {"loop", "read"} /\ connected \in BOOLEAN
  BY DEF Thread, IInv, TypeOK
<1>4. CASE Thread = "read"
  BY <1>1, <1>2, <1>4 DEF Link!Next, Link!Refuse
<1>5. CASE Thread = "loop" /\ connected
  BY <1>1, <1>2, <1>5 DEF Link!Next, Link!Change
<1>6. CASE Thread = "loop" /\ ~connected
  BY <1>1, <1>2, <1>3, <1>6 DEF Link!vars
<1> QED BY <1>3, <1>4, <1>5, <1>6

(***************************************************************************)
(* Every step of the client is one of the link, or none that the link      *)
(* shows.                                                                  *)
(***************************************************************************)
LEMMA LinkStep == IInv /\ [Next]_vars => [Link!Next]_Link!vars
<1> SUFFICES ASSUME IInv, [Next]_vars PROVE [Link!Next]_Link!vars
  OBVIOUS
<1> USE DEF control, beat, network
<1>1. CASE Start
  BY <1>1 DEF Start, Thread, Link!Next, Link!Start, IInv, LinkMatches, Unlinked
<1>2. CASE Stop
  BY <1>2 DEF Stop, Thread, Link!Next, Link!Stop
<1>3. CASE Joined
  BY <1>3 DEF Joined, Thread, Link!vars, IInv, LinkMatches, Unlinked, TypeOK
<1>4. CASE Top
  BY <1>4 DEF Top, Goto, Thread, Link!Next, Link!End, Link!vars, IInv, LinkMatches, Unlinked,
              TypeOK
<1>5. CASE Connect
  BY <1>5 DEF Connect, Goto, Thread, Link!Next, Link!Change, IInv, LinkMatches, Unlinked, TypeOK
<1>6. CASE ConnectFails \/ ReadFails \/ StartRefused \/ GiveUp
  BY <1>6, LinkDrop DEF ConnectFails, ReadFails, StartRefused, GiveUp
<1>7. CASE Sleep \/ SkipByte \/ StartHeartbeat \/ NoHeartbeat \/ Poll \/ Tick \/ PeerSends
           \/ PeerCompletes \/ LinkLost \/ UNCHANGED vars
  <2>1. UNCHANGED <<running, connected, objects, transfer>>
    BY <1>7 DEF Sleep, SkipByte, StartHeartbeat, NoHeartbeat, Poll, Tick, PeerSends,
                PeerCompletes, LinkLost, vars
  <2>2. \/ worker' = worker
        \/ {worker, worker'} \subseteq {"sleep", "top", "loop", "beat", "poll", "scan"}
    BY <1>7 DEF Sleep, SkipByte, StartHeartbeat, NoHeartbeat, Poll, Tick, PeerSends,
                PeerCompletes, LinkLost, vars, Goto
  <2>3. Thread' = Thread
    BY <2>1, <2>2 DEF Thread
  <2> QED BY <2>1, <2>3 DEF Link!vars
<1>8. CASE SendStartDt \/ SendHeartbeat \/ SendAnswer
  <2>1. CASE Drop
    BY <1>8, <2>1, LinkDrop DEF SendStartDt, SendHeartbeat, SendAnswer
  <2>2. CASE ~Drop
    BY <1>8, <2>2 DEF SendStartDt, SendHeartbeat, SendAnswer, Goto, Thread, Link!vars
  <2> QED BY <2>1, <2>2
<1>9. CASE StartByte
  BY <1>9 DEF StartByte, Goto, Thread, Link!Next, Link!Read, Link!vars, IInv, LinkMatches,
              Unlinked
<1>10. CASE ReadBody
  BY <1>10 DEF ReadBody, Goto, Thread, Link!vars
<1>11. CASE StartConfirmed
  BY <1>11 DEF StartConfirmed, Goto, Thread, Link!vars
<1>12. CASE HandleControl
  BY <1>12 DEF HandleControl, Goto, Thread, Link!Next, Link!Refuse
<1>13. CASE HandleData
  BY <1>13 DEF HandleData, Goto, Thread, Link!vars
<1>14. CASE SendAck
  <2>1. CASE Drop
    BY <1>14, <2>1, LinkDrop DEF SendAck
  <2>2. CASE ~Drop
    <3>1. objects' \in Nat
      BY <1>14, <2>2, ClientAssumption DEF SendAck
    <3> QED BY <1>14, <2>2, <3>1 DEF SendAck, Goto, Thread, Link!Next, Link!Accept, IInv,
                                     LinkMatches
  <2> QED BY <2>1, <2>2
<1>15. CASE Deliver
  BY <1>15 DEF Deliver, Thread, Link!Next, Link!HandOver
<1>16. CASE Delivered
  BY <1>16 DEF Delivered, Goto, Thread, Link!Next, Link!FrameDone
<1>17. CASE Killed
  BY <1>17 DEF Killed, Disconnected, Thread, Link!Next, Link!Vanish
<1> QED BY <1>1, <1>2, <1>3, <1>4, <1>5, <1>6, <1>7, <1>8, <1>9, <1>10, <1>11, <1>12, <1>13,
           <1>14, <1>15, <1>16, <1>17 DEF Next, Work, Environment

(***************************************************************************)
(* Every behaviour of the client is one of the abstract link that the      *)
(* master station relies on: objects only from a connected link, frame by  *)
(* frame, none read after stop(), offline at the end.                      *)
(***************************************************************************)
THEOREM ClientIsDeviceLink == Spec => IsDeviceLink
BY LinkInit, LinkStep, Inductive, PTL DEF Spec, IsDeviceLink, Link!Spec

=============================================================================
