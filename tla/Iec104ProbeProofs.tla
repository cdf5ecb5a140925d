-------------------------- MODULE Iec104ProbeProofs --------------------------
(***************************************************************************)
(* Theorems about the probe: whatever the frames, the noise and the        *)
(* pieces in which they come, readApdu() finds the frames that were sent,  *)
(* in order, unless a read was given up within one.                        *)
(***************************************************************************)
EXTENDS Iec104Probe, Iec104FrameProofs, FiniteSetTheorems

-----------------------------------------------------------------------------
(* Frames in a stream of bytes. *)

(***************************************************************************)
(* The bytes of a frame, and those between frames.                         *)
(***************************************************************************)
IsFrame(bytes) == bytes \in Seq(Byte) /\ IsValidApdu(bytes)

AcceptedLength == 4..MaxApduLength - 2

IsNoise(bytes) ==
    /\ bytes \in Seq(Byte)
    /\ \A k \in 1..Len(bytes) : bytes[k] = StartByte =>
          k < Len(bytes) /\ bytes[k + 1] \notin AcceptedLength

Frames(msgs) ==
    /\ Len(msgs) \in Nat
    /\ \A k \in 1..Len(msgs) : IsFrame(msgs[k].bytes)

(***************************************************************************)
(* The messages after the first n stand in the bytes w, each where at      *)
(* says, in order.  A start byte that belongs to none of them is followed  *)
(* by one that belongs to none of them either, and is refused as a length. *)
(***************************************************************************)
Stands(w, bytes, place) ==
    /\ place + Len(bytes) <= Len(w) + 1
    /\ \A j \in 1..Len(bytes) : w[(place + j) - 1] = bytes[j]

Free(msgs, n, at, q) ==
    \A k \in n + 1..Len(msgs) : q < at[k] \/ at[k] + Len(msgs[k].bytes) <= q

Placed(w, msgs, n, at) ==
    /\ \A k \in n + 1..Len(msgs) : Stands(w, msgs[k].bytes, at[k])
    /\ \A k, l \in n + 1..Len(msgs) : k < l => at[k] + Len(msgs[k].bytes) <= at[l]
    /\ \A q \in 1..Len(w) : w[q] = StartByte /\ Free(msgs, n, at, q) =>
          /\ q < Len(w)
          /\ Free(msgs, n, at, q + 1)
          /\ w[q + 1] \notin AcceptedLength

InPlace(w, msgs, n) == \E at \in [n + 1..Len(msgs) -> 1..Len(w)] : Placed(w, msgs, n, at)

(***************************************************************************)
(* The first number that the peer sends.                                   *)
(***************************************************************************)
LEMMA FirstNumber == FirstSeq \in Nat /\ FirstSeq < 32768
BY ProbeAssumption

(***************************************************************************)
(* Three sequences of bytes, one after the other.                          *)
(***************************************************************************)
LEMMA Associative ==
  ASSUME NEW a \in Seq(Byte), NEW b \in Seq(Byte), NEW c \in Seq(Byte)
  PROVE  (a \o b) \o c = a \o (b \o c)
BY ConcatAssociative

(***************************************************************************)
(* What makes a frame a valid APDU, in numbers.                            *)
(***************************************************************************)
LEMMA FrameFacts ==
  ASSUME NEW bytes, IsFrame(bytes)
  PROVE  /\ bytes \in Seq(Byte)
         /\ Len(bytes) \in Nat /\ 6 <= Len(bytes)
         /\ bytes[1] = StartByte
         /\ bytes[2] \in AcceptedLength
         /\ bytes[2] + 2 = Len(bytes)
<1> DEFINE second == bytes[2]
           size == Len(bytes)
<1>1. bytes \in Seq(Byte) /\ size \in Nat
  BY LenProperties DEF IsFrame
<1>2. size \in 6..255 /\ bytes[1] = StartByte /\ second >= 4 /\ second + 2 = size
  BY DEF IsFrame, IsValidApdu, MaxApduLength
<1>3. second \in Nat
  <2>1. 2 \in 1..Len(bytes)
    BY <1>2
  <2>2. bytes[2] \in Byte
    BY <1>1, <2>1, ElementOfSeq
  <2> QED BY <2>2, ByteIsNumber
<1> HIDE DEF second, size
<1>4. second \in 4..253 /\ 6 <= size
  BY <1>2, <1>3
<1>5. AcceptedLength = 4..253
  BY DEF AcceptedLength, MaxApduLength
<1>6. second \in AcceptedLength
  BY <1>4, <1>5
<1> QED BY <1>1, <1>2, <1>4, <1>6 DEF second, size

(***************************************************************************)
(* The numbers of bytes that were put together, and where they are.        *)
(***************************************************************************)
LEMMA Joined ==
  ASSUME NEW p \in Seq(Byte), NEW s \in Seq(Byte)
  PROVE  /\ p \o s \in Seq(Byte)
         /\ Len(p) \in Nat /\ Len(s) \in Nat
         /\ Len(p \o s) = Len(p) + Len(s)
         /\ \A i \in 1..Len(p) : (p \o s)[i] = p[i]
         /\ \A i \in 1..Len(s) : (p \o s)[Len(p) + i] = s[i]
<1>1. Len(p) \in Nat /\ Len(s) \in Nat
  BY LenProperties
<1>2. /\ p \o s \in Seq(Byte)
      /\ Len(p \o s) = Len(p) + Len(s)
      /\ \A i \in 1..Len(p) + Len(s) : (p \o s)[i] = IF i <= Len(p) THEN p[i] ELSE s[i - Len(p)]
  BY ConcatProperties
<1>3. ASSUME NEW i \in 1..Len(p) PROVE (p \o s)[i] = p[i]
  <2>1. i \in 1..Len(p) + Len(s) /\ i <= Len(p)
    BY <1>1
  <2> QED BY <1>2, <2>1
<1>4. ASSUME NEW i \in 1..Len(s) PROVE (p \o s)[Len(p) + i] = s[i]
  <2>1. /\ Len(p) + i \in 1..Len(p) + Len(s) /\ ~(Len(p) + i <= Len(p))
        /\ (Len(p) + i) - Len(p) = i
    BY <1>1
  <2> QED BY <1>2, <2>1
<1> QED BY <1>1, <1>2, <1>3, <1>4

(***************************************************************************)
(* Bytes are taken from the front, with all messages up to a number and    *)
(* nothing of the others.                                                  *)
(***************************************************************************)
LEMMA Dropped ==
  ASSUME NEW p \in Seq(Byte), NEW s \in Seq(Byte), NEW msgs, Frames(msgs),
         NEW n \in Nat, NEW next \in Nat, n <= next,
         NEW at \in [n + 1..Len(msgs) -> 1..Len(p \o s)],
         Placed(p \o s, msgs, n, at),
         \A k \in n + 1..Len(msgs) : k <= next => at[k] + Len(msgs[k].bytes) <= Len(p) + 1,
         \A k \in n + 1..Len(msgs) : next < k => Len(p) < at[k]
  PROVE  InPlace(s, msgs, next)
<1> DEFINE w == p \o s
           m == Len(p)
           last == Len(msgs)
           size == [k \in 1..last |-> Len(msgs[k].bytes)]
           new == [k \in next + 1..last |-> at[k] - m]
<1>1. m \in Nat /\ Len(s) \in Nat /\ last \in Nat /\ Len(w) = m + Len(s)
  BY Joined DEF Frames
<1>2. \A i \in 1..Len(s) : w[m + i] = s[i]
  BY Joined
<1>3. \A k \in 1..last : size[k] = Len(msgs[k].bytes) /\ size[k] \in Nat /\ 6 <= size[k]
  BY FrameFacts DEF Frames
<1>4. at \in [n + 1..last -> 1..Len(w)] /\ Placed(w, msgs, n, at)
  OBVIOUS
<1>5. /\ \A k \in n + 1..last : k <= next => at[k] + Len(msgs[k].bytes) <= m + 1
      /\ \A k \in n + 1..last : next < k => m < at[k]
  OBVIOUS
<1>6. \A k \in next + 1..last : new[k] = at[k] - m
  OBVIOUS
<1> HIDE DEF w, m, last, size, new
<1>7. \A k \in next + 1..last : k \in n + 1..last /\ k \in 1..last /\ next < k
  BY <1>1
<1>8. ASSUME NEW k \in next + 1..last
      PROVE  /\ at[k] \in Nat /\ new[k] \in 1..Len(s)
             /\ Stands(s, msgs[k].bytes, new[k])
  <2> DEFINE here == at[k]
             there == new[k]
             long == size[k]
  <2>1. /\ here \in 1..Len(w) /\ m < here /\ long \in Nat /\ 6 <= long
        /\ there = here - m
    BY <1>3, <1>4, <1>5, <1>6, <1>7
  <2>2. Len(msgs[k].bytes) = long
    BY <1>3, <1>7
  <2>3. /\ here + long <= Len(w) + 1
        /\ \A j \in 1..long : w[(here + j) - 1] = msgs[k].bytes[j]
    BY <1>4, <1>7, <2>2 DEF Stands, Placed, last
  <2> HIDE DEF here, there, long
  <2>4. there \in 1..Len(s) /\ there + long <= Len(s) + 1 /\ here \in Nat
    <3>1. here + long <= Len(w) + 1
      BY <2>3
    <3> QED BY <1>1, <2>1, <3>1
  <2>5. ASSUME NEW j \in 1..long PROVE s[(there + j) - 1] = msgs[k].bytes[j]
    <3>1. (there + j) - 1 \in 1..Len(s) /\ m + ((there + j) - 1) = (here + j) - 1
      BY <1>1, <2>1, <2>4
    <3>2. s[(there + j) - 1] = w[(here + j) - 1]
      BY <1>2, <3>1
    <3> QED BY <2>3, <3>2
  <2>6. Stands(s, msgs[k].bytes, there)
    BY <2>2, <2>4, <2>5 DEF Stands
  <2> QED BY <2>4, <2>6 DEF here, there
<1>9. new \in [next + 1..last -> 1..Len(s)]
  <2>1. \A k \in next + 1..last : at[k] - m \in 1..Len(s)
    BY <1>6, <1>8
  <2> QED BY <2>1 DEF new
<1>10. ASSUME NEW k \in next + 1..last, NEW l \in next + 1..last, k < l
       PROVE  new[k] + Len(msgs[k].bytes) <= new[l]
  <2> DEFINE here == at[k]
             later == at[l]
             long == Len(msgs[k].bytes)
  <2>1. here + long <= later
    BY <1>4, <1>7, <1>10 DEF Placed, last
  <2>2. here \in Nat /\ later \in Nat /\ long \in Nat
    BY <1>3, <1>7, <1>8
  <2>3. new[k] = here - m /\ new[l] = later - m
    BY <1>6
  <2> HIDE DEF here, later, long
  <2>4. (here - m) + long <= later - m
    BY <2>1, <2>2, <1>1
  <2> QED BY <2>3, <2>4 DEF long
<1>11. ASSUME NEW q \in Nat, m < q
       PROVE  Free(msgs, n, at, q) <=> Free(msgs, next, new, q - m)
  <2>1. ASSUME NEW k \in n + 1..last, k <= next
        PROVE  at[k] + Len(msgs[k].bytes) <= q
    <3> DEFINE here == at[k]
               long == Len(msgs[k].bytes)
    <3>1. here + long <= m + 1
      BY <1>5, <2>1
    <3>2. k \in 1..last /\ here \in Nat
      BY <1>1, <1>4
    <3>3. long \in Nat
      BY <1>3, <3>2
    <3> HIDE DEF here, long
    <3>4. here + long <= q
      BY <1>1, <1>11, <3>1, <3>2, <3>3
    <3> QED BY <3>4 DEF here, long
  <2>2. ASSUME NEW k \in next + 1..last
        PROVE  (q < at[k] \/ at[k] + Len(msgs[k].bytes) <= q) <=>
               (q - m < new[k] \/ new[k] + Len(msgs[k].bytes) <= q - m)
    <3> DEFINE here == at[k]
               long == Len(msgs[k].bytes)
    <3>1. here \in Nat /\ long \in Nat /\ new[k] = here - m
      BY <1>3, <1>6, <1>7, <1>8
    <3> HIDE DEF here, long
    <3>2. (q < here <=> q - m < here - m) /\ (here + long <= q <=> (here - m) + long <= q - m)
      BY <1>1, <3>1
    <3> QED BY <3>1, <3>2 DEF here, long
  <2>3. \A k \in n + 1..last : k <= next \/ k \in next + 1..last
    BY <1>1
  <2> QED BY <2>1, <2>2, <2>3, <1>7 DEF Free, last
<1>12. ASSUME NEW q \in 1..Len(s), s[q] = StartByte, Free(msgs, next, new, q)
       PROVE  /\ q < Len(s)
              /\ Free(msgs, next, new, q + 1)
              /\ s[q + 1] \notin AcceptedLength
  <2>1. /\ m + q \in 1..Len(w) /\ m + q \in Nat /\ m < m + q /\ (m + q) - m = q
        /\ (m + q) + 1 \in Nat /\ m < (m + q) + 1 /\ ((m + q) + 1) - m = q + 1
    BY <1>1
  <2>2. w[m + q] = StartByte /\ Free(msgs, n, at, m + q)
    BY <1>2, <1>11, <1>12, <2>1
  <2>3. /\ m + q < Len(w)
        /\ Free(msgs, n, at, (m + q) + 1)
        /\ w[(m + q) + 1] \notin AcceptedLength
    BY <1>4, <2>1, <2>2 DEF Placed
  <2>4. q < Len(s) /\ q + 1 \in 1..Len(s) /\ m + (q + 1) = (m + q) + 1
    BY <1>1, <2>3
  <2>5. s[q + 1] = w[(m + q) + 1]
    BY <1>2, <2>4
  <2>6. Free(msgs, next, new, q + 1)
    BY <1>11, <2>1, <2>3
  <2> QED BY <2>3, <2>4, <2>5, <2>6
<1>13. Placed(s, msgs, next, new)
  BY <1>8, <1>10, <1>12 DEF Placed, last
<1> QED BY <1>9, <1>13 DEF InPlace, last

(***************************************************************************)
(* A message that stands at the front begins there.                        *)
(***************************************************************************)
LEMMA AtFront ==
  ASSUME NEW w \in Seq(Byte), NEW msgs, Frames(msgs), NEW n \in Nat,
         NEW at, Placed(w, msgs, n, at),
         NEW k \in n + 1..Len(msgs), at[k] = 1
  PROVE  /\ w[1] = StartByte
         /\ w[2] \in AcceptedLength
         /\ w[2] + 2 = Len(msgs[k].bytes)
         /\ \A j \in 1..Len(msgs[k].bytes) : w[j] = msgs[k].bytes[j]
<1> DEFINE bytes == msgs[k].bytes
<1>1. IsFrame(bytes)
  BY DEF Frames
<1>2. \A j \in 1..Len(bytes) : w[(1 + j) - 1] = bytes[j]
  BY DEF Placed, Stands
<1> HIDE DEF bytes
<1>3. /\ Len(bytes) \in Nat /\ 6 <= Len(bytes)
      /\ bytes[1] = StartByte /\ bytes[2] \in AcceptedLength /\ bytes[2] + 2 = Len(bytes)
  BY <1>1, FrameFacts
<1>4. \A j \in 1..Len(bytes) : w[j] = bytes[j]
  <2> TAKE j \in 1..Len(bytes)
  <2>1. (1 + j) - 1 = j
    BY <1>3
  <2> QED BY <1>2, <2>1
<1>5. w[1] = bytes[1] /\ w[2] = bytes[2]
  <2>1. 1 \in 1..Len(bytes) /\ 2 \in 1..Len(bytes)
    BY <1>3
  <2> QED BY <1>4, <2>1
<1> QED BY <1>3, <1>4, <1>5 DEF bytes

(***************************************************************************)
(* A byte that is no start byte belongs to none of the messages.           *)
(***************************************************************************)
IsSkipped(p) == Len(p) = 1 /\ p[1] # StartByte

LEMMA DropOther ==
  ASSUME NEW p \in Seq(Byte), IsSkipped(p), NEW s \in Seq(Byte),
         NEW msgs, Frames(msgs), NEW n \in Nat, InPlace(p \o s, msgs, n)
  PROVE  InPlace(s, msgs, n)
<1>1. n <= n
  OBVIOUS
<1>2. PICK at \in [n + 1..Len(msgs) -> 1..Len(p \o s)] : Placed(p \o s, msgs, n, at)
  BY DEF InPlace
<1>3. p \o s \in Seq(Byte) /\ (p \o s)[1] # StartByte /\ Len(p \o s) \in Nat
  <2>1. /\ p \o s \in Seq(Byte) /\ Len(p \o s) = Len(p) + Len(s)
        /\ Len(p) \in Nat /\ Len(s) \in Nat
        /\ \A i \in 1..Len(p) : (p \o s)[i] = p[i]
    BY Joined
  <2>2. Len(p) = 1 /\ p[1] # StartByte
    BY DEF IsSkipped
  <2>3. (p \o s)[1] = p[1]
    BY <2>1, <2>2
  <2> QED BY <2>1, <2>2, <2>3
<1>4. \A k \in n + 1..Len(msgs) : n < k => Len(p) < at[k]
  <2> TAKE k \in n + 1..Len(msgs)
  <2>1. at[k] # 1
    <3>1. at[k] # 1 \/ (p \o s)[1] = StartByte
      <4> SUFFICES ASSUME at[k] = 1 PROVE (p \o s)[1] = StartByte
        OBVIOUS
      <4> DEFINE w == p \o s
      <4>1. w \in Seq(Byte) /\ Placed(w, msgs, n, at)
        BY <1>2, <1>3
      <4> HIDE DEF w
      <4>2. w[1] = StartByte
        BY <4>1, AtFront
      <4> QED BY <4>2 DEF w
    <3> QED BY <1>3, <3>1
  <2>2. at[k] \in 1..Len(p \o s)
    BY <1>2
  <2> QED BY <1>3, <2>1, <2>2 DEF IsSkipped
<1>5. \A k \in n + 1..Len(msgs) : k <= n => at[k] + Len(msgs[k].bytes) <= Len(p) + 1
  BY DEF Frames
<1> QED BY <1>1, <1>2, <1>4, <1>5, Dropped

(***************************************************************************)
(* Nor does a start byte with a refused length, or that length.            *)
(***************************************************************************)
IsRefused(p) == Len(p) = 2 /\ p[1] = StartByte /\ p[2] \notin AcceptedLength

LEMMA DropRefused ==
  ASSUME NEW p \in Seq(Byte), IsRefused(p),
         NEW s \in Seq(Byte),
         NEW msgs, Frames(msgs), NEW n \in Nat, InPlace(p \o s, msgs, n)
  PROVE  InPlace(s, msgs, n)
<1>1. n <= n
  OBVIOUS
<1>2. PICK at \in [n + 1..Len(msgs) -> 1..Len(p \o s)] : Placed(p \o s, msgs, n, at)
  BY DEF InPlace
<1>3. /\ p \o s \in Seq(Byte) /\ (p \o s)[1] = StartByte /\ (p \o s)[2] = p[2]
      /\ Len(p \o s) \in Nat /\ 1 \in 1..Len(p \o s)
  <2>1. /\ p \o s \in Seq(Byte) /\ Len(p \o s) = Len(p) + Len(s)
        /\ Len(p) \in Nat /\ Len(s) \in Nat
        /\ \A i \in 1..Len(p) : (p \o s)[i] = p[i]
    BY Joined
  <2>2. Len(p) = 2 /\ p[1] = StartByte
    BY DEF IsRefused
  <2>3. (p \o s)[1] = p[1] /\ (p \o s)[2] = p[2]
    BY <2>1, <2>2
  <2> QED BY <2>1, <2>2, <2>3
<1>4. \A k \in n + 1..Len(msgs) : at[k] # 1
  <2>1. p[2] \notin AcceptedLength
    BY DEF IsRefused
  <2> SUFFICES ASSUME NEW k \in n + 1..Len(msgs), at[k] = 1 PROVE FALSE
    OBVIOUS
  <2> DEFINE w == p \o s
  <2>2. w \in Seq(Byte) /\ Placed(w, msgs, n, at) /\ w[2] = p[2]
    BY <1>2, <1>3
  <2> HIDE DEF w
  <2>3. w[2] \in AcceptedLength
    BY <2>2, AtFront
  <2> QED BY <2>1, <2>2, <2>3
<1>5. Free(msgs, n, at, 1)
  <2>1. \A k \in n + 1..Len(msgs) : at[k] \in Nat /\ 1 < at[k]
    <3> TAKE k \in n + 1..Len(msgs)
    <3>1. at[k] \in 1..Len(p \o s)
      BY <1>2
    <3> QED BY <1>3, <1>4, <3>1
  <2> QED BY <2>1 DEF Free
<1>6. Free(msgs, n, at, 2)
  <2>1. Free(msgs, n, at, 1 + 1)
    BY <1>2, <1>3, <1>5 DEF Placed
  <2>2. 1 + 1 = 2
    OBVIOUS
  <2> QED BY <2>1, <2>2
<1>7. \A k \in n + 1..Len(msgs) : n < k => Len(p) < at[k]
  <2> TAKE k \in n + 1..Len(msgs)
  <2> DEFINE long == Len(msgs[k].bytes)
  <2>1. k \in 1..Len(msgs)
    BY DEF Frames
  <2>2. long \in Nat /\ 6 <= long
    BY <2>1, FrameFacts DEF Frames
  <2>3. 2 < at[k] \/ at[k] + long <= 2
    BY <1>6 DEF Free
  <2>4. at[k] \in 1..Len(p \o s)
    BY <1>2
  <2> HIDE DEF long
  <2>5. 2 < at[k]
    BY <1>3, <2>2, <2>3, <2>4
  <2> QED BY <2>5 DEF IsRefused
<1>8. \A k \in n + 1..Len(msgs) : k <= n => at[k] + Len(msgs[k].bytes) <= Len(p) + 1
  BY DEF Frames
<1> QED BY <1>1, <1>2, <1>7, <1>8, Dropped

(***************************************************************************)
(* A frame that is read is the next message.                               *)
(***************************************************************************)
LEMMA DropFrame ==
  ASSUME NEW bytes, IsFrame(bytes), NEW s \in Seq(Byte),
         NEW msgs, Frames(msgs), NEW n \in Nat, InPlace(bytes \o s, msgs, n)
  PROVE  /\ n + 1 <= Len(msgs)
         /\ bytes = msgs[n + 1].bytes
         /\ InPlace(s, msgs, n + 1)
<1> DEFINE w == bytes \o s
<1>1. /\ bytes \in Seq(Byte) /\ Len(bytes) \in Nat /\ 6 <= Len(bytes)
      /\ bytes[1] = StartByte /\ bytes[2] \in AcceptedLength /\ bytes[2] + 2 = Len(bytes)
  BY FrameFacts
<1>2. PICK at \in [n + 1..Len(msgs) -> 1..Len(w)] : Placed(w, msgs, n, at)
  BY DEF InPlace
<1>3. /\ w \in Seq(Byte) /\ Len(s) \in Nat /\ Len(w) = Len(bytes) + Len(s)
      /\ \A i \in 1..Len(bytes) : w[i] = bytes[i]
  BY <1>1, Joined
<1>4. w[1] = StartByte /\ w[2] = bytes[2] /\ 1 \in 1..Len(w)
  <2>1. 1 \in 1..Len(bytes) /\ 2 \in 1..Len(bytes) /\ 1 \in 1..Len(w)
    <3> HIDE DEF w
    <3> QED BY <1>1, <1>3
  <2> QED BY <1>1, <1>3, <2>1
<1> HIDE DEF w
<1>5. Len(msgs) \in Nat
  BY DEF Frames
<1>6. PICK k \in n + 1..Len(msgs) : at[k] = 1
  <2> SUFFICES ASSUME \A k \in n + 1..Len(msgs) : at[k] # 1 PROVE FALSE
    OBVIOUS
  <2>1. \A k \in n + 1..Len(msgs) : at[k] \in Nat /\ 1 < at[k]
    <3> TAKE k \in n + 1..Len(msgs)
    <3>1. at[k] \in 1..Len(w)
      BY <1>2
    <3> QED BY <1>1, <1>3, <3>1
  <2>2. Free(msgs, n, at, 1)
    BY <2>1 DEF Free
  <2>3. w[1 + 1] \notin AcceptedLength
    BY <1>2, <1>4, <2>2 DEF Placed
  <2>4. 1 + 1 = 2
    OBVIOUS
  <2> QED BY <1>1, <1>4, <2>3, <2>4
<1> DEFINE long == Len(msgs[k].bytes)
<1>7. /\ w[2] + 2 = long
      /\ \A j \in 1..long : w[j] = msgs[k].bytes[j]
  BY <1>2, <1>3, <1>6, AtFront
<1>8. k \in 1..Len(msgs) /\ k \in Nat /\ n + 1 <= k
  BY <1>5, <1>6
<1>9. k = n + 1
  <2> SUFFICES ASSUME k # n + 1 PROVE FALSE
    OBVIOUS
  <2>1. n + 1 \in n + 1..Len(msgs) /\ n + 1 < k /\ n + 1 \in 1..Len(msgs)
    BY <1>5, <1>8
  <2> DEFINE first == at[n + 1]
             size == Len(msgs[n + 1].bytes)
  <2>2. first + size <= at[k]
    BY <1>2, <1>6, <2>1 DEF Placed
  <2>3. first \in 1..Len(w)
    BY <1>2, <2>1
  <2>4. size \in Nat /\ 6 <= size
    BY <2>1, FrameFacts DEF Frames
  <2> HIDE DEF first, size
  <2>5. first \in Nat /\ first + size <= 1
    BY <1>1, <1>3, <1>6, <2>2, <2>3
  <2> QED BY <2>4, <2>5
<1>10. long = Len(bytes)
  BY <1>1, <1>4, <1>7
<1>11. bytes = msgs[k].bytes
  <2>1. msgs[k].bytes \in Seq(Byte)
    BY <1>8, FrameFacts DEF Frames
  <2>2. \A j \in 1..Len(bytes) : bytes[j] = msgs[k].bytes[j]
    BY <1>3, <1>7, <1>10
  <2> HIDE DEF long
  <2>3. Len(msgs[k].bytes) = Len(bytes)
    BY <1>10 DEF long
  <2> QED BY <1>1, <2>1, <2>2, <2>3, SeqEqual
<1>12. n + 1 <= Len(msgs)
  BY <1>5, <1>8, <1>9
<1>13. InPlace(s, msgs, n + 1)
  <2>1. \A l \in n + 1..Len(msgs) : l <= n + 1 => at[l] + Len(msgs[l].bytes) <= Len(bytes) + 1
    <3> TAKE l \in n + 1..Len(msgs)
    <3> HAVE l <= n + 1
    <3>1. l = k
      BY <1>5, <1>9
    <3>2. Len(msgs[l].bytes) = Len(bytes) /\ at[l] = 1
      BY <1>6, <1>11, <3>1
    <3> QED BY <1>1, <3>2
  <2>2. \A l \in n + 1..Len(msgs) : n + 1 < l => Len(bytes) < at[l]
    <3> TAKE l \in n + 1..Len(msgs)
    <3> HAVE n + 1 < l
    <3>1. at[k] + Len(msgs[k].bytes) <= at[l]
      BY <1>2, <1>6, <1>9 DEF Placed
    <3>2. 1 + Len(bytes) <= at[l]
      BY <1>6, <1>11, <3>1
    <3>3. at[l] \in Nat
      <4>1. at[l] \in 1..Len(w)
        BY <1>2
      <4> QED BY <1>1, <1>3, <4>1
    <3> QED BY <1>1, <3>2, <3>3
  <2>3. n + 1 \in Nat /\ n <= n + 1
    OBVIOUS
  <2>4. at \in [n + 1..Len(msgs) -> 1..Len(bytes \o s)] /\ Placed(bytes \o s, msgs, n, at)
    BY <1>2 DEF w
  <2> QED BY <1>1, <2>1, <2>2, <2>3, <2>4, Dropped
<1> QED BY <1>9, <1>11, <1>12, <1>13

(***************************************************************************)
(* A message that is sent follows all the others.                          *)
(***************************************************************************)
LEMMA AddMessage ==
  ASSUME NEW w \in Seq(Byte), NEW msgs, Frames(msgs), NEW n \in Nat, n <= Len(msgs),
         NEW more, Frames(more), Len(more) = Len(msgs) + 1,
         \A k \in 1..Len(msgs) : more[k] = msgs[k],
         InPlace(w, msgs, n)
  PROVE  InPlace(w \o more[Len(more)].bytes, more, n)
<1> DEFINE last == Len(msgs)
           bytes == more[last + 1].bytes
           long == w \o bytes
           size == [k \in 1..last + 1 |-> Len(more[k].bytes)]
<1>1. PICK at \in [n + 1..last -> 1..Len(w)] : Placed(w, msgs, n, at)
  BY DEF InPlace
<1>2. last \in Nat /\ Len(w) \in Nat /\ n <= last /\ Len(more) = last + 1
  BY LenProperties DEF Frames
<1>3. \A k \in 1..last + 1 : IsFrame(more[k].bytes)
  BY <1>2 DEF Frames
<1>4. bytes \in Seq(Byte) /\ last + 1 \in 1..last + 1
  <2>1. last + 1 \in 1..last + 1
    BY <1>2
  <2>2. IsFrame(bytes)
    BY <1>3, <2>1
  <2> HIDE DEF bytes
  <2> QED BY <2>1, <2>2, FrameFacts
<1> DEFINE new == [k \in n + 1..last + 1 |-> IF k = last + 1 THEN Len(w) + 1 ELSE at[k]]
<1>5. /\ new[last + 1] = Len(w) + 1
      /\ \A k \in n + 1..last : new[k] = at[k]
  BY <1>2
<1>6. /\ long \in Seq(Byte) /\ Len(bytes) \in Nat /\ Len(long) = Len(w) + Len(bytes)
      /\ \A i \in 1..Len(w) : long[i] = w[i]
      /\ \A i \in 1..Len(bytes) : long[Len(w) + i] = bytes[i]
  BY <1>4, Joined
<1>7. \A k \in 1..last + 1 : size[k] = Len(more[k].bytes) /\ size[k] \in Nat /\ 6 <= size[k]
  BY <1>3, FrameFacts
<1>8. \A k \in n + 1..last : k \in 1..last + 1 /\ more[k] = msgs[k] /\ k # last + 1
  BY <1>2
<1> HIDE DEF last, bytes, long, new, size
<1>9. \A k \in n + 1..last + 1 : k \in n + 1..last \/ k = last + 1
  BY <1>2
<1>10. ASSUME NEW k \in n + 1..last
       PROVE  /\ at[k] \in 1..Len(w) /\ at[k] + Len(more[k].bytes) <= Len(w) + 1
              /\ Stands(long, more[k].bytes, new[k])
  <2> DEFINE here == at[k]
             sz == Len(more[k].bytes)
  <2>1. here \in 1..Len(w) /\ new[k] = here
    BY <1>1, <1>5
  <2>2. sz \in Nat /\ 6 <= sz
    BY <1>7, <1>8
  <2>3. /\ here + sz <= Len(w) + 1
        /\ \A j \in 1..sz : w[(here + j) - 1] = more[k].bytes[j]
    BY <1>1, <1>8 DEF Placed, Stands, last
  <2> HIDE DEF here, sz
  <2>4. \A j \in 1..sz : long[(here + j) - 1] = more[k].bytes[j]
    <3> TAKE j \in 1..sz
    <3>1. (here + j) - 1 \in 1..Len(w)
      BY <1>2, <2>1, <2>2, <2>3
    <3> QED BY <1>6, <2>3, <3>1
  <2>5. here + sz <= Len(long) + 1
    BY <1>2, <1>6, <2>1, <2>2, <2>3
  <2>6. Stands(long, more[k].bytes, here)
    BY <2>4, <2>5 DEF Stands, sz
  <2> QED BY <2>1, <2>3, <2>6 DEF here, sz
<1>11. Stands(long, more[last + 1].bytes, new[last + 1])
  <2>1. (Len(w) + 1) + Len(bytes) <= Len(long) + 1
    BY <1>2, <1>6
  <2>2. ASSUME NEW j \in 1..Len(bytes) PROVE long[((Len(w) + 1) + j) - 1] = bytes[j]
    <3>1. ((Len(w) + 1) + j) - 1 = Len(w) + j
      BY <1>2, <1>6
    <3> QED BY <1>6, <3>1
  <2>3. Stands(long, bytes, Len(w) + 1)
    BY <2>1, <2>2 DEF Stands
  <2> QED BY <1>5, <2>3 DEF bytes
<1>12. new \in [n + 1..last + 1 -> 1..Len(long)]
  <2>1. 6 <= Len(bytes)
    BY <1>4, <1>7 DEF bytes
  <2>2. Len(w) + 1 \in 1..Len(long) /\ \A i \in 1..Len(w) : i \in 1..Len(long)
    BY <1>2, <1>6, <2>1
  <2>3. \A k \in n + 1..last + 1 : new[k] \in 1..Len(long)
    BY <1>5, <1>9, <1>10, <2>2
  <2> QED BY <2>3 DEF new
<1>13. ASSUME NEW k \in n + 1..last + 1, NEW l \in n + 1..last + 1, k < l
       PROVE  new[k] + Len(more[k].bytes) <= new[l]
  <2>1. k \in n + 1..last
    BY <1>2, <1>9, <1>13
  <2>2. CASE l = last + 1
    BY <1>5, <1>10, <2>1, <2>2
  <2>3. CASE l \in n + 1..last
    <3>1. at[k] + Len(msgs[k].bytes) <= at[l]
      BY <1>1, <1>13, <2>1, <2>3 DEF Placed, last
    <3> QED BY <1>5, <1>8, <2>1, <2>3, <3>1
  <2> QED BY <1>9, <2>2, <2>3
<1>14. ASSUME NEW q \in Nat, q <= Len(w)
       PROVE  Free(more, n, new, q) <=> Free(msgs, n, at, q)
  <2>1. q < new[last + 1]
    BY <1>2, <1>5, <1>14
  <2> DEFINE Clear(place, k) == q < place[k] \/ place[k] + Len(more[k].bytes) <= q
  <2>2. Clear(new, last + 1)
    BY <2>1
  <2>3. \A k \in n + 1..last : Clear(new, k) <=> Clear(at, k)
    BY <1>5
  <2>4. Free(msgs, n, at, q) <=> \A k \in n + 1..last : Clear(at, k)
    BY <1>8 DEF Free, last
  <2>5. Free(more, n, new, q) <=> \A k \in n + 1..last + 1 : Clear(new, k)
    BY <1>2 DEF Free
  <2>6. \A k \in n + 1..last : k \in n + 1..last + 1
    BY <1>2
  <2> HIDE DEF Clear
  <2> QED BY <1>9, <2>2, <2>3, <2>4, <2>5, <2>6
<1>15. ASSUME NEW q \in 1..Len(long), long[q] = StartByte, Free(more, n, new, q)
       PROVE  /\ q < Len(long)
              /\ Free(more, n, new, q + 1)
              /\ long[q + 1] \notin AcceptedLength
  <2>1. q \in 1..Len(w)
    <3> SUFFICES ASSUME ~(q <= Len(w)) PROVE FALSE
      BY <1>2, <1>6
    <3>1. ~(q < new[last + 1])
      BY <1>2, <1>5
    <3>2. ~(new[last + 1] + Len(more[last + 1].bytes) <= q)
      <4>1. ~((Len(w) + 1) + Len(bytes) <= q)
        BY <1>2, <1>6
      <4> QED BY <1>5, <4>1 DEF bytes
    <3>3. last + 1 \in n + 1..Len(more)
      BY <1>2
    <3> QED BY <1>15, <3>1, <3>2, <3>3 DEF Free
  <2>2. w[q] = StartByte /\ Free(msgs, n, at, q)
    BY <1>2, <1>6, <1>14, <1>15, <2>1
  <2>3. q < Len(w) /\ Free(msgs, n, at, q + 1) /\ w[q + 1] \notin AcceptedLength
    BY <1>1, <2>1, <2>2 DEF Placed
  <2>4. q + 1 \in Nat /\ q + 1 \in 1..Len(w) /\ q + 1 <= Len(w) /\ q < Len(long)
    BY <1>2, <1>6, <2>1, <2>3
  <2> QED BY <1>6, <1>14, <2>3, <2>4
<1>16. \A k \in n + 1..last + 1 : Stands(long, more[k].bytes, new[k])
  BY <1>9, <1>10, <1>11
<1>17. Placed(long, more, n, new)
  BY <1>2, <1>13, <1>15, <1>16 DEF Placed
<1>18. InPlace(long, more, n)
  BY <1>2, <1>12, <1>17 DEF InPlace
<1> QED BY <1>2, <1>18 DEF long, bytes

(***************************************************************************)
(* Noise adds nothing that could be taken for a message.                   *)
(***************************************************************************)
LEMMA AddNoise ==
  ASSUME NEW w \in Seq(Byte), NEW msgs, Frames(msgs), NEW n \in Nat,
         NEW noise, IsNoise(noise), InPlace(w, msgs, n)
  PROVE  InPlace(w \o noise, msgs, n)
<1> DEFINE last == Len(msgs)
           long == w \o noise
<1>1. PICK at \in [n + 1..last -> 1..Len(w)] : Placed(w, msgs, n, at)
  BY DEF InPlace
<1>2. last \in Nat /\ Len(w) \in Nat
  BY LenProperties DEF Frames
<1>3. /\ long \in Seq(Byte) /\ Len(noise) \in Nat /\ Len(long) = Len(w) + Len(noise)
      /\ \A i \in 1..Len(w) : long[i] = w[i]
      /\ \A i \in 1..Len(noise) : long[Len(w) + i] = noise[i]
  BY Joined DEF IsNoise
<1>4. \A k \in 1..last : Len(msgs[k].bytes) \in Nat /\ 6 <= Len(msgs[k].bytes)
  BY FrameFacts DEF Frames
<1> HIDE DEF last, long
<1>5. ASSUME NEW k \in n + 1..last
      PROVE  /\ at[k] \in 1..Len(w) /\ at[k] + Len(msgs[k].bytes) <= Len(w) + 1
             /\ Stands(long, msgs[k].bytes, at[k])
  <2> DEFINE here == at[k]
             sz == Len(msgs[k].bytes)
  <2>1. here \in 1..Len(w)
    BY <1>1
  <2>2. sz \in Nat /\ 6 <= sz
    BY <1>2, <1>4
  <2>3. /\ here + sz <= Len(w) + 1
        /\ \A j \in 1..sz : w[(here + j) - 1] = msgs[k].bytes[j]
    BY <1>1 DEF Placed, Stands, last
  <2> HIDE DEF here, sz
  <2>4. \A j \in 1..sz : long[(here + j) - 1] = msgs[k].bytes[j]
    <3> TAKE j \in 1..sz
    <3>1. (here + j) - 1 \in 1..Len(w)
      BY <1>2, <2>1, <2>2, <2>3
    <3> QED BY <1>3, <2>3, <3>1
  <2>5. here + sz <= Len(long) + 1
    BY <1>2, <1>3, <2>1, <2>2, <2>3
  <2>6. Stands(long, msgs[k].bytes, here)
    BY <2>4, <2>5 DEF Stands, sz
  <2> QED BY <2>1, <2>3, <2>6 DEF here, sz
<1>6. at \in [n + 1..last -> 1..Len(long)]
  <2>1. \A i \in 1..Len(w) : i \in 1..Len(long)
    BY <1>2, <1>3
  <2> QED BY <1>1, <2>1
<1>7. ASSUME NEW q \in Nat, Len(w) < q PROVE Free(msgs, n, at, q)
  <2>1. ASSUME NEW k \in n + 1..last PROVE at[k] + Len(msgs[k].bytes) <= q
    <3>1. at[k] \in Nat /\ at[k] + Len(msgs[k].bytes) <= Len(w) + 1
      BY <1>2, <1>5
    <3>2. Len(msgs[k].bytes) \in Nat
      BY <1>2, <1>4
    <3> QED BY <1>2, <1>7, <3>1, <3>2
  <2> QED BY <2>1 DEF Free, last
<1>8. ASSUME NEW q \in 1..Len(long), long[q] = StartByte, Free(msgs, n, at, q)
      PROVE  /\ q < Len(long)
             /\ Free(msgs, n, at, q + 1)
             /\ long[q + 1] \notin AcceptedLength
  <2>1. CASE q \in 1..Len(w)
    <3>1. w[q] = StartByte
      BY <1>3, <1>8, <2>1
    <3>2. q < Len(w) /\ Free(msgs, n, at, q + 1) /\ w[q + 1] \notin AcceptedLength
      BY <1>1, <1>8, <2>1, <3>1 DEF Placed
    <3>3. q + 1 \in 1..Len(w) /\ q < Len(long)
      BY <1>2, <1>3, <2>1, <3>2
    <3> QED BY <1>3, <3>2, <3>3
  <2>2. CASE ~(q \in 1..Len(w))
    <3> DEFINE i == q - Len(w)
    <3>1. i \in 1..Len(noise) /\ q = Len(w) + i /\ i \in Nat
      BY <1>2, <1>3, <2>2
    <3> HIDE DEF i
    <3>2. noise[i] = StartByte
      BY <1>3, <1>8, <3>1
    <3>3. i < Len(noise) /\ noise[i + 1] \notin AcceptedLength
      BY <3>1, <3>2 DEF IsNoise
    <3>4. i + 1 \in 1..Len(noise) /\ q + 1 = Len(w) + (i + 1) /\ q < Len(long)
      BY <1>2, <1>3, <3>1, <3>3
    <3>5. long[q + 1] = noise[i + 1]
      BY <1>3, <3>4
    <3>6. q + 1 \in Nat /\ Len(w) < q + 1
      BY <1>2, <3>1
    <3> QED BY <1>7, <3>3, <3>4, <3>5, <3>6
  <2> QED BY <2>1, <2>2
<1>9. \A k, l \in n + 1..last : k < l => at[k] + Len(msgs[k].bytes) <= at[l]
  BY <1>1 DEF Placed, last
<1>10. Placed(long, msgs, n, at)
  BY <1>5, <1>8, <1>9 DEF Placed, last
<1> QED BY <1>6, <1>10 DEF InPlace, last, long

-----------------------------------------------------------------------------
(* The inductive invariant. *)

(***************************************************************************)
(* The bytes of the peer that were not yet read as a frame or skipped: the *)
(* first ones may be in the hands of readApdu().                           *)
(***************************************************************************)
Taken ==
    IF pc = "length" THEN << StartByte >>
    ELSE IF pc = "body" THEN << StartByte, length >> ELSE << >>

Stream == Taken \o (rx \o rest)

(***************************************************************************)
(* The number of frames that were read: the answer to STARTDT, those       *)
(* counted, and the one that is about to be handled.                       *)
(***************************************************************************)
Done == (IF confirmed THEN stats.frames + 1 ELSE 0) + (IF pc = "handle" THEN 1 ELSE 0)

SentMessages ==
    [kind : {"I", "S", "U"}, bytes : Seq(Byte),
     objects : {<< >>} \cup {payload.objects : payload \in Payloads}]

Numbers   == {n \in Nat : n < 32768}
Lengths   == {0} \cup AcceptedLength
Summaries == [DOMAIN NoStats -> Nat]

IsRead(bytes)     == bytes \in Seq(Byte) /\ (bytes = << >> \/ IsValidApdu(bytes))
AreShown(objects) == \A k \in DOMAIN objects : objects[k].address \in Nat
AreSent(msgs)     == msgs \in Seq(SentMessages) /\ Frames(msgs) /\ Len(msgs) <= MaxSent

Types ==
    /\ pc \in {"connect", "startdt", "top", "scan", "length", "body", "handle", "answer", "ack",
               "ended"}
    /\ confirmed \in BOOLEAN /\ expired \in BOOLEAN /\ cut \in BOOLEAN
    /\ exit \in {"none", "0", "1", "2", "killed"}
    /\ tcp \in {"none", "up", "stalled", "closed", "dead", "reset"}
    /\ rx \in Seq(Byte) /\ rest \in Seq(Byte)
    /\ length \in Lengths
    /\ pc = "body" => length \in AcceptedLength
    /\ IsRead(frame)
    /\ pc \in {"handle", "answer", "ack"} => IsFrame(frame)
    /\ stats \in Summaries
    /\ ~confirmed => stats = NoStats
    /\ AreShown(shown)
    /\ AreSent(sent)
    /\ acked \in Numbers

(***************************************************************************)
(* The objects of each payload are what its ASDU holds.                    *)
(***************************************************************************)
PayloadsAsRead ==
    \A payload \in Payloads :
        payload.objects = IF Len(payload.asdu) < 6 THEN << >> ELSE ReadObjects(payload.asdu)

(***************************************************************************)
(* What is known of the messages of the peer: its I frames are numbered.   *)
(***************************************************************************)
Before(msgs, k) == Cardinality({j \in 1..k - 1 : msgs[j].kind = "I"})

MessageOK(msgs, k) ==
    /\ msgs[k].kind = Format(msgs[k].bytes)
    /\ k = 1 => msgs[k].kind = "U"
    /\ msgs[k].kind = "I" =>
          SendSequence(msgs[k].bytes) = (FirstSeq + Before(msgs, k)) % 32768
    /\ PayloadsAsRead => msgs[k].objects = ParseInformationObjects(msgs[k].bytes)

PeerOK == \A k \in 1..Len(sent) : MessageOK(sent, k)

(***************************************************************************)
(* The frames that were not read yet stand in the stream, and the one that *)
(* is handled is the last one read.                                        *)
(***************************************************************************)
Framing ==
    ~cut /\ pc # "ended" =>
        /\ Done <= Len(sent)
        /\ InPlace(Stream, sent, Done)
        /\ pc = "handle" => frame = sent[Done].bytes

(***************************************************************************)
(* What is counted of a sequence of messages.                              *)
(***************************************************************************)
KindIn(msgs, kind) == {k \in DOMAIN msgs : msgs[k].kind = kind}
ObjectsIn(msgs)    == UNION {{k} \X DOMAIN msgs[k].objects : k \in DOMAIN msgs}
BadIn(msgs)        == {o \in ObjectsIn(msgs) : msgs[o[1]].objects[o[2]].quality # {}}

(***************************************************************************)
(* The counters are those of the messages counted.                         *)
(***************************************************************************)
Summed(msgs, summary) ==
    /\ summary.i = Cardinality(KindIn(msgs, "I"))
    /\ summary.s = Cardinality(KindIn(msgs, "S"))
    /\ summary.u = Cardinality(KindIn(msgs, "U"))
    /\ PayloadsAsRead =>
          /\ IsFiniteSet(ObjectsIn(msgs))
          /\ summary.objects = Cardinality(ObjectsIn(msgs))
          /\ summary.bad = Cardinality(BadIn(msgs))

Counting ==
    ~cut /\ confirmed =>
        /\ stats.frames + 1 <= Len(sent)
        /\ stats.i = Before(sent, stats.frames + 2)
        /\ Summed(Counted, stats)

(***************************************************************************)
(* The peer was told the number after that of the last I frame, or is      *)
(* about to be.                                                            *)
(***************************************************************************)
Telling ==
    ~cut =>
        /\ pc = "ack" => SendSequence(frame) = ((FirstSeq + stats.i) - 1) % 32768
        /\ (tcp = "up" /\ pc # "ack") \/ pc = "connect" => acked = (FirstSeq + stats.i) % 32768

Showing == PayloadsAsRead => ShownAsSent

Inv == Types /\ PeerOK /\ Framing /\ Counting /\ Telling /\ Showing

-----------------------------------------------------------------------------
(* What the operations make. *)

(***************************************************************************)
(* Bytes that are split are put together again.                            *)
(***************************************************************************)
LEMMA Split ==
  ASSUME NEW bytes \in Seq(Byte), NEW n \in 0..Len(bytes)
  PROVE  /\ SubSeq(bytes, 1, n) \in Seq(Byte)
         /\ Len(SubSeq(bytes, 1, n)) = n
         /\ SubSeq(bytes, n + 1, Len(bytes)) \in Seq(Byte)
         /\ SubSeq(bytes, 1, n) \o SubSeq(bytes, n + 1, Len(bytes)) = bytes
<1> DEFINE size == Len(bytes)
           head == SubSeq(bytes, 1, n)
           tail == SubSeq(bytes, n + 1, size)
<1>1. size \in Nat /\ n \in Nat /\ n <= size
  BY LenProperties
<1>2. \A k \in 1..size : bytes[k] \in Byte
  BY ElementOfSeq
<1>3. /\ head \in Seq(Byte) /\ Len(head) = n
      /\ \A i \in 1..n : head[i] = bytes[i]
  <2>1. \A k \in 1..n : bytes[k] \in Byte
    BY <1>1, <1>2
  <2>2. /\ head \in Seq(Byte)
        /\ Len(head) = IF 1 <= n THEN (n - 1) + 1 ELSE 0
        /\ \A i \in 1..(n - 1) + 1 : head[i] = bytes[(1 + i) - 1]
    BY <1>1, <2>1, SubSeqProperties
  <2> HIDE DEF head
  <2>3. Len(head) = n
    BY <1>1, <2>2
  <2>4. \A i \in 1..n : i \in 1..(n - 1) + 1 /\ (1 + i) - 1 = i
    BY <1>1
  <2> QED BY <2>2, <2>3, <2>4
<1>4. /\ tail \in Seq(Byte) /\ Len(tail) = size - n
      /\ \A i \in 1..size - n : tail[i] = bytes[n + i]
  <2>1. \A k \in n + 1..size : bytes[k] \in Byte
    BY <1>1, <1>2
  <2>2. /\ tail \in Seq(Byte)
        /\ Len(tail) = IF n + 1 <= size THEN (size - (n + 1)) + 1 ELSE 0
        /\ \A i \in 1..(size - (n + 1)) + 1 : tail[i] = bytes[((n + 1) + i) - 1]
    BY <1>1, <2>1, SubSeqProperties
  <2> HIDE DEF tail, size
  <2>3. Len(tail) = size - n
    BY <1>1, <2>2
  <2>4. \A i \in 1..size - n : i \in 1..(size - (n + 1)) + 1 /\ ((n + 1) + i) - 1 = n + i
    BY <1>1
  <2> QED BY <2>2, <2>3, <2>4
<1> HIDE DEF head, tail
<1> DEFINE both == head \o tail
<1>5. /\ both \in Seq(Byte) /\ Len(both) = Len(head) + Len(tail)
      /\ \A i \in 1..Len(head) : both[i] = head[i]
      /\ \A i \in 1..Len(tail) : both[Len(head) + i] = tail[i]
  BY <1>3, <1>4, Joined
<1> HIDE DEF both
<1>6. Len(both) = size
  <2> HIDE DEF size
  <2> QED BY <1>1, <1>3, <1>4, <1>5
<1>7. ASSUME NEW i \in 1..size PROVE both[i] = bytes[i]
  <2> HIDE DEF size
  <2>1. CASE i <= n
    <3>1. i \in 1..n
      BY <1>1, <2>1
    <3> QED BY <1>3, <1>5, <3>1
  <2>2. CASE ~(i <= n)
    <3> DEFINE j == i - n
    <3>1. j \in 1..size - n /\ i = n + j
      BY <1>1, <2>2
    <3> HIDE DEF j
    <3>2. both[Len(head) + j] = tail[j]
      BY <1>4, <1>5, <3>1
    <3> QED BY <1>3, <1>4, <3>1, <3>2
  <2> QED BY <2>1, <2>2
<1>8. both = bytes
  BY <1>5, <1>6, <1>7, SeqEqual
<1> QED BY <1>3, <1>4, <1>8 DEF head, tail, both

(***************************************************************************)
(* The first byte and the others.                                          *)
(***************************************************************************)
LEMMA FirstByte ==
  ASSUME NEW bytes \in Seq(Byte), bytes # << >>
  PROVE  /\ Head(bytes) \in Byte
         /\ Tail(bytes) \in Seq(Byte)
         /\ bytes = << Head(bytes) >> \o Tail(bytes)
<1>1. Head(bytes) \in Byte /\ Tail(bytes) \in Seq(Byte)
  BY HeadTailProperties
<1>2. /\ Len(bytes) \in Nat /\ Len(bytes) # 0
      /\ Len(Tail(bytes)) = Len(bytes) - 1
      /\ \A i \in 1..Len(Tail(bytes)) : Tail(bytes)[i] = bytes[i + 1]
  BY HeadTailProperties, EmptySeq, LenProperties
<1> DEFINE p == << Head(bytes) >>
           both == p \o Tail(bytes)
<1>3. p \in Seq(Byte) /\ Len(p) = 1 /\ p[1] = bytes[1]
  BY <1>1
<1> HIDE DEF p
<1>4. /\ both \in Seq(Byte) /\ Len(both) = Len(p) + Len(Tail(bytes))
      /\ \A i \in 1..Len(p) : both[i] = p[i]
      /\ \A i \in 1..Len(Tail(bytes)) : both[Len(p) + i] = Tail(bytes)[i]
  BY <1>1, <1>3, Joined
<1> HIDE DEF both
<1>5. Len(both) = Len(bytes)
  BY <1>2, <1>3, <1>4
<1>6. ASSUME NEW i \in 1..Len(bytes) PROVE both[i] = bytes[i]
  <2>1. CASE i = 1
    BY <1>3, <1>4, <2>1
  <2>2. CASE i # 1
    <3> DEFINE j == i - 1
    <3>1. j \in 1..Len(Tail(bytes)) /\ i = 1 + j /\ i = j + 1
      BY <1>2, <2>2
    <3> HIDE DEF j
    <3>2. both[Len(p) + j] = Tail(bytes)[j] /\ Tail(bytes)[j] = bytes[j + 1]
      BY <1>2, <1>4, <3>1
    <3> QED BY <1>3, <3>1, <3>2
  <2> QED BY <2>1, <2>2
<1>7. both = bytes
  BY <1>4, <1>5, <1>6, SeqEqual
<1> QED BY <1>1, <1>7 DEF both, p

LEMMA TwoBytes ==
  ASSUME NEW a \in Byte, NEW b \in Byte
  PROVE  << a >> \o << b >> = << a, b >>
<1> DEFINE p == << a >>
           s == << b >>
           both == << a, b >>
<1>1. p \in Seq(Byte) /\ Len(p) = 1 /\ p[1] = a
  OBVIOUS
<1>2. s \in Seq(Byte) /\ Len(s) = 1 /\ s[1] = b
  OBVIOUS
<1>3. both \in Seq(Byte) /\ Len(both) = 2 /\ both[1] = a /\ both[2] = b
  OBVIOUS
<1> HIDE DEF p, s, both
<1>4. /\ p \o s \in Seq(Byte) /\ Len(p \o s) = Len(p) + Len(s)
      /\ \A i \in 1..Len(p) : (p \o s)[i] = p[i]
      /\ \A i \in 1..Len(s) : (p \o s)[Len(p) + i] = s[i]
  BY <1>1, <1>2, Joined
<1> DEFINE joined == p \o s
<1>5. joined \in Seq(Byte) /\ Len(joined) = 2 /\ joined[1] = a /\ joined[2] = b
  <2> HIDE DEF joined
  <2>1. 1 \in 1..Len(p) /\ 1 \in 1..Len(s) /\ Len(p) + Len(s) = 2 /\ Len(p) + 1 = 2
    BY <1>1, <1>2
  <2> QED BY <1>1, <1>2, <1>4, <2>1 DEF joined
<1> HIDE DEF joined
<1>6. \A i \in 1..Len(joined) : joined[i] = both[i]
  <2>1. \A i \in 1..2 : i = 1 \/ i = 2
    OBVIOUS
  <2> QED BY <1>3, <1>5, <2>1
<1>7. joined = both
  BY <1>3, <1>5, <1>6, SeqEqual
<1> QED BY <1>7 DEF joined, p, s, both

(***************************************************************************)
(* What readApdu() reads is a valid APDU.                                  *)
(***************************************************************************)
LEMMA WhatIsRead ==
  ASSUME NEW bytes \in Seq(Byte), NEW size \in AcceptedLength, size <= Len(bytes)
  PROVE  /\ IsFrame(<< StartByte, size >> \o SubSeq(bytes, 1, size))
         /\ SubSeq(bytes, size + 1, Len(bytes)) \in Seq(Byte)
         /\ bytes = SubSeq(bytes, 1, size) \o SubSeq(bytes, size + 1, Len(bytes))
<1> DEFINE p == << StartByte, size >>
           s == SubSeq(bytes, 1, size)
           read == p \o s
<1>1. size \in Nat /\ 4 <= size /\ size <= 253 /\ size \in 0..Len(bytes) /\ size \in Byte
  BY LenProperties DEF AcceptedLength, MaxApduLength, Byte
<1>2. /\ s \in Seq(Byte) /\ Len(s) = size
      /\ SubSeq(bytes, size + 1, Len(bytes)) \in Seq(Byte)
      /\ bytes = s \o SubSeq(bytes, size + 1, Len(bytes))
  BY <1>1, Split
<1>3. p \in Seq(Byte) /\ Len(p) = 2 /\ p[1] = StartByte /\ p[2] = size
  <2>1. StartByte \in Byte
    BY DEF StartByte, Byte
  <2> QED BY <1>1, <2>1
<1> HIDE DEF p, s
<1>4. /\ read \in Seq(Byte) /\ Len(read) = Len(p) + Len(s)
      /\ \A i \in 1..Len(p) : read[i] = p[i]
  BY <1>2, <1>3, Joined
<1> HIDE DEF read
<1>5. read[1] = StartByte /\ read[2] = size /\ Len(read) = size + 2
  BY <1>1, <1>2, <1>3, <1>4
<1>6. Len(read) \in 6..MaxApduLength
  BY <1>1, <1>5, FrameLength
<1>7. IsValidApdu(read)
  BY <1>1, <1>5, <1>6 DEF IsValidApdu
<1> QED BY <1>2, <1>4, <1>7 DEF IsFrame, read, p, s

(***************************************************************************)
(* Sets of places in a sequence.                                           *)
(***************************************************************************)
LEMMA Indices ==
  ASSUME NEW n \in Nat, NEW S \in SUBSET (1..n)
  PROVE  IsFiniteSet(S) /\ Cardinality(S) \in Nat
<1>1. IsFiniteSet(1..n)
  BY FS_Interval
<1>2. IsFiniteSet(S)
  BY <1>1, FS_Subset
<1> QED BY <1>2, FS_CardinalityType

LEMMA OneMore ==
  ASSUME NEW n \in Nat, NEW S \in SUBSET (1..n), NEW T \in SUBSET {n + 1}
  PROVE  Cardinality(S \cup T) = Cardinality(S) + (IF T = {} THEN 0 ELSE 1)
<1>1. IsFiniteSet(S) /\ Cardinality(S) \in Nat
  BY Indices
<1>2. CASE T = {}
  BY <1>1, <1>2
<1>3. CASE T # {}
  <2>1. T = {n + 1} /\ n + 1 \notin S
    <3>1. n + 1 \notin S
      OBVIOUS
    <3> DEFINE next == n + 1
    <3>2. T \subseteq {next} /\ T # {}
      BY <1>3
    <3> HIDE DEF next
    <3>3. T = {next}
      BY <3>2
    <3> QED BY <3>1, <3>3 DEF next
  <2>2. Cardinality(S \cup {n + 1}) = Cardinality(S) + 1
    BY <1>1, <2>1, FS_AddElement
  <2> QED BY <1>3, <2>1, <2>2
<1> QED BY <1>2, <1>3

(***************************************************************************)
(* The numbers of a frame fit into 15 bits, and an acknowledgement names   *)
(* the one that follows.                                                   *)
(***************************************************************************)
LEMMA AckNumber ==
  ASSUME IsFrame(frame)
  PROVE  /\ SendSequence(frame) \in Numbers
         /\ ReceiveSequence(Ack) = (SendSequence(frame) + 1) % 32768
         /\ ReceiveSequence(Ack) \in Numbers
<1>1. \A k \in {3, 4} : Octet(frame[k])
  <2>1. 3 \in 1..Len(frame) /\ 4 \in 1..Len(frame)
    BY FrameFacts
  <2>2. frame[3] \in Byte /\ frame[4] \in Byte
    BY <2>1, FrameFacts, ElementOfSeq
  <2>3. \A byte \in Byte : Octet(byte)
    BY DEF Byte, Octet
  <2> QED BY <2>2, <2>3
<1>2. SendSequence(frame) \in Numbers
  <2>1. CASE Format(frame) = "I"
    <3> DEFINE low == frame[3]
               high == frame[4]
    <3>1. Octet(low) /\ Octet(high)
      BY <1>1
    <3>2. 3 + 1 = 4
      OBVIOUS
    <3> DEFINE value == (low + (256 * high)) \div 2
    <3>3. SendSequence(frame) = value
      BY <2>1, <3>2 DEF SendSequence, ReadUInt16
    <3> HIDE DEF low, high
    <3>4. value \in Numbers
      <4>1. low \in 0..255 /\ high \in 0..255
        BY <3>1 DEF Octet
      <4> QED BY <4>1 DEF Numbers
    <3> HIDE DEF value
    <3> QED BY <3>3, <3>4
  <2>2. CASE Format(frame) # "I"
    <3>1. SendSequence(frame) = 0
      BY <2>2 DEF SendSequence
    <3>2. 0 \in Numbers
      BY DEF Numbers
    <3> QED BY <3>1, <3>2
  <2> QED BY <2>1, <2>2
<1> DEFINE sequence == SendSequence(frame)
           number == sequence + 1
<1>3. sequence \in Numbers
  BY <1>2
<1> HIDE DEF sequence
<1>4. Word(number) /\ number % 32768 \in Numbers
  <2>1. number \in Nat /\ number <= 32768
    BY <1>3 DEF Numbers
  <2> HIDE DEF number
  <2>2. Word(number)
    BY <2>1 DEF Word
  <2>3. number % 32768 \in Numbers
    BY <2>1 DEF Numbers
  <2> QED BY <2>2, <2>3
<1> HIDE DEF number
<1>5. ReceiveSequence(BuildSFormat(number)) = number % 32768
  BY <1>4, SFormatReadsBack
<1>6. ReceiveSequence(Ack) = number % 32768
  BY <1>5 DEF Ack, number, sequence
<1>7. ReceiveSequence(Ack) \in Numbers
  BY <1>4, <1>6
<1> QED BY <1>2, <1>6, <1>7 DEF number, sequence

(***************************************************************************)
(* The objects of a frame.                                                 *)
(***************************************************************************)
LEMMA FrameObjects ==
  ASSUME NEW bytes, IsFrame(bytes)
  PROVE  /\ ParseInformationObjects(bytes) \in Seq(DataObject)
         /\ Format(bytes) # "I" => ParseInformationObjects(bytes) = << >>
<1>1. bytes \in Seq(Byte) /\ Len(bytes) \in Nat
  BY FrameFacts
<1>2. CASE Format(bytes) = "I" /\ Len(bytes) >= 12
  <2> DEFINE asdu == SubSeq(bytes, 7, Len(bytes))
  <2>1. asdu \in Seq(Byte) /\ Len(asdu) >= 6
    <3>1. 6 \in 0..Len(bytes)
      BY <1>1, <1>2
    <3>2. \A k \in 7..Len(bytes) : bytes[k] \in Byte
      <4>1. \A k \in 1..Len(bytes) : bytes[k] \in Byte
        BY <1>1, ElementOfSeq
      <4>2. \A k \in 7..Len(bytes) : k \in 1..Len(bytes)
        BY <1>1
      <4> QED BY <4>1, <4>2
    <3>3. 7 \in Int /\ Len(bytes) \in Int /\ 7 <= Len(bytes)
      BY <1>1, <1>2
    <3>4. asdu \in Seq(Byte) /\ Len(asdu) = (Len(bytes) - 7) + 1
      BY <3>2, <3>3, SubSeqProperties
    <3> QED BY <1>1, <1>2, <3>4
  <2> HIDE DEF asdu
  <2>2. ReadObjects(asdu) \in Seq(DataObject)
    BY <2>1, ReadObjectsType
  <2> QED BY <1>2, <2>2 DEF ParseInformationObjects, asdu
<1>3. CASE ~(Format(bytes) = "I" /\ Len(bytes) >= 12)
  <2>1. ParseInformationObjects(bytes) = << >>
    BY <1>3 DEF ParseInformationObjects
  <2> QED BY <1>3, <2>1, EmptySeq
<1> QED BY <1>2, <1>3

(***************************************************************************)
(* updateStats().                                                          *)
(***************************************************************************)
Bad(objects) == {j \in DOMAIN objects : HasBadQuality(objects[j])}

LEMMA UpdatedStats ==
  ASSUME stats \in [DOMAIN NoStats -> Nat], NEW format, NEW objects \in Seq(DataObject)
  PROVE  /\ UpdateStats(format, objects) \in [DOMAIN NoStats -> Nat]
         /\ UpdateStats(format, objects).frames = stats.frames + 1
         /\ UpdateStats(format, objects).i = stats.i + (IF format = "I" THEN 1 ELSE 0)
         /\ UpdateStats(format, objects).s = stats.s + (IF format = "S" THEN 1 ELSE 0)
         /\ UpdateStats(format, objects).u = stats.u + (IF format = "U" THEN 1 ELSE 0)
         /\ UpdateStats(format, objects).objects = stats.objects + Len(objects)
         /\ UpdateStats(format, objects).bad = stats.bad + Cardinality(Bad(objects))
<1> DEFINE size == Len(objects)
           bad == Cardinality(Bad(objects))
           i == IF format = "I" THEN 1 ELSE 0
           s == IF format = "S" THEN 1 ELSE 0
           u == IF format = "U" THEN 1 ELSE 0
<1>1. size \in Nat /\ DOMAIN objects = 1..size
  BY LenProperties
<1>2. bad \in Nat
  <2>1. Bad(objects) \in SUBSET (1..size)
    BY <1>1 DEF Bad
  <2> QED BY <1>1, <2>1, Indices
<1>3. i \in Nat /\ s \in Nat /\ u \in Nat
  OBVIOUS
<1>4. DOMAIN NoStats = {"frames", "i", "s", "u", "objects", "bad"}
  BY DEF NoStats
<1>5. UpdateStats(format, objects) =
        [stats EXCEPT !.frames = @ + 1, !.i = @ + i, !.s = @ + s, !.u = @ + u,
                      !.objects = @ + size, !.bad = @ + bad]
  BY DEF UpdateStats, Bad
<1> HIDE DEF size, bad, i, s, u
<1> DEFINE updated == UpdateStats(format, objects)
           Names == {"frames", "i", "s", "u", "objects", "bad"}
<1>6. stats \in [Names -> Nat]
  BY <1>4
<1>7. /\ updated.frames = stats.frames + 1
      /\ updated.i = stats.i + i
      /\ updated.s = stats.s + s
      /\ updated.u = stats.u + u
      /\ updated.objects = stats.objects + size
      /\ updated.bad = stats.bad + bad
  BY <1>5, <1>6
<1>8. DOMAIN updated = Names /\ updated = [name \in Names |-> updated[name]]
  BY <1>5, <1>6
<1> HIDE DEF updated
<1>9. \A name \in Names : updated[name] \in Nat
  BY <1>1, <1>2, <1>3, <1>6, <1>7
<1>10. updated \in [DOMAIN NoStats -> Nat]
  BY <1>4, <1>8, <1>9
<1> QED BY <1>7, <1>10 DEF size, bad, i, s, u, updated

(***************************************************************************)
(* Control frames.                                                         *)
(***************************************************************************)
LEMMA ControlFrames ==
  /\ IsFrame(StartDtCon) /\ Format(StartDtCon) = "U"
  /\ IsFrame(TestFrAct) /\ Format(TestFrAct) = "U"
<1>1. ASSUME NEW control \in {11, 67}
      PROVE  IsFrame(FixedU(control)) /\ Format(FixedU(control)) = "U"
  <2> DEFINE u == FixedU(control)
  <2>1. \A k \in {StartByte, 4, control, 0} : k \in Byte
    BY DEF StartByte, Byte
  <2>2. u = << StartByte, 4, control, 0, 0, 0 >>
    BY DEF FixedU
  <2> HIDE DEF u
  <2>3. u \in Seq(Byte) /\ Len(u) = 6 /\ u[1] = StartByte /\ u[2] = 4 /\ u[3] = control
    BY <2>1, <2>2
  <2>4. IsValidApdu(u)
    BY <2>3 DEF IsValidApdu, MaxApduLength
  <2>5. BitOf(u[3], 1) /\ BitOf(u[3], 2)
    BY <2>3 DEF BitOf
  <2> QED BY <2>3, <2>4, <2>5 DEF IsFrame, Format, u
<1> QED BY <1>1 DEF StartDtCon, TestFrAct

(***************************************************************************)
(* A frame with a format is a valid APDU.                                  *)
(***************************************************************************)
LEMMA ValidFormat ==
  ASSUME NEW bytes \in Seq(Byte), Format(bytes) # "Unknown"
  PROVE  IsFrame(bytes)
BY DEF Format, IsFrame

LEMMA SupervisoryFrame ==
  IsFrame(BuildSFormat(0)) /\ Format(BuildSFormat(0)) = "S"
<1> DEFINE s == BuildSFormat(0)
<1>1. Word(0)
  BY DEF Word
<1>2. Format(s) = "S"
  BY <1>1, SFormatReadsBack
<1>3. s \in Seq(Byte)
  <2>1. PICK low, high : Octet(low) /\ Octet(high) /\ EncodeSequence(0) = << low, high >>
    BY <1>1, EncodedSequence
  <2>2. low \in Byte /\ high \in Byte
    BY <2>1, OctetIsByte
  <2>3. \A k \in {StartByte, 4, 1, 0} : k \in Byte
    BY DEF StartByte, Byte
  <2>4. s = << StartByte, 4, 1, 0 >> \o << low, high >>
    BY <2>1 DEF BuildSFormat
  <2>5. << StartByte, 4, 1, 0 >> \in Seq(Byte) /\ << low, high >> \in Seq(Byte)
    BY <2>2, <2>3
  <2> QED BY <2>4, <2>5, ConcatProperties
<1> HIDE DEF s
<1>4. IsFrame(s)
  BY <1>2, <1>3, ValidFormat
<1> QED BY <1>2, <1>4 DEF s

(***************************************************************************)
(* What the peer sends.                                                    *)
(***************************************************************************)
IsSent(message) ==
    /\ message \in SentMessages
    /\ IsFrame(message.bytes)
    /\ message.kind = Format(message.bytes)
    /\ sent = << >> => message.kind = "U"
    /\ message.kind = "I" => SendSequence(message.bytes) = (FirstSeq + IFrames) % 32768
    /\ PayloadsAsRead => message.objects = ParseInformationObjects(message.bytes)

LEMMA MessageSent ==
  ASSUME sent \in Seq(SentMessages), NEW message \in Messages
  PROVE  IsSent(message)
<1>1. ASSUME NEW kind \in {"S", "U"}, NEW bytes, IsFrame(bytes), Format(bytes) = kind,
             message = Message(kind, bytes, << >>), sent = << >> => kind = "U"
      PROVE  IsSent(message)
  <2>1. /\ message.kind = kind /\ message.bytes = bytes /\ message.objects = << >>
        /\ message = [kind |-> kind, bytes |-> bytes, objects |-> << >>]
    BY <1>1 DEF Message
  <2>2. bytes \in Seq(Byte)
    BY <1>1 DEF IsFrame
  <2>3. message \in SentMessages
    BY <2>1, <2>2 DEF SentMessages
  <2>4. ParseInformationObjects(bytes) = << >>
    BY <1>1, FrameObjects
  <2>5. kind # "I"
    OBVIOUS
  <2> QED BY <1>1, <2>1, <2>3, <2>4, <2>5 DEF IsSent
<1>2. ASSUME NEW payload \in Payloads,
             message = Message("I", BuildIFormat((FirstSeq + IFrames) % 32768, 0, payload.asdu),
                               payload.objects),
             sent # << >>
      PROVE  IsSent(message)
  <2> DEFINE asdu == payload.asdu
             send == (FirstSeq + IFrames) % 32768
             bytes == BuildIFormat(send, 0, asdu)
  <2>1. asdu \in Seq(Byte) /\ Len(asdu) <= 249
    BY ProbeAssumption
  <2>2. IFrames \in Nat
    <3>1. Len(sent) \in Nat /\ DOMAIN sent = 1..Len(sent)
      BY LenProperties
    <3>2. {k \in DOMAIN sent : sent[k].kind = "I"} \in SUBSET (1..Len(sent))
      BY <3>1
    <3> QED BY <3>1, <3>2, Indices DEF IFrames
  <2>3. Word(send) /\ send % 32768 = send /\ Word(0)
    <3> QED BY <2>2, FirstNumber DEF Word
  <2>4. /\ message.kind = "I" /\ message.bytes = bytes /\ message.objects = payload.objects
        /\ message = [kind |-> "I", bytes |-> bytes, objects |-> payload.objects]
    BY <1>2 DEF Message
  <2> HIDE DEF asdu, send
  <2>5. Format(bytes) = "I" /\ SendSequence(bytes) = send /\ bytes \in Seq(Byte)
    BY <2>1, <2>3, IFormatReadsBack
  <2>6. ParseInformationObjects(bytes) = IF Len(asdu) < 6 THEN << >> ELSE ReadObjects(asdu)
    BY <2>1, <2>3, IFormatObjects
  <2> HIDE DEF bytes
  <2>7. IsFrame(bytes)
    BY <2>5, ValidFormat
  <2>8. message \in SentMessages
    BY <2>4, <2>5 DEF SentMessages
  <2>9. PayloadsAsRead => payload.objects = ParseInformationObjects(bytes)
    BY <2>6 DEF PayloadsAsRead, asdu
  <2> QED BY <1>2, <2>4, <2>5, <2>7, <2>8, <2>9 DEF IsSent, send
<1>3. CASE sent = << >>
  <2>1. message \in {Message("U", StartDtCon, << >>), Message("U", TestFrAct, << >>)}
    BY <1>3 DEF Messages
  <2> QED BY <1>1, <1>3, <2>1, ControlFrames
<1>4. CASE sent # << >>
  <2>1. \/ message = Message("U", TestFrAct, << >>)
        \/ message = Message("S", BuildSFormat(0), << >>)
        \/ \E payload \in Payloads :
             message = Message("I", BuildIFormat((FirstSeq + IFrames) % 32768, 0, payload.asdu),
                               payload.objects)
    BY <1>4 DEF Messages
  <2>2. CASE message = Message("U", TestFrAct, << >>)
    BY <1>1, <1>4, <2>2, ControlFrames
  <2>3. CASE message = Message("S", BuildSFormat(0), << >>)
    BY <1>1, <1>4, <2>3, SupervisoryFrame
  <2>4. CASE \E payload \in Payloads :
               message = Message("I", BuildIFormat((FirstSeq + IFrames) % 32768, 0, payload.asdu),
                                 payload.objects)
    BY <1>2, <1>4, <2>4
  <2> QED BY <2>1, <2>2, <2>3, <2>4
<1> QED BY <1>3, <1>4

-----------------------------------------------------------------------------
(* Types. *)

(***************************************************************************)
(* What arrives, at once or in two pieces.                                 *)
(***************************************************************************)
LEMMA Arrived ==
  ASSUME rx \in Seq(Byte), rest = << >>, NEW bytes \in Seq(Byte), Arrive(bytes)
  PROVE  /\ rx' \in Seq(Byte)
         /\ rest' \in Seq(Byte)
         /\ rx' \o rest' = (rx \o rest) \o bytes
<1>1. Len(bytes) \in Nat
  BY LenProperties
<1>2. PICK n \in {k \in Splits : k < Len(bytes)} \cup {Len(bytes)} :
        rx' = rx \o SubSeq(bytes, 1, n) /\ rest' = SubSeq(bytes, n + 1, Len(bytes))
  BY DEF Arrive
<1>3. n \in 0..Len(bytes)
  <2>1. Splits \subseteq Nat
    BY ProbeAssumption
  <2> QED BY <1>1, <2>1
<1> DEFINE head == SubSeq(bytes, 1, n)
           tail == SubSeq(bytes, n + 1, Len(bytes))
<1>4. head \in Seq(Byte) /\ tail \in Seq(Byte) /\ head \o tail = bytes
  BY <1>3, Split
<1>5. rx' = rx \o head /\ rest' = tail
  BY <1>2
<1> HIDE DEF head, tail
<1>6. rx' \in Seq(Byte)
  BY <1>4, <1>5, ConcatProperties
<1>7. (rx \o head) \o tail = rx \o (head \o tail)
  <2>1. rx \in Seq(Byte) /\ head \in Seq(Byte) /\ tail \in Seq(Byte)
    BY <1>4
  <2> QED BY <2>1, Associative
<1>8. rx \o rest = rx
  BY ConcatEmptySeq
<1> QED BY <1>4, <1>5, <1>6, <1>7, <1>8

(***************************************************************************)
(* A message more.                                                         *)
(***************************************************************************)
LEMMA AppendSent ==
  ASSUME NEW msgs, AreSent(msgs), Len(msgs) < MaxSent,
         NEW message \in SentMessages, IsFrame(message.bytes)
  PROVE  /\ AreSent(Append(msgs, message))
         /\ Len(msgs) \in Nat
         /\ Len(Append(msgs, message)) = Len(msgs) + 1
         /\ \A k \in 1..Len(msgs) : Append(msgs, message)[k] = msgs[k]
         /\ Append(msgs, message)[Len(msgs) + 1] = message
<1> DEFINE more == Append(msgs, message)
<1>1. msgs \in Seq(SentMessages) /\ Len(msgs) \in Nat /\ MaxSent \in Nat
  BY LenProperties, ProbeAssumption DEF AreSent
<1>2. /\ more \in Seq(SentMessages)
      /\ Len(more) = Len(msgs) + 1
      /\ \A k \in 1..Len(msgs) : more[k] = msgs[k]
      /\ more[Len(msgs) + 1] = message
  BY <1>1, AppendProperties
<1> HIDE DEF more
<1>3. Frames(more)
  <2>1. ASSUME NEW k \in 1..Len(more) PROVE IsFrame(more[k].bytes)
    <3>1. CASE k = Len(msgs) + 1
      BY <1>2, <3>1
    <3>2. CASE k # Len(msgs) + 1
      <4>1. k \in 1..Len(msgs)
        BY <1>1, <1>2, <3>2
      <4> QED BY <1>2, <4>1 DEF AreSent, Frames
    <3> QED BY <3>1, <3>2
  <2>2. Len(more) \in Nat
    BY <1>1, <1>2
  <2> QED BY <2>1, <2>2 DEF Frames
<1>4. AreSent(more)
  BY <1>1, <1>2, <1>3 DEF AreSent
<1> QED BY <1>1, <1>2, <1>4 DEF more

(***************************************************************************)
(* Init.                                                                   *)
(***************************************************************************)
LEMMA TypesInit == Init => Types
<1> SUFFICES ASSUME Init PROVE Types
  OBVIOUS
<1>1. rx \in Seq(Byte) /\ rest \in Seq(Byte)
  BY EmptySeq DEF Init
<1>2. IsRead(frame)
  BY EmptySeq DEF Init, IsRead
<1>3. AreSent(sent)
  <2>1. MaxSent \in Nat
    BY ProbeAssumption
  <2>2. << >> \in Seq(SentMessages) /\ Len(<< >>) = 0
    BY EmptySeq
  <2>3. Frames(<< >>)
    BY <2>2 DEF Frames
  <2> QED BY <2>1, <2>2, <2>3 DEF AreSent, Init
<1>4. AreShown(shown)
  BY DEF AreShown, Init
<1>5. stats \in Summaries
  BY DEF Init, NoStats, Summaries
<1>6. acked \in Numbers
  BY FirstNumber DEF Init, Numbers
<1>7. length \in Lengths
  BY DEF Init, Lengths
<1> QED BY <1>1, <1>2, <1>3, <1>4, <1>5, <1>6, <1>7 DEF Types, Init

(***************************************************************************)
(* The steps of main().                                                    *)
(***************************************************************************)
LEMMA TypesMain ==
  ASSUME Types,
         Killed \/ Connect \/ SendStartDt \/ StartAnswered \/ Top \/ SendAnswer \/ SendAck
  PROVE  Types'
<1>1. CASE Killed
  BY <1>1 DEF Killed, Types, network, Goto, Exit
<1>2. CASE Connect
  BY <1>2 DEF Connect, Types, Goto, Exit
<1>3. CASE SendStartDt
  BY <1>3 DEF SendStartDt, Types, Goto, Exit, Sent, SendFails, Open
<1>4. CASE StartAnswered
  BY <1>4 DEF StartAnswered, Types, network, Goto, Exit
<1>5. CASE Top
  BY <1>5 DEF Top, Types, network, Goto, Exit
<1>6. CASE SendAnswer
  BY <1>6 DEF SendAnswer, Types, Goto, Sent, SendFails, Open
<1>7. CASE SendAck
  <2>1. ReceiveSequence(Ack) \in Numbers
    <3>1. IsFrame(frame)
      BY <1>7 DEF SendAck, Types
    <3> QED BY <3>1, AckNumber
  <2> QED BY <1>7, <2>1 DEF SendAck, Types, Goto, Sent, SendFails, Open
<1> QED BY <1>1, <1>2, <1>3, <1>4, <1>5, <1>6, <1>7

(***************************************************************************)
(* The steps of readApdu().                                                *)
(***************************************************************************)
LEMMA TypesRead ==
  ASSUME Types, SkipByte \/ ReadLength \/ ReadBody \/ ReceiveFails
  PROVE  Types'
<1>1. rx \in Seq(Byte)
  BY DEF Types
<1>2. CASE SkipByte
  <2>1. Tail(rx) \in Seq(Byte)
    BY <1>1, <1>2, FirstByte DEF SkipByte
  <2> QED BY <1>2, <2>1 DEF SkipByte, Types, Goto
<1>3. CASE ReadLength
  <2>1. Tail(rx) \in Seq(Byte)
    BY <1>1, <1>3, FirstByte DEF ReadLength
  <2>2. CASE Head(rx) \in AcceptedLength
    <3>1. length' = Head(rx) /\ pc' = "body" /\ exit' = exit
      BY <1>3, <2>2 DEF ReadLength, AcceptedLength, Goto
    <3>2. length' \in Lengths /\ length' \in AcceptedLength
      BY <2>2, <3>1 DEF Lengths
    <3> QED BY <1>3, <2>1, <3>1, <3>2 DEF ReadLength, Types
  <2>3. CASE Head(rx) \notin AcceptedLength
    <3>1. length' = length /\ ReadFails
      BY <1>3, <2>3 DEF ReadLength, AcceptedLength
    <3> QED BY <1>3, <2>1, <3>1 DEF ReadLength, ReadFails, Types, Goto, Exit
  <2> QED BY <2>2, <2>3
<1>4. CASE ReadBody
  <2>1. length \in AcceptedLength /\ length <= Len(rx)
    BY <1>4, LenProperties DEF ReadBody, Types, AcceptedLength, MaxApduLength
  <2>2. IsFrame(frame') /\ rx' \in Seq(Byte)
    BY <1>1, <1>4, <2>1, WhatIsRead DEF ReadBody
  <2>3. IsRead(frame')
    BY <2>2 DEF IsFrame, IsRead
  <2> QED BY <1>4, <2>2, <2>3 DEF ReadBody, Types, Goto
<1>5. CASE ReceiveFails
  <2>1. rx' \in Seq(Byte)
    BY <1>5, EmptySeq DEF ReceiveFails
  <2> QED BY <1>5, <2>1 DEF ReceiveFails, ReadFails, Types, Goto, Exit
<1> QED BY <1>2, <1>3, <1>4, <1>5

(***************************************************************************)
(* What a frame does.                                                      *)
(***************************************************************************)
LEMMA TypesHandle ==
  ASSUME Types, HandleFrame
  PROVE  Types'
<1> DEFINE objects == ParseInformationObjects(frame)
           format == Format(frame)
<1>1. IsFrame(frame) /\ stats \in Summaries /\ AreShown(shown)
  BY DEF HandleFrame, Types
<1>2. objects \in Seq(DataObject)
  BY <1>1, FrameObjects
<1>3. /\ stats' = UpdateStats(format, objects)
      /\ shown' = IF format = "I" THEN objects ELSE shown
  BY DEF HandleFrame
<1> HIDE DEF objects
<1>4. UpdateStats(format, objects) \in Summaries
  BY <1>1, <1>2, UpdatedStats DEF Summaries
<1>5. AreShown(objects)
  <2>1. DOMAIN objects = 1..Len(objects) /\ \A k \in 1..Len(objects) : objects[k] \in DataObject
    BY <1>2, LenProperties, ElementOfSeq
  <2>2. \A object \in DataObject : object.address \in Nat
    BY DEF DataObject
  <2> QED BY <2>1, <2>2 DEF AreShown
<1> HIDE DEF format
<1>6. AreShown(shown') /\ stats' \in Summaries
  BY <1>1, <1>3, <1>4, <1>5
<1>7. pc' \in {"answer", "ack", "top"} /\ confirmed
  BY DEF HandleFrame, Goto
<1> QED BY <1>1, <1>6, <1>7 DEF HandleFrame, Types, network

(***************************************************************************)
(* The environment.                                                        *)
(***************************************************************************)
LEMMA TypesPeer ==
  ASSUME Types, Deadline \/ PeerSends \/ RestArrives \/ LinkLost \/ UNCHANGED vars
  PROVE  Types'
<1>1. CASE Deadline
  BY <1>1 DEF Deadline, Types, network
<1>2. CASE PeerSends
  <2>1. rx \in Seq(Byte) /\ rest = << >> /\ AreSent(sent)
    BY <1>2 DEF PeerSends, Types
  <2>2. rx' \in Seq(Byte) /\ rest' \in Seq(Byte) /\ AreSent(sent')
    <3>1. ASSUME NEW bytes \in Noise, Arrive(bytes), sent' = sent
          PROVE  rx' \in Seq(Byte) /\ rest' \in Seq(Byte) /\ AreSent(sent')
      <4>1. bytes \in Seq(Byte)
        BY ProbeAssumption
      <4> QED BY <2>1, <3>1, <4>1, Arrived
    <3>2. ASSUME NEW message \in Messages, Arrive(message.bytes), sent' = Append(sent, message),
                 Len(sent) < MaxSent
          PROVE  rx' \in Seq(Byte) /\ rest' \in Seq(Byte) /\ AreSent(sent')
      <4>1. message \in SentMessages /\ IsFrame(message.bytes)
        BY <2>1, MessageSent DEF AreSent, IsSent
      <4>2. rx' \in Seq(Byte) /\ rest' \in Seq(Byte)
        BY <2>1, <3>2, <4>1, Arrived DEF IsFrame
      <4>3. AreSent(sent')
        BY <2>1, <3>2, <4>1, AppendSent
      <4> QED BY <4>2, <4>3
    <3> QED BY <1>2, <3>1, <3>2 DEF PeerSends
  <2> QED BY <1>2, <2>2 DEF PeerSends, Types
<1>3. CASE RestArrives
  <2>1. rx' \in Seq(Byte) /\ rest' \in Seq(Byte)
    BY <1>3, EmptySeq, ConcatProperties DEF RestArrives, Types
  <2> QED BY <1>3, <2>1 DEF RestArrives, Types
<1>4. CASE LinkLost
  BY <1>4 DEF LinkLost, Types
<1>5. CASE UNCHANGED vars
  BY <1>5 DEF vars, network, Types
<1> QED BY <1>1, <1>2, <1>3, <1>4, <1>5

LEMMA TypesNext == Types /\ [Next]_vars => Types'
<1> SUFFICES ASSUME Types, [Next]_vars PROVE Types'
  OBVIOUS
<1>1. CASE Killed \/ Connect \/ SendStartDt \/ StartAnswered \/ Top \/ SendAnswer \/ SendAck
  BY <1>1, TypesMain
<1>2. CASE SkipByte \/ ReadLength \/ ReadBody \/ ReceiveFails
  BY <1>2, TypesRead
<1>3. CASE HandleFrame
  BY <1>3, TypesHandle
<1>4. CASE Deadline \/ PeerSends \/ RestArrives \/ LinkLost \/ UNCHANGED vars
  BY <1>4, TypesPeer
<1> QED BY <1>1, <1>2, <1>3, <1>4 DEF Next, Work

(***************************************************************************)
(* The variables of the probe keep their types: what readApdu() returns is *)
(* a valid APDU, so that its last check never fails, whatever bytes come.  *)
(***************************************************************************)
THEOREM ProbeTypes == Spec => []TypeOK
<1>1. ASSUME Types PROVE TypeOK
  <2>1. frame = << >> \/ IsValidApdu(frame)
    BY <1>1 DEF Types, IsRead
  <2>2. length \in {0} \cup 4..MaxApduLength - 2
    BY <1>1 DEF Types, Lengths, AcceptedLength
  <2>3. stats \in [DOMAIN NoStats -> Nat] /\ acked \in Nat /\ acked < 32768
    BY <1>1 DEF Types, Summaries, Numbers
  <2>4. (\A k \in DOMAIN shown : shown[k].address \in Nat) /\ Len(sent) <= MaxSent
    BY <1>1 DEF Types, AreShown, AreSent
  <2> QED BY <1>1, <2>1, <2>2, <2>3, <2>4 DEF Types, TypeOK
<1> QED BY <1>1, TypesInit, TypesNext, PTL DEF Spec

-----------------------------------------------------------------------------
(* The messages of the peer. *)

(***************************************************************************)
(* A step leaves the messages alone, or the peer sends one more.           *)
(***************************************************************************)
Quiet == UNCHANGED <<pc, confirmed, length, frame, stats, shown, exit, tcp, acked, cut>>

OneIsSent ==
    /\ Open /\ rest = << >> /\ Len(sent) < MaxSent
    /\ Quiet
    /\ \E message :
          /\ IsSent(message)
          /\ Arrive(message.bytes)
          /\ sent' = Append(sent, message)

LEMMA SentSteps ==
  ASSUME Types, [Next]_vars
  PROVE  sent' = sent \/ OneIsSent
<1>1. CASE PeerSends
  <2>1. ASSUME NEW message \in Messages, Arrive(message.bytes), sent' = Append(sent, message),
               Len(sent) < MaxSent
        PROVE  OneIsSent
    <3>1. IsSent(message)
      BY MessageSent DEF Types, AreSent
    <3> QED BY <1>1, <2>1, <3>1 DEF PeerSends, OneIsSent, Quiet
  <2> QED BY <1>1, <2>1 DEF PeerSends
<1>2. CASE ~PeerSends
  BY <1>2 DEF Next, Work, vars, network, Killed, Connect, SendStartDt, StartAnswered, Top,
     SkipByte, ReadLength, ReadBody, ReceiveFails, HandleFrame, SendAnswer, SendAck, Deadline,
     RestArrives, LinkLost
<1> QED BY <1>1, <1>2

(***************************************************************************)
(* What was sent stays.                                                    *)
(***************************************************************************)
Extends(more, msgs) ==
    /\ Len(msgs) \in Nat /\ Len(more) \in Nat /\ Len(msgs) <= Len(more)
    /\ \A k \in 1..Len(msgs) : more[k] = msgs[k]

LEMMA SentExtends ==
  ASSUME Types, [Next]_vars
  PROVE  Extends(sent', sent)
<1>1. AreSent(sent) /\ Len(sent) \in Nat
  BY DEF Types, AreSent, Frames
<1>2. CASE sent' = sent
  BY <1>1, <1>2 DEF Extends
<1>3. CASE OneIsSent
  <2>1. PICK message : IsSent(message) /\ sent' = Append(sent, message)
    BY <1>3 DEF OneIsSent
  <2>2. /\ Len(Append(sent, message)) = Len(sent) + 1
        /\ \A k \in 1..Len(sent) : Append(sent, message)[k] = sent[k]
    BY <1>1, <1>3, <2>1, AppendSent DEF IsSent, OneIsSent
  <2> QED BY <1>1, <2>1, <2>2 DEF Extends
<1> QED BY <1>2, <1>3, SentSteps

LEMMA BeforeExtends ==
  ASSUME NEW msgs, NEW more, Extends(more, msgs), NEW k \in Nat, k <= Len(msgs) + 1
  PROVE  Before(more, k) = Before(msgs, k)
<1>1. \A j \in 1..k - 1 : more[j] = msgs[j]
  BY DEF Extends
<1>2. {j \in 1..k - 1 : more[j].kind = "I"} = {j \in 1..k - 1 : msgs[j].kind = "I"}
  BY <1>1
<1> QED BY <1>2 DEF Before

LEMMA PeerOKNext ==
  ASSUME Types, PeerOK, [Next]_vars
  PROVE  PeerOK'
<1>1. CASE sent' = sent
  BY <1>1 DEF PeerOK, MessageOK
<1>2. CASE OneIsSent
  <2>1. PICK message : IsSent(message) /\ sent' = Append(sent, message)
    BY <1>2 DEF OneIsSent
  <2> DEFINE more == Append(sent, message)
             last == Len(sent)
  <2>2. AreSent(sent)
    BY DEF Types
  <2>3. /\ last \in Nat /\ Len(more) = last + 1
        /\ \A k \in 1..last : more[k] = sent[k]
        /\ more[last + 1] = message
    BY <1>2, <2>1, <2>2, AppendSent DEF IsSent, OneIsSent
  <2>4. Extends(more, sent)
    <3> HIDE DEF more
    <3> QED BY <2>3 DEF Extends
  <2>5. IFrames = Before(sent, last + 1)
    <3>1. DOMAIN sent = 1..last /\ (last + 1) - 1 = last
      BY <2>2, <2>3, LenProperties DEF AreSent
    <3> QED BY <3>1 DEF IFrames, Before
  <2>6. sent' = more
    BY <2>1
  <2> HIDE DEF more
  <2>7. ASSUME NEW k \in 1..last PROVE MessageOK(more, k)
    <3>1. k \in Nat /\ k <= last + 1
      BY <2>3
    <3>2. Before(more, k) = Before(sent, k)
      BY <2>4, <3>1, BeforeExtends
    <3>3. MessageOK(sent, k) /\ more[k] = sent[k]
      BY <2>3 DEF PeerOK
    <3> QED BY <3>2, <3>3 DEF MessageOK
  <2>8. MessageOK(more, last + 1)
    <3>1. Before(more, last + 1) = Before(sent, last + 1)
      BY <2>3, <2>4, BeforeExtends
    <3>2. last + 1 = 1 => sent = << >>
      BY <2>2, <2>3, EmptySeq DEF AreSent
    <3> QED BY <2>1, <2>3, <2>5, <3>1, <3>2 DEF MessageOK, IsSent
  <2>9. \A k \in 1..last + 1 : k \in 1..last \/ k = last + 1
    BY <2>3
  <2>10. \A k \in 1..Len(more) : MessageOK(more, k)
    BY <2>3, <2>7, <2>8, <2>9
  <2> QED BY <2>6, <2>10 DEF PeerOK, MessageOK
<1> QED BY <1>1, <1>2, SentSteps

-----------------------------------------------------------------------------
(* Framing. *)

(***************************************************************************)
(* Where the frames that were not read yet stand.                          *)
(***************************************************************************)
InOrder ==
    /\ Done <= Len(sent)
    /\ InPlace(Stream, sent, Done)
    /\ pc = "handle" => frame = sent[Done].bytes

LEMMA StreamType ==
  ASSUME Types
  PROVE  /\ Taken \in Seq(Byte)
         /\ rx \o rest \in Seq(Byte)
         /\ Stream \in Seq(Byte)
         /\ Done \in Nat
         /\ Frames(sent)
<1>1. StartByte \in Byte /\ \A size \in AcceptedLength : size \in Byte
  BY DEF StartByte, Byte, AcceptedLength, MaxApduLength
<1>2. Taken \in Seq(Byte)
  <2>1. pc = "body" => length \in Byte
    BY <1>1 DEF Types
  <2>2. << StartByte >> \in Seq(Byte) /\ << >> \in Seq(Byte)
    BY <1>1
  <2>3. pc = "body" => << StartByte, length >> \in Seq(Byte)
    BY <1>1, <2>1
  <2> QED BY <2>2, <2>3 DEF Taken
<1>3. rx \o rest \in Seq(Byte)
  BY ConcatProperties DEF Types
<1>4. Stream \in Seq(Byte)
  BY <1>2, <1>3, ConcatProperties DEF Stream
<1>5. Done \in Nat
  <2>1. stats \in Summaries
    BY DEF Types
  <2>2. stats.frames \in Nat
    BY <2>1 DEF Summaries, NoStats
  <2> QED BY <2>2 DEF Done
<1> QED BY <1>2, <1>3, <1>4, <1>5 DEF Types, AreSent

(***************************************************************************)
(* Steps that neither take bytes nor read a frame.                         *)
(***************************************************************************)
LEMMA FramingMain ==
  ASSUME Types, InOrder, pc' # "ended",
         Connect \/ SendStartDt \/ Top \/ SendAnswer \/ SendAck \/ Deadline \/ LinkLost
           \/ UNCHANGED vars
  PROVE  InOrder'
<1>1. /\ rx' = rx /\ rest' = rest /\ sent' = sent /\ length' = length /\ stats' = stats
      /\ confirmed' = confirmed /\ frame' = frame
  BY DEF Connect, SendStartDt, Top, SendAnswer, SendAck, Deadline, LinkLost, vars, network
<1>2. \/ pc' = pc
      \/ /\ pc \notin {"length", "body", "handle"}
         /\ pc' \notin {"length", "body", "handle"}
  BY DEF Connect, SendStartDt, Top, SendAnswer, SendAck, Deadline, LinkLost, vars, network,
     Goto, Exit
<1>3. Taken' = Taken /\ Done' = Done
  BY <1>1, <1>2 DEF Taken, Done
<1>4. Stream' = Stream
  BY <1>1, <1>3 DEF Stream
<1>5. pc' = "handle" => pc = "handle"
  BY <1>2
<1> QED BY <1>1, <1>3, <1>4, <1>5 DEF InOrder

(***************************************************************************)
(* A frame that is handled was read before.                                *)
(***************************************************************************)
LEMMA FramingHandle ==
  ASSUME Types, InOrder, pc' # "ended", StartAnswered \/ HandleFrame
  PROVE  InOrder'
<1>1. /\ rx' = rx /\ rest' = rest /\ sent' = sent /\ pc = "handle"
      /\ pc' \notin {"length", "body", "handle"}
  BY DEF StartAnswered, HandleFrame, network, Goto, Exit
<1>2. Stream' = Stream
  BY <1>1 DEF Stream, Taken
<1>3. stats \in Summaries
  BY DEF Types
<1>4. stats.frames \in Nat
  BY <1>3 DEF Summaries, NoStats
<1>5. Done' = Done
  <2>1. CASE StartAnswered
    <3>1. confirmed' /\ ~confirmed /\ stats = NoStats /\ stats' = stats
      BY <1>1, <2>1 DEF StartAnswered, Goto, Exit, Types
    <3>2. stats.frames = 0
      BY <3>1 DEF NoStats
    <3> QED BY <1>1, <3>1, <3>2 DEF Done
  <2>2. CASE HandleFrame
    <3> DEFINE objects == ParseInformationObjects(frame)
    <3>1. objects \in Seq(DataObject)
      BY <1>1, FrameObjects DEF Types
    <3>2. stats' = UpdateStats(Format(frame), objects) /\ confirmed /\ confirmed'
      BY <2>2 DEF HandleFrame
    <3> HIDE DEF objects
    <3>3. stats'.frames = stats.frames + 1
      BY <1>3, <3>1, <3>2, UpdatedStats DEF Summaries
    <3> QED BY <1>1, <1>4, <3>2, <3>3 DEF Done
  <2> QED BY <2>1, <2>2
<1> QED BY <1>1, <1>2, <1>5 DEF InOrder

(***************************************************************************)
(* A byte that is not a start byte is skipped; a start byte is kept.       *)
(***************************************************************************)
LEMMA FramingSkip ==
  ASSUME Types, InOrder, SkipByte
  PROVE  InOrder'
<1> DEFINE byte == Head(rx)
           s == Tail(rx) \o rest
<1>1. rx \in Seq(Byte) /\ rest \in Seq(Byte) /\ rx # << >> /\ pc = "scan"
  BY DEF SkipByte, Types
<1>2. byte \in Byte /\ Tail(rx) \in Seq(Byte) /\ rx = << byte >> \o Tail(rx)
  BY <1>1, FirstByte
<1> HIDE DEF byte
<1>3. s \in Seq(Byte) /\ rx \o rest = << byte >> \o s
  <2> DEFINE tail == Tail(rx)
             first == << byte >>
  <2>1. first \in Seq(Byte) /\ tail \in Seq(Byte) /\ rx = first \o tail
    BY <1>2
  <2> HIDE DEF tail, first
  <2>2. (first \o tail) \o rest = first \o (tail \o rest)
    BY <1>1, <2>1, Associative
  <2>3. tail \o rest \in Seq(Byte)
    BY <1>1, <2>1, ConcatProperties
  <2> QED BY <2>1, <2>2, <2>3 DEF tail, first
<1>4. rx' \o rest' = s /\ sent' = sent /\ Done' = Done /\ pc' # "handle"
  BY <1>1 DEF SkipByte, Done, Goto
<1>5. << byte >> \o s \in Seq(Byte)
  BY <1>3, StreamType
<1>6. Stream = << byte >> \o s
  <2>1. Taken = << >>
    BY <1>1 DEF Taken
  <2> QED BY <1>3, <1>5, <2>1, ConcatEmptySeq DEF Stream
<1> HIDE DEF s
<1>7. CASE byte = StartByte
  <2>1. Taken' = << byte >>
    BY <1>7 DEF SkipByte, Taken, Goto, byte
  <2>2. Stream' = Stream
    BY <1>4, <1>6, <2>1 DEF Stream
  <2> QED BY <1>4, <2>2 DEF InOrder
<1>8. CASE byte # StartByte
  <2>1. Taken' = << >>
    BY <1>1, <1>8 DEF SkipByte, Taken, byte
  <2>2. Stream' = s
    BY <1>3, <1>4, <2>1, ConcatEmptySeq DEF Stream
  <2> DEFINE p == << byte >>
  <2>3. p \in Seq(Byte) /\ IsSkipped(p)
    BY <1>2, <1>8 DEF IsSkipped
  <2> HIDE DEF p
  <2>4. InPlace(p \o s, sent, Done)
    BY <1>6 DEF InOrder, p
  <2>5. InPlace(s, sent, Done)
    BY <1>3, <2>3, <2>4, StreamType, DropOther
  <2> QED BY <1>4, <2>2, <2>5 DEF InOrder
<1> QED BY <1>7, <1>8

(***************************************************************************)
(* A length is kept or refused.                                            *)
(***************************************************************************)
LEMMA FramingLength ==
  ASSUME Types, InOrder, ReadLength, pc' # "ended"
  PROVE  InOrder'
<1> DEFINE byte == Head(rx)
           s == Tail(rx) \o rest
           first == << StartByte >>
           second == << byte >>
           p == << StartByte, byte >>
<1>1. rx \in Seq(Byte) /\ rest \in Seq(Byte) /\ rx # << >> /\ pc = "length"
  BY DEF ReadLength, Types
<1>2. byte \in Byte /\ Tail(rx) \in Seq(Byte) /\ rx = second \o Tail(rx)
  BY <1>1, FirstByte
<1> HIDE DEF byte
<1>3. first \in Seq(Byte) /\ second \in Seq(Byte) /\ p \in Seq(Byte) /\ first \o second = p
  <2>1. StartByte \in Byte
    BY DEF StartByte, Byte
  <2>2. first \in Seq(Byte) /\ second \in Seq(Byte) /\ p \in Seq(Byte)
    BY <1>2, <2>1
  <2>3. first \o second = p
    BY <1>2, <2>1, TwoBytes
  <2> QED BY <2>2, <2>3
<1>4. Taken = first
  BY <1>1 DEF Taken
<1>5. rx' \o rest' = s /\ sent' = sent /\ Done' = Done /\ pc' \in {"body", "top"}
  BY <1>1 DEF ReadLength, ReadFails, Done, Goto, Exit
<1>6. s \in Seq(Byte) /\ Stream = p \o s
  <2> DEFINE tail == Tail(rx)
  <2>1. tail \in Seq(Byte) /\ rx = second \o tail
    BY <1>2
  <2> HIDE DEF first, second, p, tail
  <2>2. (second \o tail) \o rest = second \o (tail \o rest)
    <3>1. second \in Seq(Byte) /\ tail \in Seq(Byte) /\ rest \in Seq(Byte)
      BY <1>1, <1>3, <2>1
    <3> QED BY <3>1, Associative
  <2>3. tail \o rest \in Seq(Byte)
    BY <1>1, <2>1, ConcatProperties
  <2>4. (first \o second) \o (tail \o rest) = first \o (second \o (tail \o rest))
    <3>1. first \in Seq(Byte) /\ second \in Seq(Byte)
      BY <1>3
    <3> QED BY <2>3, <3>1, Associative
  <2> QED BY <1>3, <1>4, <2>1, <2>2, <2>3, <2>4 DEF Stream, tail
<1>7. CASE byte \in AcceptedLength
  <2>1. length' = byte /\ pc' = "body"
    BY <1>7 DEF ReadLength, AcceptedLength, Goto, byte
  <2>2. Taken' = p
    BY <2>1 DEF Taken
  <2>3. Stream' = Stream
    BY <1>5, <1>6, <2>2 DEF Stream
  <2> QED BY <1>5, <2>3 DEF InOrder
<1>8. CASE byte \notin AcceptedLength
  <2>1. pc' = "top"
    BY <1>8 DEF ReadLength, ReadFails, AcceptedLength, Goto, Exit, byte
  <2>2. Taken' = << >>
    BY <2>1 DEF Taken
  <2>3. Stream' = s
    BY <1>5, <1>6, <2>2, ConcatEmptySeq DEF Stream
  <2>4. IsRefused(p)
    BY <1>8 DEF IsRefused
  <2> HIDE DEF p, s
  <2>5. InPlace(p \o s, sent, Done)
    BY <1>6 DEF InOrder
  <2>6. InPlace(s, sent, Done)
    BY <1>3, <1>6, <2>4, <2>5, StreamType, DropRefused
  <2> QED BY <1>5, <2>1, <2>3, <2>6 DEF InOrder
<1> QED BY <1>7, <1>8

(***************************************************************************)
(* A frame is read.                                                        *)
(***************************************************************************)
LEMMA FramingBody ==
  ASSUME Types, InOrder, ReadBody
  PROVE  InOrder'
<1> DEFINE head == SubSeq(rx, 1, length)
           s == rx' \o rest
           p == << StartByte, length >>
<1>1. /\ rx \in Seq(Byte) /\ rest \in Seq(Byte) /\ pc = "body"
      /\ length \in AcceptedLength /\ length <= Len(rx)
  BY LenProperties DEF ReadBody, Types, AcceptedLength, MaxApduLength
<1>2. /\ frame' = p \o head /\ rx' = SubSeq(rx, length + 1, Len(rx)) /\ rest' = rest
      /\ sent' = sent /\ pc' = "handle"
  BY DEF ReadBody, Goto
<1>3. IsFrame(frame') /\ rx' \in Seq(Byte) /\ rx = head \o rx' /\ head \in Seq(Byte)
  <2>1. length \in 0..Len(rx)
    BY <1>1 DEF AcceptedLength
  <2>2. head \in Seq(Byte)
    BY <1>1, <2>1, Split
  <2> QED BY <1>1, <1>2, <2>2, WhatIsRead
<1>4. p \in Seq(Byte) /\ Taken = p
  <2>1. StartByte \in Byte /\ length \in Byte
    BY <1>1 DEF StartByte, Byte, AcceptedLength, MaxApduLength
  <2> QED BY <1>1, <2>1 DEF Taken
<1> HIDE DEF head, p
<1>5. s \in Seq(Byte) /\ Stream = frame' \o s
  <2>1. s \in Seq(Byte)
    BY <1>1, <1>3, ConcatProperties
  <2>2. (head \o rx') \o rest = head \o (rx' \o rest)
    BY <1>1, <1>3, Associative
  <2> HIDE DEF s
  <2>3. (p \o head) \o s = p \o (head \o s)
    BY <1>3, <1>4, <2>1, Associative
  <2>4. rx \o rest = head \o s
    BY <1>3, <2>2 DEF s
  <2> QED BY <1>2, <1>4, <2>1, <2>3, <2>4 DEF Stream
<1>6. Stream' = s
  <2>1. Taken' = << >>
    BY <1>2 DEF Taken
  <2> QED BY <1>2, <1>5, <2>1, ConcatEmptySeq DEF Stream
<1>7. Done' = Done + 1
  <2>1. Done \in Nat
    BY StreamType
  <2>2. confirmed' = confirmed /\ stats' = stats /\ pc # "handle"
    BY <1>1 DEF ReadBody
  <2>3. stats.frames \in Nat
    BY DEF Types, Summaries, NoStats
  <2> QED BY <1>2, <2>2, <2>3 DEF Done
<1> HIDE DEF s
<1>8. InPlace(frame' \o s, sent, Done)
  BY <1>5 DEF InOrder
<1>9. /\ Done + 1 <= Len(sent)
      /\ frame' = sent[Done + 1].bytes
      /\ InPlace(s, sent, Done + 1)
  BY <1>3, <1>5, <1>8, StreamType, DropFrame
<1> QED BY <1>2, <1>6, <1>7, <1>9 DEF InOrder

(***************************************************************************)
(* A read that fails with nothing in hand leaves the stream as it is.      *)
(***************************************************************************)
LEMMA FramingFails ==
  ASSUME Types, InOrder, ReceiveFails, pc' # "ended", ~cut'
  PROVE  InOrder'
<1>1. pc = "scan" /\ rx = << >> /\ rx' = rx /\ rest' = rest /\ sent' = sent /\ pc' = "top"
  BY DEF ReceiveFails, ReadFails, Goto, Exit
<1>2. Stream' = Stream
  BY <1>1 DEF Stream, Taken
<1>3. Done' = Done
  BY <1>1 DEF Done, ReceiveFails
<1> QED BY <1>1, <1>2, <1>3 DEF InOrder

(***************************************************************************)
(* What the peer sends comes at the end of the stream.                     *)
(***************************************************************************)
LEMMA FramingPeer ==
  ASSUME Types, InOrder, PeerSends \/ RestArrives
  PROVE  InOrder'
<1>1. /\ rx \in Seq(Byte) /\ rest \in Seq(Byte) /\ AreSent(sent)
      /\ Taken \in Seq(Byte) /\ rx \o rest \in Seq(Byte) /\ Stream \in Seq(Byte)
      /\ Done \in Nat /\ Frames(sent)
  BY StreamType DEF Types
<1>2. /\ pc' = pc /\ length' = length /\ confirmed' = confirmed /\ stats' = stats
      /\ frame' = frame
  BY DEF PeerSends, RestArrives
<1>3. Taken' = Taken /\ Done' = Done
  BY <1>2 DEF Taken, Done
<1>4. ASSUME NEW bytes \in Seq(Byte), Arrive(bytes), rest = << >>
      PROVE  Stream' = Stream \o bytes
  <2>1. rx' \o rest' = (rx \o rest) \o bytes
    BY <1>1, <1>4, Arrived
  <2> DEFINE waiting == rx \o rest
  <2>2. waiting \in Seq(Byte)
    BY <1>1
  <2>3. Stream = Taken \o waiting /\ Stream' = Taken \o (waiting \o bytes)
    BY <1>3, <2>1 DEF Stream
  <2> HIDE DEF waiting
  <2>4. (Taken \o waiting) \o bytes = Taken \o (waiting \o bytes)
    <3>1. Taken \in Seq(Byte)
      BY <1>1
    <3> QED BY <2>2, <3>1, Associative
  <2> QED BY <2>3, <2>4
<1>5. ASSUME NEW bytes \in Noise, Arrive(bytes), rest = << >>, sent' = sent
      PROVE  InOrder'
  <2>1. IsNoise(bytes)
    <3>1. /\ bytes \in Seq(Byte)
          /\ \A k \in 1..Len(bytes) : bytes[k] = StartByte =>
               k < Len(bytes) /\ bytes[k + 1] \notin 4..MaxApduLength - 2
      BY <1>5, ProbeAssumption
    <3> QED BY <3>1 DEF IsNoise, AcceptedLength
  <2>2. Stream' = Stream \o bytes
    BY <1>4, <1>5, <2>1 DEF IsNoise
  <2>3. InPlace(Stream \o bytes, sent, Done)
    BY <1>1, <2>1, AddNoise DEF InOrder
  <2> QED BY <1>2, <1>3, <1>5, <2>2, <2>3 DEF InOrder
<1>6. ASSUME NEW message \in Messages, Arrive(message.bytes), rest = << >>,
             sent' = Append(sent, message), Len(sent) < MaxSent
      PROVE  InOrder'
  <2>1. IsSent(message)
    BY <1>1, MessageSent DEF AreSent
  <2> DEFINE more == Append(sent, message)
  <2>2. /\ AreSent(more) /\ Len(sent) \in Nat /\ Len(more) = Len(sent) + 1
        /\ \A k \in 1..Len(sent) : more[k] = sent[k]
        /\ more[Len(sent) + 1] = message
    BY <1>1, <1>6, <2>1, AppendSent DEF IsSent
  <2>3. Stream' = Stream \o message.bytes
    BY <1>4, <1>6, <2>1 DEF IsSent, IsFrame
  <2>4. sent' = more
    BY <1>6
  <2> HIDE DEF more
  <2>5. more[Len(more)].bytes = message.bytes
    BY <2>2
  <2>6. InPlace(Stream \o more[Len(more)].bytes, more, Done)
    BY <1>1, <2>2, AddMessage DEF InOrder, AreSent
  <2>7. Done <= Len(more) /\ (pc = "handle" => frame = more[Done].bytes)
    <3>1. Done <= Len(sent)
      BY DEF InOrder
    <3>2. Done <= Len(more)
      BY <1>1, <2>2, <3>1
    <3>3. pc = "handle" => Done \in 1..Len(sent)
      <4>1. stats.frames \in Nat
        BY DEF Types, Summaries, NoStats
      <4>2. pc = "handle" => 1 <= Done
        BY <4>1 DEF Done
      <4> QED BY <1>1, <2>2, <3>1, <4>2
    <3> QED BY <2>2, <3>2, <3>3 DEF InOrder
  <2> QED BY <1>2, <1>3, <2>3, <2>4, <2>5, <2>6, <2>7 DEF InOrder
<1>7. CASE PeerSends
  BY <1>5, <1>6, <1>7 DEF PeerSends
<1>8. CASE RestArrives
  <2>1. rx' \o rest' = rx \o rest /\ sent' = sent
    <3>1. rx' = rx \o rest /\ rest' = << >> /\ sent' = sent
      BY <1>8 DEF RestArrives
    <3> QED BY <1>1, <3>1, ConcatEmptySeq
  <2>2. Stream' = Stream
    BY <1>3, <2>1 DEF Stream
  <2> QED BY <1>2, <1>3, <2>1, <2>2 DEF InOrder
<1> QED BY <1>7, <1>8

(***************************************************************************)
(* A read that was given up stays so.                                      *)
(***************************************************************************)
LEMMA CutStays ==
  ASSUME Types, [Next]_vars, ~cut'
  PROVE  ~cut
<1>1. CASE ReceiveFails
  BY <1>1 DEF ReceiveFails, Types
<1>2. CASE ~ReceiveFails
  BY <1>2 DEF Next, Work, vars, network, Killed, Connect, SendStartDt, StartAnswered, Top,
     SkipByte, ReadLength, ReadBody, HandleFrame, SendAnswer, SendAck, Deadline,
     PeerSends, RestArrives, LinkLost
<1> QED BY <1>1, <1>2

LEMMA FramingNext ==
  ASSUME Types, Framing, [Next]_vars
  PROVE  Framing'
<1> SUFFICES ASSUME ~cut', pc' # "ended" PROVE InOrder'
  BY DEF Framing, InOrder
<1>1. ~cut
  BY CutStays
<1>2. pc # "ended"
  BY DEF Next, Work, vars, network, Killed, Connect, SendStartDt, StartAnswered, Top,
     SkipByte, ReadLength, ReadBody, ReceiveFails, HandleFrame, SendAnswer, SendAck, Deadline,
     PeerSends, RestArrives, LinkLost, ReadFails, Goto, Exit
<1>3. InOrder
  BY <1>1, <1>2 DEF Framing, InOrder
<1>4. CASE Connect \/ SendStartDt \/ Top \/ SendAnswer \/ SendAck \/ Deadline \/ LinkLost
             \/ UNCHANGED vars
  BY <1>3, <1>4, FramingMain
<1>5. CASE StartAnswered \/ HandleFrame
  BY <1>3, <1>5, FramingHandle
<1>6. CASE SkipByte
  BY <1>3, <1>6, FramingSkip
<1>7. CASE ReadLength
  BY <1>3, <1>7, FramingLength
<1>8. CASE ReadBody
  BY <1>3, <1>8, FramingBody
<1>9. CASE ReceiveFails
  BY <1>3, <1>9, FramingFails
<1>10. CASE PeerSends \/ RestArrives
  BY <1>3, <1>10, FramingPeer
<1>11. CASE Killed
  BY <1>11 DEF Killed, Exit, Goto
<1> QED BY <1>4, <1>5, <1>6, <1>7, <1>8, <1>9, <1>10, <1>11 DEF Next, Work

-----------------------------------------------------------------------------
(* Counting. *)

(***************************************************************************)
(* The second sequence is the first one and a message.                     *)
(***************************************************************************)
OneLonger(more, msgs) ==
    /\ msgs \in Seq(SentMessages) /\ more \in Seq(SentMessages)
    /\ Len(more) = Len(msgs) + 1
    /\ \A k \in 1..Len(msgs) : more[k] = msgs[k]

LEMMA Longer ==
  ASSUME NEW msgs, NEW more, OneLonger(more, msgs)
  PROVE  /\ Len(msgs) \in Nat
         /\ DOMAIN msgs = 1..Len(msgs)
         /\ DOMAIN more = (1..Len(msgs)) \cup {Len(msgs) + 1}
         /\ Len(msgs) + 1 \notin 1..Len(msgs)
<1>1. Len(msgs) \in Nat /\ DOMAIN msgs = 1..Len(msgs) /\ DOMAIN more = 1..Len(msgs) + 1
  BY LenProperties DEF OneLonger
<1>2. 1..Len(msgs) + 1 = (1..Len(msgs)) \cup {Len(msgs) + 1}
  BY <1>1
<1> QED BY <1>1, <1>2

LEMMA KindCounted ==
  ASSUME NEW msgs, NEW more, OneLonger(more, msgs), NEW kind
  PROVE  Cardinality(KindIn(more, kind)) =
           Cardinality(KindIn(msgs, kind)) + (IF more[Len(more)].kind = kind THEN 1 ELSE 0)
<1> DEFINE n == Len(msgs)
           S == KindIn(msgs, kind)
           T == IF more[n + 1].kind = kind THEN {n + 1} ELSE {}
<1>1. /\ n \in Nat /\ DOMAIN msgs = 1..n /\ DOMAIN more = (1..n) \cup {n + 1}
      /\ Len(more) = n + 1 /\ \A k \in 1..n : more[k] = msgs[k]
  BY Longer DEF OneLonger
<1>2. S \in SUBSET (1..n) /\ T \in SUBSET {n + 1}
  BY <1>1 DEF KindIn
<1>3. KindIn(more, kind) = S \cup T
  <2> HIDE DEF n
  <2>1. \A k \in DOMAIN more : k \in 1..n \/ k = n + 1
    BY <1>1
  <2>2. \A k \in 1..n : k \in DOMAIN more /\ k \in DOMAIN msgs
    BY <1>1
  <2>3. n + 1 \in DOMAIN more
    BY <1>1
  <2> QED BY <1>1, <2>1, <2>2, <2>3 DEF KindIn
<1>4. Cardinality(S \cup T) = Cardinality(S) + (IF T = {} THEN 0 ELSE 1)
  <2> HIDE DEF S, T, n
  <2> QED BY <1>1, <1>2, OneMore
<1>5. (IF T = {} THEN 0 ELSE 1) = IF more[n + 1].kind = kind THEN 1 ELSE 0
  OBVIOUS
<1> HIDE DEF T, S, n
<1> QED BY <1>1, <1>3, <1>4, <1>5 DEF S, n

(***************************************************************************)
(* Two finite sets that have nothing in common.                            *)
(***************************************************************************)
Disjoint(S, T) == S \cap T = {}

LEMMA Apart ==
  ASSUME NEW S, NEW T, IsFiniteSet(S), IsFiniteSet(T), Disjoint(S, T)
  PROVE  /\ IsFiniteSet(S \cup T)
         /\ Cardinality(S \cup T) = Cardinality(S) + Cardinality(T)
<1>1. /\ IsFiniteSet(S \cup T)
      /\ Cardinality(S \cup T) = Cardinality(S) + Cardinality(T) - Cardinality(S \cap T)
  BY FS_Union
<1>2. Cardinality(S \cap T) = 0
  BY FS_EmptySet DEF Disjoint
<1>3. Cardinality(S) \in Nat /\ Cardinality(T) \in Nat
  BY FS_CardinalityType
<1> QED BY <1>1, <1>2, <1>3

(***************************************************************************)
(* Places in one message.                                                  *)
(***************************************************************************)
LEMMA Column ==
  ASSUME NEW k, NEW S, IsFiniteSet(S)
  PROVE  IsFiniteSet({k} \X S) /\ Cardinality({k} \X S) = Cardinality(S)
<1>1. IsFiniteSet({k}) /\ Cardinality({k}) = 1
  BY FS_Singleton
<1>2. IsFiniteSet({k} \X S) /\ Cardinality({k} \X S) = Cardinality({k}) * Cardinality(S)
  BY <1>1, FS_Product
<1>3. Cardinality(S) \in Nat
  BY FS_CardinalityType
<1> QED BY <1>1, <1>2, <1>3

LEMMA ObjectsCounted ==
  ASSUME NEW msgs, NEW more, OneLonger(more, msgs), NEW objects \in Seq(DataObject),
         more[Len(more)].objects = objects, IsFiniteSet(ObjectsIn(msgs))
  PROVE  /\ IsFiniteSet(ObjectsIn(more))
         /\ Cardinality(ObjectsIn(more)) = Cardinality(ObjectsIn(msgs)) + Len(objects)
         /\ Cardinality(BadIn(more)) = Cardinality(BadIn(msgs)) + Cardinality(Bad(objects))
<1> DEFINE n == Len(msgs)
           last == n + 1
           new == {last} \X DOMAIN objects
           newBad == {last} \X Bad(objects)
<1>1. /\ n \in Nat /\ DOMAIN msgs = 1..n /\ DOMAIN more = (1..n) \cup {last}
      /\ last \notin 1..n /\ more[last].objects = objects
      /\ \A k \in 1..n : more[k] = msgs[k]
  BY Longer DEF OneLonger
<1>2. DOMAIN objects = 1..Len(objects) /\ Len(objects) \in Nat
  BY LenProperties
<1>3. /\ IsFiniteSet(DOMAIN objects) /\ Cardinality(DOMAIN objects) = Len(objects)
      /\ IsFiniteSet(Bad(objects))
  <2>1. IsFiniteSet(1..Len(objects)) /\ Cardinality(1..Len(objects)) = Len(objects)
    <3> DEFINE size == Len(objects)
    <3>1. 1 \in Int /\ size \in Int /\ size \in Nat
      BY <1>2
    <3> HIDE DEF size
    <3>2. /\ IsFiniteSet(1..size)
          /\ Cardinality(1..size) = IF 1 > size THEN 0 ELSE size - 1 + 1
      BY <3>1, FS_Interval
    <3>3. Cardinality(1..size) = size
      BY <3>1, <3>2
    <3> QED BY <3>2, <3>3 DEF size
  <2>2. Bad(objects) \in SUBSET (1..Len(objects))
    BY <1>2 DEF Bad
  <2>3. IsFiniteSet(Bad(objects))
    BY <1>2, <2>2, Indices
  <2> QED BY <1>2, <2>1, <2>3
<1> HIDE DEF n, last
<1>4. ObjectsIn(more) = ObjectsIn(msgs) \cup new
  <2>1. \A k \in DOMAIN more : k \in DOMAIN msgs \/ k = last
    BY <1>1
  <2>2. \A k \in DOMAIN msgs : k \in DOMAIN more /\ more[k].objects = msgs[k].objects
    BY <1>1
  <2>3. last \in DOMAIN more /\ more[last].objects = objects
    BY <1>1
  <2> QED BY <2>1, <2>2, <2>3 DEF ObjectsIn
<1>5. ObjectsIn(msgs) \cap new = {}
  BY <1>1 DEF ObjectsIn
<1>6. BadIn(more) = BadIn(msgs) \cup newBad
  <2>1. \A o \in ObjectsIn(msgs) : more[o[1]].objects[o[2]] = msgs[o[1]].objects[o[2]]
    BY <1>1 DEF ObjectsIn
  <2>2. \A o \in new : more[o[1]].objects[o[2]] = objects[o[2]]
    BY <1>1
  <2>3. newBad = {o \in new : objects[o[2]].quality # {}}
    BY DEF Bad, HasBadQuality
  <2> HIDE DEF new, newBad
  <2> QED BY <1>4, <2>1, <2>2, <2>3 DEF BadIn
<1>7. BadIn(msgs) \cap newBad = {}
  <2>1. newBad \subseteq new
    BY DEF Bad
  <2>2. BadIn(msgs) \subseteq ObjectsIn(msgs)
    BY DEF BadIn
  <2> QED BY <1>5, <2>1, <2>2
<1>8. /\ IsFiniteSet(new) /\ Cardinality(new) = Len(objects)
      /\ IsFiniteSet(newBad) /\ Cardinality(newBad) = Cardinality(Bad(objects))
  BY <1>3, Column
<1>9. IsFiniteSet(BadIn(msgs))
  BY FS_Subset DEF BadIn
<1> HIDE DEF new, newBad
<1>10. /\ IsFiniteSet(ObjectsIn(more))
       /\ Cardinality(ObjectsIn(more)) = Cardinality(ObjectsIn(msgs)) + Cardinality(new)
  BY <1>4, <1>5, <1>8, Apart DEF Disjoint
<1>11. Cardinality(BadIn(more)) = Cardinality(BadIn(msgs)) + Cardinality(newBad)
  BY <1>6, <1>7, <1>8, <1>9, Apart DEF Disjoint
<1> QED BY <1>8, <1>10, <1>11

(***************************************************************************)
(* The messages that were counted.                                         *)
(***************************************************************************)
LEMMA CountedType ==
  ASSUME NEW msgs, AreSent(msgs), NEW n \in Nat, n + 1 <= Len(msgs)
  PROVE  /\ SubSeq(msgs, 2, n + 1) \in Seq(SentMessages)
         /\ Len(SubSeq(msgs, 2, n + 1)) = n
         /\ \A i \in 1..n : SubSeq(msgs, 2, n + 1)[i] = msgs[i + 1]
<1> DEFINE last == n + 1
           part == SubSeq(msgs, 2, last)
<1>1. Len(msgs) \in Nat /\ \A k \in 1..Len(msgs) : msgs[k] \in SentMessages
  BY LenProperties, ElementOfSeq DEF AreSent
<1>2. 2 \in Int /\ last \in Int /\ \A k \in 2..last : msgs[k] \in SentMessages
  BY <1>1
<1>3. /\ part \in Seq(SentMessages)
      /\ Len(part) = IF 2 <= last THEN last - 2 + 1 ELSE 0
      /\ \A i \in 1..last - 2 + 1 : part[i] = msgs[2 + i - 1]
  <2> HIDE DEF last
  <2> QED BY <1>2, SubSeqProperties
<1> HIDE DEF part
<1>4. Len(part) = n
  BY <1>3
<1>5. ASSUME NEW i \in 1..n PROVE part[i] = msgs[i + 1]
  <2>1. i \in 1..last - 2 + 1 /\ 2 + i - 1 = i + 1
    OBVIOUS
  <2> QED BY <1>3, <2>1
<1> QED BY <1>3, <1>4, <1>5 DEF part

LEMMA CountedExtends ==
  ASSUME NEW msgs, NEW more, AreSent(msgs), AreSent(more), Extends(more, msgs),
         NEW n \in Nat, n + 1 <= Len(msgs)
  PROVE  SubSeq(more, 2, n + 1) = SubSeq(msgs, 2, n + 1)
<1> DEFINE old == SubSeq(msgs, 2, n + 1)
           new == SubSeq(more, 2, n + 1)
<1>1. n + 1 <= Len(more) /\ Len(msgs) \in Nat
  BY DEF Extends
<1>2. /\ old \in Seq(SentMessages) /\ Len(old) = n
      /\ \A i \in 1..n : old[i] = msgs[i + 1]
  BY CountedType
<1>3. /\ new \in Seq(SentMessages) /\ Len(new) = n
      /\ \A i \in 1..n : new[i] = more[i + 1]
  BY <1>1, CountedType
<1>4. ASSUME NEW i \in 1..n PROVE new[i] = old[i]
  <2>1. i + 1 \in 1..Len(msgs)
    BY <1>1
  <2> QED BY <1>2, <1>3, <2>1 DEF Extends
<1> HIDE DEF old, new
<1>5. new = old
  BY <1>2, <1>3, <1>4, SeqEqual
<1> QED BY <1>5 DEF old, new

(***************************************************************************)
(* Steps that count nothing.                                               *)
(***************************************************************************)
LEMMA CountedKept ==
  ASSUME Types, [Next]_vars, stats' = stats, stats.frames + 1 <= Len(sent)
  PROVE  /\ Counted' = Counted
         /\ stats.frames + 1 <= Len(sent')
         /\ Before(sent', stats.frames + 2) = Before(sent, stats.frames + 2)
<1> DEFINE n == stats.frames
<1>1. n \in Nat
  BY DEF Types, Summaries, NoStats
<1>2. Extends(sent', sent)
  BY SentExtends
<1>3. AreSent(sent) /\ AreSent(sent')
  BY TypesNext DEF Types
<1>4. n + 1 <= Len(sent)
  OBVIOUS
<1>5. Counted' = SubSeq(sent', 2, n + 1) /\ Counted = SubSeq(sent, 2, n + 1)
  BY DEF Counted
<1> HIDE DEF n
<1>6. SubSeq(sent', 2, n + 1) = SubSeq(sent, 2, n + 1)
  BY <1>1, <1>2, <1>3, <1>4, CountedExtends
<1>7. n + 1 <= Len(sent')
  BY <1>1, <1>2, <1>4 DEF Extends
<1>8. Before(sent', n + 2) = Before(sent, n + 2)
  <2>1. n + 2 \in Nat /\ n + 2 <= Len(sent) + 1
    BY <1>1, <1>2, <1>4 DEF Extends
  <2> QED BY <1>2, <2>1, BeforeExtends
<1> QED BY <1>5, <1>6, <1>7, <1>8 DEF n

LEMMA CountingKept ==
  ASSUME Types, Counting, [Next]_vars, stats' = stats, confirmed' = confirmed
  PROVE  Counting'
<1> SUFFICES ASSUME ~cut', confirmed'
             PROVE  /\ stats'.frames + 1 <= Len(sent')
                    /\ stats'.i = Before(sent', stats'.frames + 2)
                    /\ Summed(Counted', stats')
  BY DEF Counting
<1>1. /\ stats.frames + 1 <= Len(sent)
      /\ stats.i = Before(sent, stats.frames + 2)
      /\ Summed(Counted, stats)
  BY CutStays DEF Counting
<1> QED BY <1>1, CountedKept

(***************************************************************************)
(* Nothing is counted before the confirmation.                             *)
(***************************************************************************)
LEMMA CountingStart ==
  ASSUME Types, PeerOK, Framing, [Next]_vars, StartAnswered, confirmed', ~cut'
  PROVE  Counting'
<1>1. /\ stats = NoStats /\ stats' = NoStats /\ sent' = sent /\ pc = "handle" /\ ~confirmed
  BY DEF StartAnswered, Types, network
<1>2. /\ NoStats.frames = 0 /\ NoStats.i = 0 /\ NoStats.s = 0 /\ NoStats.u = 0
      /\ NoStats.objects = 0 /\ NoStats.bad = 0
  BY DEF NoStats
<1>3. 1 <= Len(sent)
  <2>1. InOrder
    BY <1>1, CutStays DEF Framing, InOrder
  <2> QED BY <1>1, <2>1 DEF InOrder, Done
<1>4. Before(sent, 2) = 0
  <2>1. 1 \in 1..Len(sent)
    BY <1>3 DEF Types, AreSent, Frames
  <2>2. sent[1].kind = "U"
    BY <2>1 DEF PeerOK, MessageOK
  <2>3. 2 - 1 = 1 /\ \A j \in 1..1 : j = 1
    OBVIOUS
  <2>4. {j \in 1..2 - 1 : sent[j].kind = "I"} = {}
    BY <2>2, <2>3
  <2> QED BY <2>4, FS_EmptySet DEF Before
<1>5. Counted' = << >>
  <2>1. SubSeq(sent, 2, 0 + 1) = << >>
    BY SubSeqEmpty
  <2> QED BY <1>1, <1>2, <2>1 DEF Counted
<1>6. Summed(<< >>, NoStats)
  <2>1. DOMAIN << >> = {}
    OBVIOUS
  <2>2. /\ KindIn(<< >>, "I") = {} /\ KindIn(<< >>, "S") = {} /\ KindIn(<< >>, "U") = {}
        /\ ObjectsIn(<< >>) = {} /\ BadIn(<< >>) = {}
    BY <2>1 DEF KindIn, ObjectsIn, BadIn
  <2> QED BY <1>2, <2>2, FS_EmptySet DEF Summed
<1>7. 0 + 1 = 1 /\ 0 + 2 = 2
  OBVIOUS
<1> QED BY <1>1, <1>2, <1>3, <1>4, <1>5, <1>6, <1>7 DEF Counting

(***************************************************************************)
(* The frame that is handled is the next message.                          *)
(***************************************************************************)
LEMMA Handled ==
  ASSUME Types, PeerOK, Framing, HandleFrame, ~cut
  PROVE  /\ stats.frames \in Nat
         /\ stats.frames + 2 <= Len(sent)
         /\ Len(sent) \in Nat
         /\ sent' = sent
         /\ IsFrame(frame)
         /\ sent[stats.frames + 2].kind = Format(frame)
         /\ Format(frame) = "I" =>
               SendSequence(frame) = (FirstSeq + Before(sent, stats.frames + 2)) % 32768
         /\ PayloadsAsRead =>
               sent[stats.frames + 2].objects = ParseInformationObjects(frame)
<1>1. pc = "handle" /\ confirmed /\ sent' = sent
  BY DEF HandleFrame, network
<1>2. InOrder
  BY <1>1 DEF Framing, InOrder
<1>3. stats.frames \in Nat /\ Len(sent) \in Nat
  BY DEF Types, Summaries, NoStats, AreSent, Frames
<1>4. Done = stats.frames + 2
  BY <1>1, <1>3 DEF Done
<1>5. Done \in 1..Len(sent) /\ frame = sent[Done].bytes
  BY <1>1, <1>2, <1>3, <1>4 DEF InOrder
<1>6. MessageOK(sent, Done)
  BY <1>5 DEF PeerOK
<1>7. IsFrame(frame)
  BY <1>1 DEF Types
<1> QED BY <1>1, <1>3, <1>4, <1>5, <1>6, <1>7 DEF MessageOK

LEMMA CountedNext ==
  ASSUME Types, PeerOK, Framing, HandleFrame, ~cut
  PROVE  /\ OneLonger(Counted', Counted)
         /\ Counted'[Len(Counted')] = sent[stats.frames + 2]
         /\ Len(Counted) = stats.frames
<1> DEFINE n == stats.frames
           objects == ParseInformationObjects(frame)
<1>1. n \in Nat /\ n + 2 <= Len(sent) /\ Len(sent) \in Nat /\ sent' = sent /\ AreSent(sent)
  BY Handled DEF Types
<1>2. objects \in Seq(DataObject) /\ stats \in Summaries
  BY Handled, FrameObjects DEF Types
<1>3. stats' = UpdateStats(Format(frame), objects)
  BY DEF HandleFrame
<1> HIDE DEF objects
<1>4. stats'.frames = n + 1
  BY <1>2, <1>3, UpdatedStats DEF Summaries
<1>5. Counted = SubSeq(sent, 2, n + 1) /\ Counted' = SubSeq(sent, 2, (n + 1) + 1)
  BY <1>1, <1>4 DEF Counted
<1> HIDE DEF n
<1>6. /\ Counted \in Seq(SentMessages) /\ Len(Counted) = n
      /\ \A i \in 1..n : Counted[i] = sent[i + 1]
  <2>1. n + 1 <= Len(sent)
    BY <1>1
  <2> QED BY <1>1, <1>5, <2>1, CountedType
<1>7. /\ Counted' \in Seq(SentMessages) /\ Len(Counted') = n + 1
      /\ \A i \in 1..n + 1 : Counted'[i] = sent[i + 1]
  <2>1. (n + 1) + 1 <= Len(sent) /\ n + 1 \in Nat
    BY <1>1
  <2> QED BY <1>1, <1>5, <2>1, CountedType
<1>8. \A i \in 1..n : i \in 1..n + 1
  BY <1>1
<1>9. OneLonger(Counted', Counted)
  BY <1>6, <1>7, <1>8 DEF OneLonger
<1>10. Counted'[n + 1] = sent[n + 2]
  <2>1. n + 1 \in 1..n + 1 /\ (n + 1) + 1 = n + 2
    BY <1>1
  <2> QED BY <1>7, <2>1
<1> QED BY <1>6, <1>7, <1>9, <1>10 DEF n

LEMMA CountingHandle ==
  ASSUME Types, PeerOK, Framing, Counting, HandleFrame, ~cut
  PROVE  Counting'
<1> DEFINE n == stats.frames
           message == sent[n + 2]
           objects == ParseInformationObjects(frame)
           format == Format(frame)
<1>1. /\ n \in Nat /\ n + 2 <= Len(sent) /\ Len(sent) \in Nat /\ sent' = sent
      /\ message.kind = format
      /\ PayloadsAsRead => message.objects = objects
  BY Handled
<1>2. /\ OneLonger(Counted', Counted) /\ Counted'[Len(Counted')] = message
      /\ Len(Counted) = n
  BY CountedNext
<1>3. objects \in Seq(DataObject) /\ stats \in Summaries
  BY Handled, FrameObjects DEF Types
<1>4. stats' = UpdateStats(format, objects) /\ confirmed
  BY DEF HandleFrame
<1>5. stats.i = Before(sent, n + 2) /\ Summed(Counted, stats)
  BY <1>4 DEF Counting
<1> HIDE DEF objects, format
<1>6. /\ stats'.frames = n + 1
      /\ stats'.i = stats.i + (IF format = "I" THEN 1 ELSE 0)
      /\ stats'.s = stats.s + (IF format = "S" THEN 1 ELSE 0)
      /\ stats'.u = stats.u + (IF format = "U" THEN 1 ELSE 0)
      /\ stats'.objects = stats.objects + Len(objects)
      /\ stats'.bad = stats.bad + Cardinality(Bad(objects))
  BY <1>3, <1>4, UpdatedStats DEF Summaries
<1> HIDE DEF n, message
<1>7. (n + 1) + 1 <= Len(sent')
  BY <1>1
<1>8. Before(sent, n + 3) = Before(sent, n + 2) + (IF format = "I" THEN 1 ELSE 0)
  <2> DEFINE S == {j \in 1..n + 1 : sent[j].kind = "I"}
             T == IF format = "I" THEN {(n + 1) + 1} ELSE {}
  <2>1. n + 1 \in Nat /\ (n + 1) + 1 = n + 2 /\ (n + 2) - 1 = n + 1 /\ (n + 3) - 1 = n + 2
    BY <1>1
  <2>2. S \in SUBSET (1..n + 1) /\ T \in SUBSET {(n + 1) + 1}
    OBVIOUS
  <2>3. {j \in 1..n + 2 : sent[j].kind = "I"} = S \cup T
    <3>1. \A j : j \in 1..n + 2 <=> j \in 1..n + 1 \/ j = n + 2
      BY <1>1
    <3>2. sent[n + 2].kind = format
      BY <1>1 DEF message
    <3> QED BY <2>1, <3>1, <3>2
  <2>4. Before(sent, n + 2) = Cardinality(S) /\ Before(sent, n + 3) = Cardinality(S \cup T)
    BY <2>1, <2>3 DEF Before
  <2>5. (IF T = {} THEN 0 ELSE 1) = IF format = "I" THEN 1 ELSE 0
    OBVIOUS
  <2> HIDE DEF S, T
  <2>6. Cardinality(S \cup T) = Cardinality(S) + (IF T = {} THEN 0 ELSE 1)
    BY <2>1, <2>2, OneMore
  <2> QED BY <2>4, <2>5, <2>6
<1>9. stats'.i = Before(sent', stats'.frames + 2)
  <2>1. (n + 1) + 2 = n + 3
    BY <1>1
  <2> QED BY <1>1, <1>5, <1>6, <1>8, <2>1
<1>10. \A kind : Cardinality(KindIn(Counted', kind)) =
          Cardinality(KindIn(Counted, kind)) + (IF format = kind THEN 1 ELSE 0)
  BY <1>1, <1>2, KindCounted
<1>11. ASSUME PayloadsAsRead
       PROVE  /\ IsFiniteSet(ObjectsIn(Counted'))
              /\ stats'.objects = Cardinality(ObjectsIn(Counted'))
              /\ stats'.bad = Cardinality(BadIn(Counted'))
  <2>1. /\ IsFiniteSet(ObjectsIn(Counted))
        /\ stats.objects = Cardinality(ObjectsIn(Counted))
        /\ stats.bad = Cardinality(BadIn(Counted))
    BY <1>5, <1>11 DEF Summed
  <2>2. Counted'[Len(Counted')].objects = objects
    BY <1>1, <1>2, <1>11
  <2> QED BY <1>2, <1>3, <1>6, <2>1, <2>2, ObjectsCounted
<1>12. Summed(Counted', stats')
  BY <1>5, <1>6, <1>10, <1>11 DEF Summed
<1> QED BY <1>6, <1>7, <1>9, <1>12 DEF Counting

LEMMA CountingNext ==
  ASSUME Types, PeerOK, Framing, Counting, [Next]_vars
  PROVE  Counting'
<1> SUFFICES ASSUME ~cut', confirmed' PROVE Counting'
  BY DEF Counting
<1>1. ~cut
  BY CutStays
<1>2. CASE HandleFrame
  BY <1>1, <1>2, CountingHandle
<1>3. CASE StartAnswered
  BY <1>3, CountingStart
<1>4. CASE ~HandleFrame /\ ~StartAnswered
  <2>1. stats' = stats /\ confirmed' = confirmed
    BY <1>4 DEF Next, Work, vars, network, Killed, Connect, SendStartDt, Top, SkipByte,
       ReadLength, ReadBody, ReceiveFails, SendAnswer, SendAck, Deadline, PeerSends,
       RestArrives, LinkLost
  <2> QED BY <2>1, CountingKept
<1> QED BY <1>2, <1>3, <1>4

-----------------------------------------------------------------------------
(* Telling and showing. *)

(***************************************************************************)
(* What handling a frame makes of the numbers.                             *)
(***************************************************************************)
LEMMA HandledNumbers ==
  ASSUME Types, PeerOK, Framing, Counting, HandleFrame, ~cut
  PROVE  /\ stats.i \in Nat
         /\ stats'.i = stats.i + (IF Format(frame) = "I" THEN 1 ELSE 0)
         /\ Format(frame) = "I" => SendSequence(frame) = (FirstSeq + stats.i) % 32768
         /\ pc' = "ack" <=> Format(frame) = "I"
<1> DEFINE objects == ParseInformationObjects(frame)
<1>1. objects \in Seq(DataObject) /\ stats \in Summaries
  BY Handled, FrameObjects DEF Types
<1>2. stats' = UpdateStats(Format(frame), objects) /\ confirmed
  BY DEF HandleFrame
<1> HIDE DEF objects
<1>3. stats'.i = stats.i + (IF Format(frame) = "I" THEN 1 ELSE 0)
  BY <1>1, <1>2, UpdatedStats DEF Summaries
<1>4. stats.i \in Nat
  BY <1>1 DEF Summaries, NoStats
<1>5. stats.i = Before(sent, stats.frames + 2)
  BY <1>2 DEF Counting
<1>6. pc' = "ack" <=> Format(frame) = "I"
  <2>1. frame = TestFrAct => Format(frame) = "U"
    BY ControlFrames
  <2>2. pc' = IF frame = TestFrAct THEN "answer" ELSE IF Format(frame) = "I" THEN "ack" ELSE "top"
    BY DEF HandleFrame, Goto
  <2> QED BY <2>1, <2>2
<1> QED BY <1>3, <1>4, <1>5, <1>6, Handled

LEMMA NextNumber ==
  ASSUME NEW x \in Nat
  PROVE  (((x - 1) % 32768) + 1) % 32768 = x % 32768
OBVIOUS

LEMMA ExpectedNumber ==
  ASSUME Types
  PROVE  FirstSeq + stats.i \in Nat
<1>1. stats.i \in Nat
  BY DEF Types, Summaries, NoStats
<1>2. FirstSeq \in Nat
  BY ProbeAssumption
<1> QED BY <1>1, <1>2

LEMMA TellingNext ==
  ASSUME Types, PeerOK, Framing, Counting, Telling, [Next]_vars
  PROVE  Telling'
<1> DEFINE told   == (FirstSeq + stats.i) % 32768
           before == ((FirstSeq + stats.i) - 1) % 32768
<1> SUFFICES ASSUME ~cut'
             PROVE  /\ pc' = "ack" => SendSequence(frame') = before'
                    /\ (tcp' = "up" /\ pc' # "ack") \/ pc' = "connect" => acked' = told'
  BY DEF Telling
<1>1. /\ ~cut
      /\ pc = "ack" => SendSequence(frame) = before
      /\ (tcp = "up" /\ pc # "ack") \/ pc = "connect" => acked = told
  BY CutStays DEF Telling
<1>2. stats.i \in Nat /\ FirstSeq \in Nat /\ FirstSeq < 32768
  <2>1. stats.i \in Nat
    BY DEF Types, Summaries, NoStats
  <2> QED BY <2>1, FirstNumber
<1>3. CASE HandleFrame
  <2>1. frame' = frame /\ acked' = acked /\ tcp' = tcp /\ pc = "handle" /\ pc' # "connect"
    BY <1>3 DEF HandleFrame, network, Goto
  <2>2. /\ stats'.i = stats.i + (IF Format(frame) = "I" THEN 1 ELSE 0)
        /\ Format(frame) = "I" => SendSequence(frame) = told
        /\ pc' = "ack" <=> Format(frame) = "I"
    BY <1>1, <1>3, HandledNumbers
  <2>3. CASE Format(frame) = "I"
    <3>1. before' = told
      <4>1. (FirstSeq + (stats.i + 1)) - 1 = FirstSeq + stats.i
        BY <1>2
      <4> QED BY <2>2, <2>3, <4>1
    <3> QED BY <2>1, <2>2, <2>3, <3>1
  <2>4. CASE Format(frame) # "I"
    <3>1. stats'.i = stats.i
      BY <1>2, <2>2, <2>4
    <3>2. told' = told
      BY <3>1
    <3> QED BY <1>1, <2>1, <2>2, <2>4, <3>2
  <2> QED BY <2>3, <2>4
<1>4. CASE SendAck
  <2>1. pc = "ack" /\ pc' = "top" /\ stats' = stats
    BY <1>4 DEF SendAck, Goto
  <2>2. CASE tcp' = "up"
    <3>1. acked' = ReceiveSequence(Ack)
      BY <1>4, <2>2 DEF SendAck, SendFails, Open
    <3>2. ReceiveSequence(Ack) = (SendSequence(frame) + 1) % 32768
      <4>1. IsFrame(frame)
        BY <2>1 DEF Types
      <4> QED BY <4>1, AckNumber
    <3>3. (before + 1) % 32768 = told
      <4> DEFINE x == FirstSeq + stats.i
      <4>1. before = (x - 1) % 32768 /\ told = x % 32768
        OBVIOUS
      <4>2. x \in Nat
        BY ExpectedNumber
      <4> HIDE DEF before, told, x
      <4>3. (((x - 1) % 32768) + 1) % 32768 = x % 32768
        BY <4>2, NextNumber
      <4> QED BY <4>1, <4>3
    <3>4. acked' = told
      BY <1>1, <2>1, <3>1, <3>2, <3>3
    <3> QED BY <2>1, <3>4
  <2>3. CASE tcp' # "up"
    BY <2>1, <2>3
  <2> QED BY <2>2, <2>3
<1>5. CASE ~HandleFrame /\ ~SendAck
  <2>1. /\ acked' = acked /\ stats' = stats
        /\ pc' # "ack" \/ (pc = "ack" /\ frame' = frame)
        /\ pc' = "connect" => pc = "connect"
        /\ (tcp' = "up" /\ pc' # "ack") => (tcp = "up" /\ pc # "ack") \/ pc = "connect"
    BY <1>5 DEF Next, Work, vars, network, Killed, Connect, SendStartDt, StartAnswered, Top,
       SkipByte, ReadLength, ReadBody, ReceiveFails, SendAnswer, Deadline, PeerSends,
       RestArrives, LinkLost, ReadFails, Goto, Exit, Sent, SendFails, Open
  <2>2. told' = told /\ before' = before
    BY <2>1
  <2> HIDE DEF told, before
  <2> QED BY <1>1, <2>1, <2>2
<1> QED BY <1>3, <1>4, <1>5

(***************************************************************************)
(* The last I frame of those counted is the one shown.                     *)
(***************************************************************************)
IsLastI(msgs, objects) ==
    \E k \in DOMAIN msgs :
        /\ msgs[k].kind = "I"
        /\ msgs[k].objects = objects
        /\ \A later \in k + 1..Len(msgs) : msgs[later].kind # "I"

LEMMA ShowingHandle ==
  ASSUME Types, PeerOK, Framing, Counting, Showing, HandleFrame, ~cut, PayloadsAsRead,
         stats'.i > 0
  PROVE  IsLastI(Counted', shown')
<1> DEFINE n == stats.frames
           message == sent[n + 2]
           objects == ParseInformationObjects(frame)
           format == Format(frame)
<1>1. message.kind = format /\ message.objects = objects /\ n \in Nat
  BY Handled
<1>2. OneLonger(Counted', Counted) /\ Counted'[Len(Counted')] = message /\ Len(Counted) = n
  BY CountedNext
<1>3. shown' = IF format = "I" THEN objects ELSE shown
  BY DEF HandleFrame
<1>4. stats'.i = stats.i + (IF format = "I" THEN 1 ELSE 0) /\ stats.i \in Nat
  BY HandledNumbers
<1> HIDE DEF n, message, objects, format
<1>5. /\ DOMAIN Counted = 1..n /\ DOMAIN Counted' = (1..n) \cup {n + 1}
      /\ Len(Counted') = n + 1 /\ \A k \in 1..n : Counted'[k] = Counted[k]
      /\ Counted'[n + 1] = message
  <2>1. /\ DOMAIN Counted = 1..n /\ DOMAIN Counted' = (1..n) \cup {n + 1}
    BY <1>2, Longer
  <2> QED BY <1>2, <2>1 DEF OneLonger
<1>6. CASE format = "I"
  <2>1. n + 1 \in DOMAIN Counted'
    BY <1>5
  <2>2. \A later \in (n + 1) + 1..Len(Counted') : FALSE
    BY <1>1, <1>5
  <2> QED BY <1>1, <1>3, <1>5, <1>6, <2>1, <2>2 DEF IsLastI
<1>7. CASE format # "I"
  <2>1. stats.i > 0
    BY <1>4, <1>7
  <2>2. IsLastI(Counted, shown)
    BY <2>1 DEF Showing, ShownAsSent, IsLastI
  <2>3. PICK k \in 1..n : /\ Counted[k].kind = "I" /\ Counted[k].objects = shown
                          /\ \A later \in k + 1..n : Counted[later].kind # "I"
    BY <1>2, <1>5, <2>2 DEF IsLastI
  <2>4. ASSUME NEW later \in k + 1..Len(Counted') PROVE Counted'[later].kind # "I"
    <3>1. later \in k + 1..n \/ later = n + 1
      BY <1>1, <1>5
    <3>2. later \in k + 1..n => later \in 1..n
      BY <1>1
    <3> QED BY <1>1, <1>5, <1>7, <2>3, <3>1, <3>2
  <2>5. Counted'[k].kind = "I" /\ Counted'[k].objects = shown' /\ k \in DOMAIN Counted'
    BY <1>3, <1>5, <1>7, <2>3
  <2> QED BY <2>4, <2>5 DEF IsLastI
<1> QED BY <1>6, <1>7

LEMMA ShowingNext ==
  ASSUME Types, PeerOK, Framing, Counting, Showing, [Next]_vars
  PROVE  Showing'
<1> SUFFICES ASSUME PayloadsAsRead, ~cut', stats'.i > 0 PROVE IsLastI(Counted', shown')
  BY DEF Showing, ShownAsSent, IsLastI
<1>1. ~cut
  BY CutStays
<1>2. CASE HandleFrame
  BY <1>1, <1>2, ShowingHandle
<1>3. CASE ~HandleFrame
  <2>1. stats' = stats /\ shown' = shown
    BY <1>3 DEF Next, Work, vars, network, Killed, Connect, SendStartDt, StartAnswered, Top,
       SkipByte, ReadLength, ReadBody, ReceiveFails, SendAnswer, SendAck, Deadline, PeerSends,
       RestArrives, LinkLost
  <2>2. stats.i > 0
    BY <2>1
  <2>3. IsLastI(Counted, shown)
    BY <1>1, <2>2 DEF Showing, ShownAsSent, IsLastI
  <2>4. confirmed
    BY <2>2 DEF Types, NoStats
  <2>5. stats.frames + 1 <= Len(sent)
    BY <1>1, <2>4 DEF Counting
  <2>6. Counted' = Counted
    BY <2>1, <2>5, CountedKept
  <2> QED BY <2>1, <2>3, <2>6
<1> QED BY <1>2, <1>3

-----------------------------------------------------------------------------
(* The theorems. *)

LEMMA InvInit == Init => Inv
<1> SUFFICES ASSUME Init PROVE Inv
  OBVIOUS
<1>1. Types
  BY TypesInit
<1>2. sent = << >> /\ rx = << >> /\ rest = << >> /\ ~confirmed /\ pc = "connect" /\ ~cut
      /\ stats = NoStats /\ acked = FirstSeq
  BY DEF Init
<1>3. Len(sent) = 0
  BY <1>2
<1>4. PeerOK
  BY <1>3 DEF PeerOK
<1>5. Framing
  <2>1. Done = 0
    BY <1>2 DEF Done
  <2>2. Frames(sent) /\ Stream \in Seq(Byte)
    BY <1>1, StreamType
  <2>3. Stream = << >>
    BY <1>2, EmptySeq, ConcatEmptySeq DEF Stream, Taken
  <2>4. Len(Stream) = 0
    BY <2>3
  <2>5. InPlace(Stream, sent, 0)
    <3> DEFINE at == [k \in 0 + 1..Len(sent) |-> 1]
    <3>1. \A k \in 0 + 1..Len(sent) : FALSE
      BY <1>3
    <3>2. \A q \in 1..Len(Stream) : FALSE
      BY <2>4
    <3>3. at \in [0 + 1..Len(sent) -> 1..Len(Stream)]
      BY <3>1
    <3> HIDE DEF at
    <3>4. Placed(Stream, sent, 0, at)
      BY <3>1, <3>2 DEF Placed
    <3> QED BY <3>3, <3>4 DEF InPlace
  <2> QED BY <1>2, <1>3, <2>1, <2>5 DEF Framing
<1>6. Counting
  BY <1>2 DEF Counting
<1>7. NoStats.i = 0
  BY DEF NoStats
<1>8. Telling
  <2>1. (FirstSeq + 0) % 32768 = FirstSeq
    BY FirstNumber
  <2> QED BY <1>2, <1>7, <2>1 DEF Telling
<1>9. Showing
  BY <1>2, <1>7 DEF Showing, ShownAsSent
<1> QED BY <1>1, <1>4, <1>5, <1>6, <1>8, <1>9 DEF Inv

LEMMA InvNext == Inv /\ [Next]_vars => Inv'
BY TypesNext, PeerOKNext, FramingNext, CountingNext, TellingNext, ShowingNext DEF Inv

LEMMA Invariance == Spec => []Inv
BY InvInit, InvNext, PTL DEF Spec

(***************************************************************************)
(* The peer is told the number after that of the last I frame counted,     *)
(* whatever its first number, whatever the frames and the noise, and also  *)
(* where the numbers wrap.                                                 *)
(***************************************************************************)
THEOREM AcksNameNext == Spec => []AckNamesNext
<1>1. Inv => AckNamesNext
  BY DEF Inv, Telling, AckNamesNext
<1> QED BY <1>1, Invariance, PTL

(***************************************************************************)
(* With nothing that waits, no message is left.                            *)
(***************************************************************************)
LEMMA NothingLeft ==
  ASSUME NEW msgs, Frames(msgs), NEW n \in Nat, n <= Len(msgs),
         NEW w \in Seq(Byte), Len(w) = 0, InPlace(w, msgs, n)
  PROVE  n = Len(msgs)
<1> SUFFICES ASSUME n < Len(msgs) PROVE FALSE
  BY DEF Frames
<1>1. PICK at \in [n + 1..Len(msgs) -> 1..Len(w)] : Placed(w, msgs, n, at)
  BY DEF InPlace
<1>2. n + 1 \in n + 1..Len(msgs)
  BY DEF Frames
<1>3. at[n + 1] \in 1..Len(w)
  BY <1>1, <1>2
<1> QED BY <1>3

(***************************************************************************)
(* The summary is that of the frames that were sent, unless a read was     *)
(* given up within one: frames of any lengths, in any order, in any        *)
(* pieces, with any noise between them.  The objects of a payload are those*)
(* that parseAsduInfo() finds in its ASDU: what these are for the ASDUs of *)
(* the builders is part of BuiltDataArrives, below.                        *)
(***************************************************************************)
THEOREM CountsAreRight ==
  ASSUME PayloadsAsRead
  PROVE  Spec => []CountsWhatWasSent
<1>1. ASSUME Inv PROVE CountsWhatWasSent
  <2> SUFFICES ASSUME confirmed, ~cut
               PROVE  /\ Len(Counted) = stats.frames
                      /\ Summed(Counted, stats)
                      /\ pc = "top" /\ rx = << >> /\ rest = << >> => stats.frames + 1 = Len(sent)
    BY DEF CountsWhatWasSent, Summed, OfKind, CountedObjects, KindIn, ObjectsIn, BadIn
  <2>1. stats.frames + 1 <= Len(sent) /\ Summed(Counted, stats)
    BY <1>1 DEF Inv, Counting
  <2>2. stats.frames \in Nat /\ AreSent(sent) /\ Frames(sent) /\ Types
    BY <1>1 DEF Inv, Types, Summaries, NoStats, AreSent
  <2>3. Len(Counted) = stats.frames
    BY <2>1, <2>2, CountedType DEF Counted
  <2>4. ASSUME pc = "top", rx = << >>, rest = << >> PROVE stats.frames + 1 = Len(sent)
    <3>1. Done = stats.frames + 1
      BY <2>2, <2>4 DEF Done
    <3>2. Stream \in Seq(Byte) /\ Len(Stream) = 0
      <4>1. Stream = << >>
        BY <2>4, EmptySeq, ConcatEmptySeq DEF Stream, Taken
      <4> QED BY <2>2, <4>1, StreamType
    <3>3. InPlace(Stream, sent, Done)
      BY <1>1, <2>4 DEF Inv, Framing
    <3>4. Done \in Nat /\ Done <= Len(sent)
      BY <2>1, <2>2, <3>1
    <3> QED BY <2>2, <3>1, <3>2, <3>3, <3>4, NothingLeft
  <2> QED BY <2>1, <2>3, <2>4
<1> QED BY <1>1, Invariance, PTL

(***************************************************************************)
(* What describe() shows is the data of the last I frame counted.          *)
(***************************************************************************)
THEOREM ShowsWhatWasSent ==
  ASSUME PayloadsAsRead
  PROVE  Spec => []ShownAsSent
<1>1. Inv => ShownAsSent
  BY DEF Inv, Showing
<1> QED BY <1>1, Invariance, PTL

-----------------------------------------------------------------------------
(* Payloads of the builders. *)

Object(address, value, quality) == [address |-> address, value |-> value, quality |-> quality]

IsSinglePoint(payload) ==
    \E common, address, quality : \E state \in BOOLEAN :
        /\ Word(common) /\ Addressable(address) /\ Octet(quality)
        /\ payload.asdu = BuildSinglePointAsdu(common, address, state, quality)
        /\ payload.objects = << Object(address, state, ParseQuality(quality, FALSE)) >>

IsFloat(payload) ==
    \E common, address, quality : \E raw \in Seq(Byte) :
        /\ Word(common) /\ Addressable(address) /\ Octet(quality)
        /\ Len(raw) = 4
        /\ payload.asdu = BuildFloatMeasurementAsdu(common, address, raw, quality)
        /\ payload.objects = << Object(address, raw, ParseQuality(quality, TRUE)) >>

IsScaled(payload) ==
    \E common, address, value, quality :
        /\ Word(common) /\ Addressable(address) /\ Short(value) /\ Octet(quality)
        /\ payload.asdu = BuildScaledMeasurementAsdu(common, address, value, quality)
        /\ payload.objects = << Object(address, value, ParseQuality(quality, TRUE)) >>

AllBuilt ==
    \A payload \in Payloads : IsSinglePoint(payload) \/ IsFloat(payload) \/ IsScaled(payload)

LEMMA BuiltPayloads == AllBuilt => PayloadsAsRead
<1> SUFFICES ASSUME AllBuilt, NEW payload \in Payloads
             PROVE  payload.objects =
                      IF Len(payload.asdu) < 6 THEN << >> ELSE ReadObjects(payload.asdu)
  BY DEF PayloadsAsRead
<1>1. ASSUME NEW size \in {10, 12, 14}, NEW object, payload.objects = << object >>,
             Says(payload.asdu, size, object)
      PROVE  payload.objects =
               IF Len(payload.asdu) < 6 THEN << >> ELSE ReadObjects(payload.asdu)
  <2>1. ~(Len(payload.asdu) < 6)
    BY <1>1 DEF Says
  <2> QED BY <1>1, <2>1 DEF Says
<1>2. CASE IsSinglePoint(payload)
  <2>1. PICK common, address, quality : \E state \in BOOLEAN :
          /\ Word(common) /\ Addressable(address) /\ Octet(quality)
          /\ payload.asdu = BuildSinglePointAsdu(common, address, state, quality)
          /\ payload.objects = << Object(address, state, ParseQuality(quality, FALSE)) >>
    BY <1>2 DEF IsSinglePoint
  <2>2. PICK state \in BOOLEAN :
          /\ Word(common) /\ Addressable(address) /\ Octet(quality)
          /\ payload.asdu = BuildSinglePointAsdu(common, address, state, quality)
          /\ payload.objects = << Object(address, state, ParseQuality(quality, FALSE)) >>
    BY <2>1
  <2>3. Says(BuildSinglePointAsdu(common, address, state, quality), 10,
             [address |-> address, value |-> state, quality |-> ParseQuality(quality, FALSE)])
    BY <2>2, SinglePointReadsBack
  <2>4. Says(payload.asdu, 10, Object(address, state, ParseQuality(quality, FALSE)))
    BY <2>2, <2>3 DEF Object
  <2> QED BY <1>1, <2>2, <2>4
<1>3. CASE IsFloat(payload)
  <2>1. PICK common, address, quality : \E raw \in Seq(Byte) :
          /\ Word(common) /\ Addressable(address) /\ Octet(quality)
          /\ Len(raw) = 4
          /\ payload.asdu = BuildFloatMeasurementAsdu(common, address, raw, quality)
          /\ payload.objects = << Object(address, raw, ParseQuality(quality, TRUE)) >>
    BY <1>3 DEF IsFloat
  <2>2. PICK raw \in Seq(Byte) :
          /\ Word(common) /\ Addressable(address) /\ Octet(quality)
          /\ Len(raw) = 4
          /\ payload.asdu = BuildFloatMeasurementAsdu(common, address, raw, quality)
          /\ payload.objects = << Object(address, raw, ParseQuality(quality, TRUE)) >>
    BY <2>1
  <2>3. Says(BuildFloatMeasurementAsdu(common, address, raw, quality), 14,
             [address |-> address, value |-> raw, quality |-> ParseQuality(quality, TRUE)])
    BY <2>2, FloatReadsBack
  <2>4. Says(payload.asdu, 14, Object(address, raw, ParseQuality(quality, TRUE)))
    BY <2>2, <2>3 DEF Object
  <2> QED BY <1>1, <2>2, <2>4
<1>4. CASE IsScaled(payload)
  <2>1. PICK common, address, value, quality :
          /\ Word(common) /\ Addressable(address) /\ Short(value) /\ Octet(quality)
          /\ payload.asdu = BuildScaledMeasurementAsdu(common, address, value, quality)
          /\ payload.objects = << Object(address, value, ParseQuality(quality, TRUE)) >>
    BY <1>4 DEF IsScaled
  <2>2. Says(BuildScaledMeasurementAsdu(common, address, value, quality), 12,
             [address |-> address, value |-> value, quality |-> ParseQuality(quality, TRUE)])
    BY <2>1, ScaledReadsBack
  <2>3. Says(payload.asdu, 12, Object(address, value, ParseQuality(quality, TRUE)))
    BY <2>1, <2>2 DEF Object
  <2> QED BY <1>1, <2>1, <2>3
<1> QED BY <1>2, <1>3, <1>4 DEF AllBuilt

(***************************************************************************)
(* So for a peer that builds its data with the builders of this code, from *)
(* any addresses, values and qualities, nothing is assumed of the parser:  *)
(* what is counted and shown are the data that the peer sent.              *)
(***************************************************************************)
THEOREM BuiltDataArrives ==
  ASSUME AllBuilt
  PROVE  Spec => [](CountsWhatWasSent /\ ShownAsSent)
<1>1. PayloadsAsRead
  BY BuiltPayloads
<1>2. Spec => []CountsWhatWasSent
  BY <1>1, CountsAreRight
<1>3. Spec => []ShownAsSent
  BY <1>1, ShowsWhatWasSent
<1> QED BY <1>2, <1>3, PTL

=============================================================================
