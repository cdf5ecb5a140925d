------------------------- MODULE Iec104FrameProofs --------------------------
(***************************************************************************)
(* Theorems about the codec: the frames that Iec104Frame builds are read   *)
(* back, for every number and every ASDU, at the widths of the code.       *)
(***************************************************************************)
EXTENDS Iec104Frame, SequenceTheorems, WellFoundedInduction, TLAPS

(***************************************************************************)
(* Values of std::uint16_t, std::int16_t and std::uint8_t.                 *)
(***************************************************************************)
Word(value)  == value \in Int /\ 0 <= value /\ value < 65536
Short(value) == value \in Int /\ -32768 <= value /\ value < 32768
Octet(value) == value \in Int /\ 0 <= value /\ value < 256

-----------------------------------------------------------------------------
(* Fields. *)

(***************************************************************************)
(* An octet is one of the bytes of a frame.                                *)
(***************************************************************************)
LEMMA OctetIsByte == ASSUME NEW value, Octet(value) PROVE value \in Byte
BY DEF Octet, Byte

(***************************************************************************)
(* writeUInt16() writes two bytes, which readUInt16() puts together again. *)
(***************************************************************************)
LEMMA WordBytes ==
  ASSUME NEW value, Word(value)
  PROVE  /\ Octet(value % 256)
         /\ Octet((value \div 256) % 256)
         /\ (value % 256) + (256 * ((value \div 256) % 256)) = value
<1>1. Octet(value % 256)
  BY DEF Word, Octet
<1>2. Octet((value \div 256) % 256)
  BY DEF Word, Octet
<1>3. (value % 256) + (256 * ((value \div 256) % 256)) = value
  BY DEF Word
<1> QED BY <1>1, <1>2, <1>3

(***************************************************************************)
(* To shift a number up by one bit and to cut it to 16 bits leaves twice   *)
(* the number modulo 2^15, and the lowest bit free.                        *)
(***************************************************************************)
LEMMA ShiftedNumber ==
  ASSUME NEW number, Word(number)
  PROVE  /\ Word((2 * number) % 65536)
         /\ ((2 * number) % 65536) \div 2 = number % 32768
         /\ (((2 * number) % 65536) % 256) % 2 = 0
<1>1. Word((2 * number) % 65536)
  BY DEF Word
<1>2. ((2 * number) % 65536) \div 2 = number % 32768
  BY DEF Word
<1>3. (((2 * number) % 65536) % 256) % 2 = 0
  BY DEF Word
<1> QED BY <1>1, <1>2, <1>3

(***************************************************************************)
(* buildSFormat() and buildIFormat() write a number as two bytes, of which *)
(* the readers make the number modulo 2^15; the lowest bit is left to the  *)
(* format.                                                                 *)
(***************************************************************************)
LEMMA EncodedSequence ==
  ASSUME NEW number, Word(number)
  PROVE  \E low, high :
           /\ Octet(low) /\ Octet(high)
           /\ EncodeSequence(number) = << low, high >>
           /\ low % 2 = 0
           /\ (low + (256 * high)) \div 2 = number % 32768
<1> DEFINE shifted == (2 * number) % 65536
           low == shifted % 256
           high == (shifted \div 256) % 256
<1>1. /\ Word(shifted)
      /\ shifted \div 2 = number % 32768
      /\ low % 2 = 0
  BY ShiftedNumber
<1>2. EncodeSequence(number) = << low, high >>
  BY DEF EncodeSequence, WriteUInt16
<1>3. Octet(low) /\ Octet(high) /\ low + (256 * high) = shifted
  <2> HIDE DEF shifted
  <2> QED BY <1>1, WordBytes
<1> HIDE DEF shifted, low, high
<1> QED BY <1>1, <1>2, <1>3

(***************************************************************************)
(* The bit that tells I frames from the others.                            *)
(***************************************************************************)
LEMMA LowestBit ==
  ASSUME NEW byte, Octet(byte)
  PROVE  BitOf(byte, 1) <=> byte % 2 = 1
<1>1. byte \div 1 = byte
  BY DEF Octet
<1> QED BY <1>1 DEF BitOf

-----------------------------------------------------------------------------
(* Frames. *)

(***************************************************************************)
(* The lengths of a frame.                                                 *)
(***************************************************************************)
LEMMA FrameLength ==
  ASSUME NEW length \in Int, 6 <= length, length <= 255
  PROVE  length \in 6..MaxApduLength
BY DEF MaxApduLength

(***************************************************************************)
(* The six bytes before the data, and the data.                            *)
(***************************************************************************)
LEMMA Control ==
  ASSUME NEW head \in Seq(Byte), Len(head) = 6, NEW data \in Seq(Byte)
  PROVE  /\ Len(head \o data) = 6 + Len(data)
         /\ \A k \in 1..6 : (head \o data)[k] = head[k]
         /\ \A k \in 1..Len(data) : (head \o data)[6 + k] = data[k]
<1>1. Len(data) \in Nat
  BY LenProperties
<1>2. /\ Len(head \o data) = Len(head) + Len(data)
      /\ \A i \in 1..Len(head) + Len(data) :
           (head \o data)[i] = IF i <= Len(head) THEN head[i] ELSE data[i - Len(head)]
  BY ConcatProperties
<1>3. ASSUME NEW k \in 1..6 PROVE (head \o data)[k] = head[k]
  <2>1. k \in 1..Len(head) + Len(data) /\ k <= Len(head)
    BY <1>1
  <2> QED BY <1>2, <2>1
<1>4. ASSUME NEW k \in 1..Len(data) PROVE (head \o data)[6 + k] = data[k]
  <2>1. /\ 6 + k \in 1..Len(head) + Len(data)
        /\ ~(6 + k <= Len(head))
        /\ (6 + k) - Len(head) = k
    BY <1>1
  <2> QED BY <1>2, <2>1
<1> QED BY <1>2, <1>3, <1>4

(***************************************************************************)
(* An S frame names the number it was built with, modulo 2^15: the 16-bit  *)
(* counters of client, probe and simulator wrap where the number on the    *)
(* wire wraps.                                                             *)
(***************************************************************************)
THEOREM SFormatReadsBack ==
  ASSUME NEW receive, Word(receive)
  PROVE  LET frame == BuildSFormat(receive) IN
         /\ Format(frame) = "S"
         /\ ReceiveSequence(frame) = receive % 32768
<1>1. PICK low, high :
        /\ EncodeSequence(receive) = << low, high >>
        /\ (low + (256 * high)) \div 2 = receive % 32768
  BY EncodedSequence
<1> DEFINE frame == BuildSFormat(receive)
<1>2. frame = << StartByte, 4, 1, 0 >> \o << low, high >>
  BY <1>1 DEF BuildSFormat
<1>3. /\ Len(frame) = 6
      /\ frame[1] = StartByte /\ frame[2] = 4 /\ frame[3] = 1
      /\ frame[5] = low /\ frame[6] = high
  BY <1>2
<1> HIDE DEF frame
<1>4. IsValidApdu(frame)
  BY <1>3 DEF IsValidApdu, MaxApduLength
<1>5. BitOf(frame[3], 1) /\ ~BitOf(frame[3], 2)
  BY <1>3 DEF BitOf
<1>6. Format(frame) = "S"
  BY <1>4, <1>5 DEF Format
<1>7. ReceiveSequence(frame) = receive % 32768
  BY <1>1, <1>3, <1>4 DEF ReceiveSequence, ReadUInt16
<1> QED BY <1>6, <1>7 DEF frame

(***************************************************************************)
(* An I frame names both numbers it was built with, modulo 2^15, and holds *)
(* the ASDU it was built with, if that fits into a frame (249 bytes): the  *)
(* 16-bit counter of the simulator wraps where the number on the wire      *)
(* wraps.                                                                  *)
(***************************************************************************)
THEOREM IFormatReadsBack ==
  ASSUME NEW send, Word(send), NEW receive, Word(receive),
         NEW asdu \in Seq(Byte), Len(asdu) <= 249
  PROVE  LET frame == BuildIFormat(send, receive, asdu) IN
         /\ Format(frame) = "I"
         /\ SendSequence(frame) = send % 32768
         /\ ReceiveSequence(frame) = receive % 32768
         /\ frame \in Seq(Byte)
         /\ Len(frame) = Len(asdu) + 6
         /\ \A k \in 1..Len(asdu) : frame[6 + k] = asdu[k]
<1>1. PICK low, high :
        /\ Octet(low) /\ Octet(high)
        /\ EncodeSequence(send) = << low, high >>
        /\ low % 2 = 0
        /\ (low + (256 * high)) \div 2 = send % 32768
  BY EncodedSequence
<1>2. PICK rlow, rhigh :
        /\ Octet(rlow) /\ Octet(rhigh)
        /\ EncodeSequence(receive) = << rlow, rhigh >>
        /\ (rlow + (256 * rhigh)) \div 2 = receive % 32768
  BY EncodedSequence
<1> DEFINE frame == BuildIFormat(send, receive, asdu)
           length == (Len(asdu) + 4) % 256
           head == << StartByte, length >> \o << low, high >> \o << rlow, rhigh >>
<1>3. Len(asdu) \in Nat
  BY LenProperties
<1>4. length = Len(asdu) + 4
  BY <1>3
<1>5. /\ frame \in Seq(Byte)
      /\ Len(frame) = Len(asdu) + 6
      /\ frame[1] = StartByte /\ frame[2] = length
      /\ frame[3] = low /\ frame[5] = rlow
      /\ frame[4] = high /\ frame[6] = rhigh
      /\ \A k \in 1..Len(asdu) : frame[6 + k] = asdu[k]
  <2>1. frame = head \o asdu
    BY <1>1, <1>2 DEF BuildIFormat
  <2> HIDE DEF length
  <2>2. Octet(StartByte) /\ Octet(length)
    BY <1>3, <1>4 DEF Octet, StartByte
  <2>3. /\ StartByte \in Byte /\ length \in Byte
        /\ low \in Byte /\ high \in Byte /\ rlow \in Byte /\ rhigh \in Byte
    BY <1>1, <1>2, <2>2, OctetIsByte
  <2>4. /\ head \in Seq(Byte) /\ Len(head) = 6
        /\ head[1] = StartByte /\ head[2] = length
        /\ head[3] = low /\ head[4] = high
        /\ head[5] = rlow /\ head[6] = rhigh
    BY <2>3
  <2> HIDE DEF head, frame
  <2>5. /\ Len(frame) = 6 + Len(asdu)
        /\ \A k \in 1..6 : frame[k] = head[k]
        /\ \A k \in 1..Len(asdu) : frame[6 + k] = asdu[k]
    BY <2>1, <2>4, Control
  <2>6. frame \in Seq(Byte)
    BY <2>1, <2>4, ConcatProperties
  <2> QED BY <1>3, <2>4, <2>5, <2>6
<1> HIDE DEF length, head, frame
<1>6. IsValidApdu(frame)
  <2>1. frame[1] = StartByte /\ frame[2] >= 4 /\ frame[2] + 2 = Len(frame)
    BY <1>3, <1>4, <1>5
  <2>2. Len(frame) = Len(asdu) + 6
    BY <1>5
  <2>3. Len(frame) \in Int /\ 6 <= Len(frame) /\ Len(frame) <= 255
    BY <1>3, <2>2
  <2>4. Len(frame) \in 6..MaxApduLength
    BY <2>3, FrameLength
  <2> QED BY <2>1, <2>4 DEF IsValidApdu
<1>7. Format(frame) = "I"
  <2>1. ~BitOf(frame[3], 1)
    BY <1>1, <1>5, LowestBit
  <2> QED BY <1>6, <2>1 DEF Format
<1>8. SendSequence(frame) = send % 32768
  BY <1>1, <1>5, <1>7 DEF SendSequence, ReadUInt16
<1>9. ReceiveSequence(frame) = receive % 32768
  BY <1>2, <1>5, <1>6 DEF ReceiveSequence, ReadUInt16
<1> QED BY <1>5, <1>7, <1>8, <1>9 DEF frame

-----------------------------------------------------------------------------
(* Objects. *)

(***************************************************************************)
(* Of some numbers one is the first.                                       *)
(***************************************************************************)
LEMMA FirstExists ==
  ASSUME NEW S \in SUBSET Nat, S # {}
  PROVE  \E x \in S : \A y \in S : x <= y
<1>1. PICK x \in S : \A y \in S : <<y, x>> \notin OpToRel(<, Nat)
  <2> DEFINE R == OpToRel(<, Nat)
  <2>1. IsWellFoundedOn(R, Nat)
    BY NatLessThanWellFounded
  <2> HIDE DEF R
  <2> QED BY <2>1, WFMin DEF R
<1>2. \A y \in S : ~(y < x)
  BY <1>1 DEF OpToRel
<1> QED BY <1>2

(***************************************************************************)
(* What the loop of parseAsduInfo() has before and after each of its first *)
(* n turns.                                                                *)
(***************************************************************************)
Sequence(asdu) == BitOf(asdu[2], 128)

FirstRead(asdu) ==
    [at |-> IF Sequence(asdu) THEN 10 ELSE 7, stopped |-> FALSE, objects |-> << >>]

Reads(g, asdu, n) ==
    g = [i \in 0..n |-> IF i = 0 THEN FirstRead(asdu)
                        ELSE ReadObject(asdu, Sequence(asdu), g[i - 1], i - 1)]

LEMMA ReadsExist ==
  ASSUME NEW asdu, NEW n \in Nat
  PROVE  \E g : Reads(g, asdu, n)
<1> DEFINE Bad == {m \in Nat : ~\E g : Reads(g, asdu, m)}
<1> SUFFICES ASSUME Bad # {} PROVE FALSE
  OBVIOUS
<1>1. PICK m \in Bad : \A y \in Bad : m <= y
  BY FirstExists
<1>2. CASE m = 0
  <2> DEFINE g == [i \in 0..0 |-> FirstRead(asdu)]
  <2>1. g = [i \in 0..0 |-> IF i = 0 THEN FirstRead(asdu)
                            ELSE ReadObject(asdu, Sequence(asdu), g[i - 1], i - 1)]
    OBVIOUS
  <2>2. Reads(g, asdu, 0)
    BY <2>1 DEF Reads
  <2> QED BY <1>2, <2>2
<1>3. CASE m # 0
  <2>1. m - 1 \in Nat /\ m - 1 \notin Bad
    BY <1>1, <1>3
  <2>2. PICK h : Reads(h, asdu, m - 1)
    BY <2>1
  <2> DEFINE Turn(s, i) == ReadObject(asdu, Sequence(asdu), s, i)
             g == [i \in 0..m |-> IF i = m THEN Turn(h[m - 1], m - 1) ELSE h[i]]
  <2>3. h = [i \in 0..(m - 1) |-> IF i = 0 THEN FirstRead(asdu) ELSE Turn(h[i - 1], i - 1)]
    BY <2>2 DEF Reads
  <2> HIDE DEF Turn
  <2>4. \A i \in 0..m : g[i] = IF i = 0 THEN FirstRead(asdu) ELSE Turn(g[i - 1], i - 1)
    <3> TAKE i \in 0..m
    <3>1. CASE i = m
      <4>1. g[m - 1] = h[m - 1]
        BY <2>1
      <4> QED BY <3>1, <4>1, <1>3
    <3>2. CASE i # m /\ i # 0
      <4>1. g[i] = h[i] /\ g[i - 1] = h[i - 1] /\ i \in 0..(m - 1)
        BY <3>2
      <4> QED BY <3>2, <4>1, <2>3
    <3>3. CASE i # m /\ i = 0
      <4>1. g[i] = h[i] /\ i \in 0..(m - 1)
        BY <3>3
      <4> QED BY <3>3, <4>1, <2>3
    <3> QED BY <3>1, <3>2, <3>3
  <2>5. Reads(g, asdu, m)
    BY <2>4 DEF Reads, Turn
  <2> QED BY <2>5
<1> QED BY <1>2, <1>3

(***************************************************************************)
(* The objects are those of the last turn.                                 *)
(***************************************************************************)
LEMMA ReadsAll ==
  ASSUME NEW asdu \in Seq(Byte), Len(asdu) >= 6
  PROVE  \E g :
           /\ Reads(g, asdu, asdu[2] % 128)
           /\ asdu[2] % 128 \in Nat
           /\ ReadObjects(asdu) =
                IF Sequence(asdu) /\ Len(asdu) < 9 THEN << >> ELSE g[asdu[2] % 128].objects
<1> DEFINE count == asdu[2] % 128
           g == CHOOSE h : Reads(h, asdu, count)
<1>1. count \in Nat
  <2>1. asdu[2] \in Byte
    BY LenProperties, ElementOfSeq
  <2>2. \A byte \in Byte : byte % 128 \in Nat
    BY DEF Byte
  <2> QED BY <2>1, <2>2
<1>2. Reads(g, asdu, count)
  <2> HIDE DEF count
  <2> QED BY <1>1, ReadsExist
<1>3. ReadObjects(asdu) = IF Sequence(asdu) /\ Len(asdu) < 9 THEN << >> ELSE g[count].objects
  BY DEF ReadObjects, Reads, Sequence, FirstRead
<1> QED BY <1>1, <1>2, <1>3

(***************************************************************************)
(* What an object is made of.  A float is its four bytes.                  *)
(***************************************************************************)
QualityNames == {"invalid", "notTopical", "substituted", "blocked", "overflow"}

Values == BOOLEAN \cup Int \cup Seq(Byte)

DataObject == [address : Nat, value : Values, quality : SUBSET QualityNames]

LEMMA ByteIsNumber == ASSUME NEW byte \in Byte PROVE byte \in Nat
BY DEF Byte

(***************************************************************************)
(* The three objects that the loop knows.                                  *)
(***************************************************************************)
SingleObject(asdu, at, address) ==
    [address |-> address, value |-> BitOf(asdu[at], 1), quality |-> ParseQuality(asdu[at], FALSE)]

ScaledObject(asdu, at, address) ==
    [address |-> address, value |-> ReadInt16(asdu, at),
     quality |-> ParseQuality(asdu[at + 2], TRUE)]

FloatObject(asdu, at, address) ==
    [address |-> address, value |-> SubSeq(asdu, at, at + 3),
     quality |-> ParseQuality(asdu[at + 4], TRUE)]

LEMMA ReadElementIs ==
  ASSUME NEW typeId, NEW asdu, NEW at, NEW address
  PROVE  /\ typeId = SinglePoint =>
              ReadElement(typeId, asdu, at, address) = SingleObject(asdu, at, address)
         /\ typeId = ScaledValue =>
              ReadElement(typeId, asdu, at, address) = ScaledObject(asdu, at, address)
         /\ typeId = ShortFloat =>
              ReadElement(typeId, asdu, at, address) = FloatObject(asdu, at, address)
<1>1. ReadElement(typeId, asdu, at, address) =
        CASE typeId = SinglePoint -> SingleObject(asdu, at, address)
          [] typeId = ScaledValue -> ScaledObject(asdu, at, address)
          [] typeId = ShortFloat -> FloatObject(asdu, at, address)
  BY DEF ReadElement, SingleObject, ScaledObject, FloatObject
<1> QED BY <1>1 DEF SinglePoint, ScaledValue, ShortFloat

LEMMA ReadElementType ==
  ASSUME NEW typeId \in {SinglePoint, ScaledValue, ShortFloat}, NEW asdu \in Seq(Byte),
         NEW at \in Nat \ {0}, at + ElementSize(typeId) - 1 <= Len(asdu), NEW address \in Nat
  PROVE  ReadElement(typeId, asdu, at, address) \in DataObject
<1>1. Len(asdu) \in Nat /\ \A k \in 1..Len(asdu) : asdu[k] \in Byte
  BY LenProperties, ElementOfSeq
<1>2. \A byte, flag : ParseQuality(byte, flag) \in SUBSET QualityNames
  BY DEF ParseQuality, QualityNames
<1>3. \A value \in Values : \A byte, flag :
        [address |-> address, value |-> value, quality |-> ParseQuality(byte, flag)] \in DataObject
  BY <1>2 DEF DataObject
<1>4. CASE typeId = SinglePoint
  <2>1. BitOf(asdu[at], 1) \in Values
    BY DEF BitOf, Values
  <2>2. SingleObject(asdu, at, address) \in DataObject
    BY <1>3, <2>1 DEF SingleObject
  <2> QED BY <1>4, <2>2, ReadElementIs
<1>5. CASE typeId = ScaledValue
  <2>1. at \in 1..Len(asdu) /\ at + 1 \in 1..Len(asdu)
    BY <1>1, <1>5 DEF ElementSize, SinglePoint, ScaledValue
  <2>2. asdu[at] \in Nat /\ asdu[at + 1] \in Nat
    BY <1>1, <2>1, ByteIsNumber
  <2>3. ReadInt16(asdu, at) \in Values
    <3>1. ReadUInt16(asdu, at) \in Int
      BY <2>2 DEF ReadUInt16
    <3>2. ReadInt16(asdu, at) \in Int
      BY <3>1 DEF ReadInt16
    <3> QED BY <3>2 DEF Values
  <2>4. ScaledObject(asdu, at, address) \in DataObject
    BY <1>3, <2>3 DEF ScaledObject
  <2> QED BY <1>5, <2>4, ReadElementIs
<1>6. CASE typeId = ShortFloat
  <2>1. at + 4 <= Len(asdu)
    BY <1>1, <1>6 DEF ElementSize, SinglePoint, ScaledValue, ShortFloat
  <2>2. \A k \in at..at + 3 : asdu[k] \in Byte
    BY <1>1, <2>1
  <2>3. SubSeq(asdu, at, at + 3) \in Values
    BY <2>2, SubSeqProperties DEF Values
  <2>4. FloatObject(asdu, at, address) \in DataObject
    BY <1>3, <2>3 DEF FloatObject
  <2> QED BY <1>6, <2>4, ReadElementIs
<1> QED BY <1>4, <1>5, <1>6

(***************************************************************************)
(* A turn of the loop reads within the ASDU and adds one object at most.   *)
(***************************************************************************)
ReadState(s) ==
    /\ s \in [at : Nat \ {0}, stopped : BOOLEAN, objects : Seq(DataObject)]

LEMMA ReadObjectType ==
  ASSUME NEW asdu \in Seq(Byte), Sequence(asdu) => Len(asdu) >= 9,
         NEW s, ReadState(s), NEW index \in Nat
  PROVE  ReadState(ReadObject(asdu, Sequence(asdu), s, index))
<1> DEFINE typeId  == asdu[1]
           at      == IF Sequence(asdu) THEN s.at ELSE s.at + 3
           address == IF Sequence(asdu) THEN ReadIoa(asdu, 7) + index ELSE ReadIoa(asdu, s.at)
           stops   == \/ s.stopped
                      \/ typeId \notin {SinglePoint, ScaledValue, ShortFloat}
                      \/ at + ElementSize(typeId) - 1 > Len(asdu)
<1>1. ReadObject(asdu, Sequence(asdu), s, index) =
        IF stops THEN [s EXCEPT !.stopped = TRUE]
        ELSE [at |-> at + ElementSize(typeId), stopped |-> FALSE,
              objects |-> Append(s.objects, ReadElement(typeId, asdu, at, address))]
  BY DEF ReadObject
<1>2. CASE stops
  BY <1>1, <1>2 DEF ReadState
<1>3. CASE ~stops
  <2>1. Len(asdu) \in Nat /\ \A k \in 1..Len(asdu) : asdu[k] \in Byte
    BY LenProperties, ElementOfSeq
  <2>2. /\ typeId \in {SinglePoint, ScaledValue, ShortFloat}
        /\ at + ElementSize(typeId) - 1 <= Len(asdu)
        /\ at \in Nat \ {0}
        /\ ElementSize(typeId) \in Nat \ {0}
    <3>1. typeId \in {SinglePoint, ScaledValue, ShortFloat}
      BY <1>3
    <3>2. ElementSize(typeId) \in {1, 3, 5}
      BY <3>1 DEF ElementSize, SinglePoint, ScaledValue, ShortFloat
    <3>3. s.at \in Nat \ {0}
      BY DEF ReadState
    <3>4. at \in Nat \ {0}
      BY <3>3
    <3> HIDE DEF at, typeId
    <3> QED BY <1>3, <2>1, <3>1, <3>2, <3>4
  <2>3. address \in Nat
    <3>1. \A k \in Nat \ {0} : k + 2 <= Len(asdu) => ReadIoa(asdu, k) \in Nat
      <4> TAKE k \in Nat \ {0}
      <4> HAVE k + 2 <= Len(asdu)
      <4>1. k \in 1..Len(asdu) /\ k + 1 \in 1..Len(asdu) /\ k + 2 \in 1..Len(asdu)
        BY <2>1
      <4>2. asdu[k] \in Nat /\ asdu[k + 1] \in Nat /\ asdu[k + 2] \in Nat
        BY <2>1, <4>1, ByteIsNumber
      <4> QED BY <4>2 DEF ReadIoa
    <3>2. CASE Sequence(asdu)
      <4>1. ReadIoa(asdu, 7) \in Nat
        BY <2>1, <3>1, <3>2
      <4> QED BY <3>2, <4>1
    <3>3. CASE ~Sequence(asdu)
      <4>1. s.at \in Nat \ {0} /\ s.at + 2 <= Len(asdu)
        BY <2>1, <2>2, <3>3 DEF ReadState
      <4> QED BY <3>1, <3>3, <4>1
    <3> QED BY <3>2, <3>3
  <2> HIDE DEF typeId, at, address, stops
  <2>4. ReadElement(typeId, asdu, at, address) \in DataObject
    BY <2>2, <2>3, ReadElementType
  <2>5. s.objects \in Seq(DataObject)
    BY DEF ReadState
  <2>6. Append(s.objects, ReadElement(typeId, asdu, at, address)) \in Seq(DataObject)
    BY <2>4, <2>5, AppendProperties
  <2>7. at + ElementSize(typeId) \in Nat \ {0}
    BY <2>2
  <2> QED BY <1>1, <1>3, <2>6, <2>7 DEF ReadState
<1> QED BY <1>2, <1>3

(***************************************************************************)
(* Whatever the bytes of an ASDU with a whole header are, the loop stays   *)
(* within them, and what it finds are objects.                             *)
(***************************************************************************)
THEOREM ReadObjectsType ==
  ASSUME NEW asdu \in Seq(Byte), Len(asdu) >= 6
  PROVE  ReadObjects(asdu) \in Seq(DataObject)
<1> DEFINE count == asdu[2] % 128
<1>1. PICK g :
        /\ Reads(g, asdu, count)
        /\ count \in Nat
        /\ ReadObjects(asdu) = IF Sequence(asdu) /\ Len(asdu) < 9 THEN << >> ELSE g[count].objects
  BY ReadsAll
<1> HIDE DEF count
<1>2. CASE Sequence(asdu) /\ Len(asdu) < 9
  BY <1>1, <1>2, EmptySeq
<1>3. CASE ~(Sequence(asdu) /\ Len(asdu) < 9)
  <2> DEFINE Bad == {n \in 0..count : ~ReadState(g[n])}
  <2> SUFFICES ASSUME Bad # {} PROVE FALSE
    BY <1>1, <1>3 DEF ReadState
  <2>1. PICK m \in Bad : \A n \in Bad : m <= n
    <3>1. Bad \in SUBSET Nat
      BY <1>1
    <3> HIDE DEF Bad
    <3> QED BY <3>1, FirstExists
  <2>2. CASE m = 0
    <3>1. g[0] = FirstRead(asdu)
      BY <1>1 DEF Reads
    <3>2. ReadState(g[0])
      BY <3>1, EmptySeq DEF ReadState, FirstRead
    <3> QED BY <2>1, <2>2, <3>2
  <2>3. CASE m # 0
    <3>1. m - 1 \in Nat /\ m - 1 \in 0..count /\ m - 1 \notin Bad
      BY <1>1, <2>1, <2>3
    <3>2. g[m] = ReadObject(asdu, Sequence(asdu), g[m - 1], m - 1)
      BY <1>1, <2>1, <2>3 DEF Reads
    <3>3. Sequence(asdu) => Len(asdu) >= 9
      BY <1>3, LenProperties
    <3>4. ReadState(g[m])
      BY <3>1, <3>2, <3>3, ReadObjectType
    <3> QED BY <2>1, <3>4
  <2> QED BY <2>2, <2>3
<1> QED BY <1>2, <1>3

(***************************************************************************)
(* The objects of an I frame are those of the ASDU it was built with.      *)
(***************************************************************************)
THEOREM IFormatObjects ==
  ASSUME NEW send, Word(send), NEW receive, Word(receive),
         NEW asdu \in Seq(Byte), Len(asdu) <= 249
  PROVE  ParseInformationObjects(BuildIFormat(send, receive, asdu)) =
           IF Len(asdu) < 6 THEN << >> ELSE ReadObjects(asdu)
<1> DEFINE frame == BuildIFormat(send, receive, asdu)
<1>1. /\ Format(frame) = "I" /\ frame \in Seq(Byte)
      /\ Len(frame) = Len(asdu) + 6
      /\ \A k \in 1..Len(asdu) : frame[6 + k] = asdu[k]
  BY IFormatReadsBack
<1>2. Len(asdu) \in Nat
  BY LenProperties
<1> HIDE DEF frame
<1>3. SubSeq(frame, 7, Len(frame)) = asdu
  <2> DEFINE data == SubSeq(frame, 7, Len(frame))
  <2>1. \A k \in 7..Len(frame) : frame[k] \in Byte
    <3>1. \A k \in 1..Len(frame) : frame[k] \in Byte
      BY <1>1, ElementOfSeq
    <3>2. \A k \in 7..Len(frame) : k \in 1..Len(frame)
      BY <1>1, <1>2
    <3> QED BY <3>1, <3>2
  <2>2. /\ 7 \in Int /\ Len(frame) \in Int /\ 7 <= Len(frame) + 1
        /\ (Len(frame) - 7) + 1 = Len(asdu)
    BY <1>1, <1>2
  <2>3. /\ data \in Seq(Byte)
        /\ Len(data) = Len(asdu)
        /\ \A i \in 1..Len(asdu) : data[i] = frame[(7 + i) - 1]
    BY <2>1, <2>2, SubSeqProperties
  <2> HIDE DEF data
  <2>4. \A i \in 1..Len(asdu) : data[i] = asdu[i]
    <3> TAKE i \in 1..Len(asdu)
    <3>1. (7 + i) - 1 = 6 + i
      BY <1>2
    <3> QED BY <1>1, <2>3, <3>1
  <2>5. data = asdu
    BY <2>3, <2>4, SeqEqual
  <2> QED BY <2>5 DEF data
<1>4. Len(frame) >= 12 <=> ~(Len(asdu) < 6)
  BY <1>1, <1>2
<1>5. ParseInformationObjects(frame) = IF Len(asdu) < 6 THEN << >> ELSE ReadObjects(asdu)
  BY <1>1, <1>3, <1>4 DEF ParseInformationObjects
<1> QED BY <1>5 DEF frame

-----------------------------------------------------------------------------
(* Objects that were built. *)

(***************************************************************************)
(* An ASDU that counts one object and holds it, SQ = 0, is read as that    *)
(* object.                                                                 *)
(***************************************************************************)
LEMMA OneObject ==
  ASSUME NEW asdu \in Seq(Byte), Len(asdu) >= 10, asdu[2] = 1,
         asdu[1] \in {SinglePoint, ScaledValue, ShortFloat},
         9 + ElementSize(asdu[1]) <= Len(asdu)
  PROVE  ReadObjects(asdu) = << ReadElement(asdu[1], asdu, 10, ReadIoa(asdu, 7)) >>
<1>1. PICK g :
        /\ Reads(g, asdu, asdu[2] % 128)
        /\ ReadObjects(asdu) =
             IF Sequence(asdu) /\ Len(asdu) < 9 THEN << >> ELSE g[asdu[2] % 128].objects
  <2>1. Len(asdu) >= 6
    BY LenProperties
  <2> QED BY <2>1, ReadsAll
<1>2. asdu[2] % 128 = 1 /\ ~Sequence(asdu)
  BY DEF Sequence, BitOf
<1>3. ReadObjects(asdu) = g[1].objects
  BY <1>1, <1>2
<1>4. /\ g[0] = FirstRead(asdu)
      /\ g[1] = ReadObject(asdu, Sequence(asdu), g[0], 0)
  BY <1>1, <1>2 DEF Reads
<1>5. FirstRead(asdu) = [at |-> 7, stopped |-> FALSE, objects |-> << >>]
  BY <1>2 DEF FirstRead
<1> DEFINE element == ReadElement(asdu[1], asdu, 10, ReadIoa(asdu, 7))
<1>6. g[1] = [at |-> 10 + ElementSize(asdu[1]), stopped |-> FALSE,
              objects |-> Append(<< >>, element)]
  <2>1. g[0].at = 7 /\ ~g[0].stopped /\ g[0].objects = << >>
    BY <1>4, <1>5
  <2>2. ~(10 + ElementSize(asdu[1]) - 1 > Len(asdu))
    <3>1. ElementSize(asdu[1]) \in {1, 3, 5}
      BY DEF ElementSize, SinglePoint, ScaledValue, ShortFloat
    <3> QED BY <3>1, LenProperties
  <2>3. ReadObject(asdu, Sequence(asdu), g[0], 0) =
          IF \/ g[0].stopped
             \/ asdu[1] \notin {SinglePoint, ScaledValue, ShortFloat}
             \/ 10 + ElementSize(asdu[1]) - 1 > Len(asdu)
          THEN [g[0] EXCEPT !.stopped = TRUE]
          ELSE [at |-> 10 + ElementSize(asdu[1]), stopped |-> FALSE,
                objects |-> Append(g[0].objects, element)]
    <3>1. g[0].at + 3 = 10
      BY <2>1
    <3> QED BY <3>1, <2>1, <1>2 DEF ReadObject
  <2> HIDE DEF element
  <2> QED BY <1>4, <2>1, <2>2, <2>3
<1> HIDE DEF element
<1>7. Append(<< >>, element) = << element >>
  OBVIOUS
<1> QED BY <1>3, <1>6, <1>7 DEF element

(***************************************************************************)
(* Values of three bytes, and the header of an ASDU of one object.         *)
(***************************************************************************)
Addressable(address) == address \in Int /\ 0 <= address /\ address < 16777216

LEMMA AddressBytes ==
  ASSUME NEW address, Addressable(address)
  PROVE  /\ Octet(address % 256)
         /\ Octet((address \div 256) % 256)
         /\ Octet((address \div 65536) % 256)
         /\ (address % 256) + (256 * ((address \div 256) % 256))
               + (65536 * ((address \div 65536) % 256)) = address
<1>1. Octet(address % 256) /\ Octet((address \div 256) % 256) /\ Octet((address \div 65536) % 256)
  BY DEF Addressable, Octet
<1>2. (address % 256) + (256 * ((address \div 256) % 256))
        + (65536 * ((address \div 65536) % 256)) = address
  BY DEF Addressable
<1> QED BY <1>1, <1>2

IsHeader(header, typeId, address) ==
    /\ header \in Seq(Byte)
    /\ Len(header) = 9
    /\ header[1] = typeId
    /\ header[2] = 1
    /\ header[7] + (256 * header[8]) + (65536 * header[9]) = address

LEMMA HeaderIs ==
  ASSUME NEW typeId, Octet(typeId), NEW common, Word(common), NEW address, Addressable(address)
  PROVE  IsHeader(BuildAsduHeader(typeId, common, address), typeId, address)
<1> DEFINE c1 == common % 256
           c2 == (common \div 256) % 256
           a1 == address % 256
           a2 == (address \div 256) % 256
           a3 == (address \div 65536) % 256
           header == BuildAsduHeader(typeId, common, address)
<1>1. Octet(c1) /\ Octet(c2)
  BY WordBytes
<1>2. /\ Octet(a1) /\ Octet(a2) /\ Octet(a3)
      /\ a1 + (256 * a2) + (65536 * a3) = address
  BY AddressBytes
<1>3. header = << typeId, 1, 3, 0 >> \o << c1, c2 >> \o << a1, a2, a3 >>
  BY DEF BuildAsduHeader, WriteUInt16, WriteIoa
<1> HIDE DEF c1, c2, a1, a2, a3, header
<1>4. \A k \in {1, 3, 0} : Octet(k)
  BY DEF Octet
<1>5. /\ typeId \in Byte /\ 1 \in Byte /\ 3 \in Byte /\ 0 \in Byte
      /\ c1 \in Byte /\ c2 \in Byte /\ a1 \in Byte /\ a2 \in Byte /\ a3 \in Byte
  BY <1>1, <1>2, <1>4, OctetIsByte
<1>6. header \in Seq(Byte)
  BY <1>3, <1>5
<1>7. Len(header) = 9 /\ header[1] = typeId /\ header[2] = 1
  BY <1>3
<1>8. header[7] = a1 /\ header[8] = a2 /\ header[9] = a3
  BY <1>3
<1> QED BY <1>2, <1>6, <1>7, <1>8 DEF header, IsHeader

(***************************************************************************)
(* The types that are built, and the bytes of their objects.               *)
(***************************************************************************)
LEMMA Sizes ==
  /\ ElementSize(SinglePoint) = 1 /\ ElementSize(ScaledValue) = 3 /\ ElementSize(ShortFloat) = 5
  /\ Octet(SinglePoint) /\ Octet(ScaledValue) /\ Octet(ShortFloat)
BY DEF ElementSize, Octet, SinglePoint, ScaledValue, ShortFloat

(***************************************************************************)
(* The header and the bytes of one object.                                 *)
(***************************************************************************)
IsObject(asdu, typeId, address, data) ==
    /\ asdu \in Seq(Byte)
    /\ Len(asdu) = 9 + Len(data)
    /\ \A k \in 1..Len(data) : asdu[9 + k] = data[k]
    /\ ReadObjects(asdu) = << ReadElement(typeId, asdu, 10, address) >>

LEMMA BuiltObject ==
  ASSUME NEW typeId \in {SinglePoint, ScaledValue, ShortFloat},
         NEW common, Word(common), NEW address, Addressable(address),
         NEW data \in Seq(Byte), Len(data) = ElementSize(typeId)
  PROVE  IsObject(BuildAsduHeader(typeId, common, address) \o data, typeId, address, data)
<1> DEFINE header == BuildAsduHeader(typeId, common, address)
           asdu == header \o data
<1>1. Octet(typeId) /\ Len(data) \in {1, 3, 5}
  BY Sizes
<1>2. IsHeader(header, typeId, address)
  BY <1>1, HeaderIs
<1> HIDE DEF header
<1>3. header \in Seq(Byte) /\ Len(header) = 9
  BY <1>2 DEF IsHeader
<1>4. /\ asdu \in Seq(Byte)
      /\ Len(asdu) = Len(header) + Len(data)
      /\ \A i \in 1..Len(header) + Len(data) :
           asdu[i] = IF i <= Len(header) THEN header[i] ELSE data[i - Len(header)]
  BY <1>3, ConcatProperties
<1> HIDE DEF asdu
<1>5. \A k \in 1..9 : asdu[k] = header[k]
  <2> TAKE k \in 1..9
  <2>1. k \in 1..Len(header) + Len(data) /\ k <= Len(header)
    BY <1>1, <1>3
  <2> QED BY <1>4, <2>1
<1>6. ASSUME NEW k \in 1..Len(data) PROVE asdu[9 + k] = data[k]
  <2>1. /\ 9 + k \in 1..Len(header) + Len(data) /\ ~(9 + k <= Len(header))
        /\ (9 + k) - Len(header) = k
    BY <1>1, <1>3
  <2> QED BY <1>4, <2>1
<1>7. ReadIoa(asdu, 7) = address
  <2>1. asdu[7] = header[7] /\ asdu[8] = header[8] /\ asdu[9] = header[9]
    BY <1>5
  <2>2. header[7] + (256 * header[8]) + (65536 * header[9]) = address
    BY <1>2 DEF IsHeader
  <2>3. 7 + 1 = 8 /\ 7 + 2 = 9
    OBVIOUS
  <2>4. ReadIoa(asdu, 7) = asdu[7] + (256 * asdu[8]) + (65536 * asdu[9])
    BY <2>3 DEF ReadIoa
  <2> QED BY <2>1, <2>2, <2>4
<1>8. asdu[1] = typeId /\ asdu[2] = 1
  <2>1. asdu[1] = header[1] /\ asdu[2] = header[2]
    BY <1>5
  <2>2. header[1] = typeId /\ header[2] = 1
    BY <1>2 DEF IsHeader
  <2> QED BY <2>1, <2>2
<1>9. /\ Len(asdu) = 9 + Len(data) /\ Len(asdu) >= 10
      /\ 9 + ElementSize(asdu[1]) <= Len(asdu)
  BY <1>1, <1>3, <1>4, <1>8
<1>10. ReadObjects(asdu) = << ReadElement(typeId, asdu, 10, address) >>
  BY <1>4, <1>7, <1>8, <1>9, OneObject
<1> QED BY <1>4, <1>6, <1>9, <1>10 DEF IsObject, asdu, header

(***************************************************************************)
(* The bits of a quality are above the four lowest, but for overflow.      *)
(***************************************************************************)
LEMMA HighBits ==
  ASSUME NEW quality, Octet(quality), NEW bit \in {0, 1}
  PROVE  LET byte == bit + (quality - (quality % 16)) IN
         /\ Octet(byte)
         /\ BitOf(byte, 1) <=> bit = 1
         /\ ParseQuality(byte, FALSE) = ParseQuality(quality, FALSE)
<1> DEFINE byte == bit + (quality - (quality % 16))
<1>1. Octet(byte)
  BY DEF Octet
<1>2. byte % 2 = bit
  BY DEF Octet
<1>3. /\ (byte \div 16) % 2 = (quality \div 16) % 2
      /\ (byte \div 32) % 2 = (quality \div 32) % 2
      /\ (byte \div 64) % 2 = (quality \div 64) % 2
      /\ (byte \div 128) % 2 = (quality \div 128) % 2
  BY DEF Octet
<1> HIDE DEF byte
<1>4. BitOf(byte, 1) <=> bit = 1
  BY <1>1, <1>2, LowestBit
<1>5. /\ BitOf(byte, 16) <=> BitOf(quality, 16)
      /\ BitOf(byte, 32) <=> BitOf(quality, 32)
      /\ BitOf(byte, 64) <=> BitOf(quality, 64)
      /\ BitOf(byte, 128) <=> BitOf(quality, 128)
  BY <1>3 DEF BitOf
<1>6. ParseQuality(byte, FALSE) = ParseQuality(quality, FALSE)
  BY <1>5 DEF ParseQuality
<1> QED BY <1>1, <1>4, <1>6 DEF byte

(***************************************************************************)
(* An appended byte comes after those before it.                           *)
(***************************************************************************)
LEMMA AppendedByte ==
  ASSUME NEW data \in Seq(Byte), NEW byte \in Byte
  PROVE  /\ Append(data, byte) \in Seq(Byte)
         /\ Len(Append(data, byte)) = Len(data) + 1
         /\ \A k \in 1..Len(data) : Append(data, byte)[k] = data[k]
         /\ Append(data, byte)[Len(data) + 1] = byte
BY AppendProperties

(***************************************************************************)
(* Where the last byte is appended makes no difference.                    *)
(***************************************************************************)
LEMMA ConcatAppend ==
  ASSUME NEW head \in Seq(Byte), NEW data \in Seq(Byte), NEW byte \in Byte
  PROVE  Append(head \o data, byte) = head \o Append(data, byte)
<1>1. head \o data \in Seq(Byte)
  BY ConcatProperties
<1>2. << byte >> \in Seq(Byte)
  OBVIOUS
<1>3. Append(head \o data, byte) = (head \o data) \o << byte >>
  BY <1>1, AppendIsConcat
<1>4. Append(data, byte) = data \o << byte >>
  BY AppendIsConcat
<1>5. (head \o data) \o << byte >> = head \o (data \o << byte >>)
  BY <1>2, ConcatAssociative
<1> QED BY <1>3, <1>4, <1>5

(***************************************************************************)
(* What an ASDU of one object says, and its size.                          *)
(***************************************************************************)
Says(asdu, size, object) ==
    /\ asdu \in Seq(Byte)
    /\ Len(asdu) = size
    /\ ReadObjects(asdu) = << object >>

(***************************************************************************)
(* A single point is read back: address, state and quality, which shares   *)
(* its byte with the state and has no overflow.                            *)
(***************************************************************************)
THEOREM SinglePointReadsBack ==
  ASSUME NEW common, Word(common), NEW address, Addressable(address),
         NEW state \in BOOLEAN, NEW quality, Octet(quality)
  PROVE  Says(BuildSinglePointAsdu(common, address, state, quality), 10,
              [address |-> address, value |-> state, quality |-> ParseQuality(quality, FALSE)])
<1> DEFINE asdu == BuildSinglePointAsdu(common, address, state, quality)
           bit == IF state THEN 1 ELSE 0
           byte == bit + (quality - (quality % 16))
           header == BuildAsduHeader(SinglePoint, common, address)
<1>1. bit \in {0, 1} /\ (bit = 1 <=> state)
  OBVIOUS
<1>2. asdu = Append(header, byte)
  BY DEF BuildSinglePointAsdu
<1> HIDE DEF bit, asdu
<1>3. /\ Octet(byte)
      /\ BitOf(byte, 1) <=> bit = 1
      /\ ParseQuality(byte, FALSE) = ParseQuality(quality, FALSE)
  BY <1>1, HighBits
<1> HIDE DEF byte
<1>4. byte \in Byte
  BY <1>3, OctetIsByte
<1>5. header \in Seq(Byte)
  BY Sizes, HeaderIs DEF IsHeader
<1> DEFINE data == << byte >>
<1>6. asdu = header \o data
  <2> HIDE DEF header
  <2> QED BY <1>2, <1>4, <1>5, AppendIsConcat
<1>7. data \in Seq(Byte) /\ Len(data) = 1 /\ data[1] = byte
  BY <1>4
<1> HIDE DEF data
<1>8. /\ asdu \in Seq(Byte)
      /\ Len(asdu) = 9 + Len(data)
      /\ \A k \in 1..Len(data) : asdu[9 + k] = data[k]
      /\ ReadObjects(asdu) = << ReadElement(SinglePoint, asdu, 10, address) >>
  <2>1. Len(data) = ElementSize(SinglePoint)
    BY <1>7, Sizes
  <2>2. IsObject(BuildAsduHeader(SinglePoint, common, address) \o data, SinglePoint, address, data)
    BY <1>7, <2>1, BuiltObject
  <2>3. IsObject(asdu, SinglePoint, address, data)
    BY <1>6, <2>2 DEF header
  <2> QED BY <2>3 DEF IsObject
<1>9. Len(asdu) = 10 /\ asdu[10] = byte
  BY <1>7, <1>8
<1>10. ReadElement(SinglePoint, asdu, 10, address) = SingleObject(asdu, 10, address)
  BY ReadElementIs
<1>11. BitOf(asdu[10], 1) = state
  <2>1. BitOf(asdu[10], 1) \in BOOLEAN
    BY DEF BitOf
  <2> QED BY <2>1, <1>1, <1>3, <1>9
<1>12. SingleObject(asdu, 10, address) =
         [address |-> address, value |-> state, quality |-> ParseQuality(quality, FALSE)]
  <2> DEFINE value == BitOf(asdu[10], 1)
  <2>1. SingleObject(asdu, 10, address) =
          [address |-> address, value |-> value, quality |-> ParseQuality(asdu[10], FALSE)]
    BY DEF SingleObject
  <2>2. value = state
    BY <1>11
  <2> HIDE DEF value
  <2> QED BY <2>1, <2>2, <1>3, <1>9
<1>13. ReadObjects(asdu) = << SingleObject(asdu, 10, address) >>
  BY <1>8, <1>10
<1> QED BY <1>8, <1>9, <1>12, <1>13 DEF asdu, Says

(***************************************************************************)
(* A float is read back: address, the four bytes, quality.                 *)
(***************************************************************************)
THEOREM FloatReadsBack ==
  ASSUME NEW common, Word(common), NEW address, Addressable(address),
         NEW raw \in Seq(Byte), Len(raw) = 4, NEW quality, Octet(quality)
  PROVE  Says(BuildFloatMeasurementAsdu(common, address, raw, quality), 14,
              [address |-> address, value |-> raw, quality |-> ParseQuality(quality, TRUE)])
<1> DEFINE asdu == BuildFloatMeasurementAsdu(common, address, raw, quality)
           header == BuildAsduHeader(ShortFloat, common, address)
           data == Append(raw, quality)
<1>1. quality \in Byte
  BY OctetIsByte
<1>2. header \in Seq(Byte)
  BY Sizes, HeaderIs DEF IsHeader
<1>3. asdu = Append(header \o raw, quality)
  BY DEF BuildFloatMeasurementAsdu
<1> HIDE DEF header, asdu
<1>4. asdu = header \o data
  BY <1>1, <1>2, <1>3, ConcatAppend
<1>5. /\ data \in Seq(Byte) /\ Len(data) = 5
      /\ data[1] = raw[1] /\ data[2] = raw[2] /\ data[3] = raw[3] /\ data[4] = raw[4]
      /\ data[5] = quality
  <2>1. /\ data \in Seq(Byte) /\ Len(data) = Len(raw) + 1
        /\ \A k \in 1..Len(raw) : data[k] = raw[k]
        /\ data[Len(raw) + 1] = quality
    BY <1>1, AppendedByte
  <2>2. \A k \in 1..4 : data[k] = raw[k]
    BY <2>1
  <2> QED BY <2>1, <2>2
<1> HIDE DEF data
<1>6. /\ asdu \in Seq(Byte)
      /\ Len(asdu) = 9 + Len(data)
      /\ \A k \in 1..Len(data) : asdu[9 + k] = data[k]
      /\ ReadObjects(asdu) = << ReadElement(ShortFloat, asdu, 10, address) >>
  <2>1. Len(data) = ElementSize(ShortFloat)
    BY <1>5, Sizes
  <2>2. IsObject(BuildAsduHeader(ShortFloat, common, address) \o data, ShortFloat, address, data)
    BY <1>5, <2>1, BuiltObject
  <2>3. IsObject(asdu, ShortFloat, address, data)
    BY <1>4, <2>2 DEF header
  <2> QED BY <2>3 DEF IsObject
<1>7. /\ Len(asdu) = 14
      /\ asdu[10] = raw[1] /\ asdu[11] = raw[2] /\ asdu[12] = raw[3] /\ asdu[13] = raw[4]
      /\ asdu[14] = quality
  <2>1. \A k \in 1..5 : asdu[9 + k] = data[k]
    BY <1>5, <1>6
  <2>2. /\ asdu[9 + 1] = data[1] /\ asdu[9 + 2] = data[2] /\ asdu[9 + 3] = data[3]
        /\ asdu[9 + 4] = data[4] /\ asdu[9 + 5] = data[5]
    BY <2>1
  <2> QED BY <1>5, <1>6, <2>2
<1>8. SubSeq(asdu, 10, 13) = raw
  <2>1. \A k \in 10..13 : asdu[k] \in Byte
    <3>1. \A k \in 1..Len(asdu) : asdu[k] \in Byte
      BY <1>6, ElementOfSeq
    <3>2. \A k \in 10..13 : k \in 1..Len(asdu)
      BY <1>7
    <3> QED BY <3>1, <3>2
  <2>2. /\ SubSeq(asdu, 10, 13) \in Seq(Byte)
        /\ Len(SubSeq(asdu, 10, 13)) = 4
        /\ \A i \in 1..4 : SubSeq(asdu, 10, 13)[i] = asdu[10 + i - 1]
    <3>1. 10 \in Int /\ 13 \in Int /\ 10 <= 13 + 1 /\ 13 - 10 + 1 = 4
      OBVIOUS
    <3> QED BY <2>1, <3>1, SubSeqProperties
  <2>3. \A i \in 1..4 : SubSeq(asdu, 10, 13)[i] = raw[i]
    <3>1. \A i \in 1..4 : i = 1 \/ i = 2 \/ i = 3 \/ i = 4
      OBVIOUS
    <3>2. /\ SubSeq(asdu, 10, 13)[1] = asdu[10] /\ SubSeq(asdu, 10, 13)[2] = asdu[11]
          /\ SubSeq(asdu, 10, 13)[3] = asdu[12] /\ SubSeq(asdu, 10, 13)[4] = asdu[13]
      BY <2>2
    <3> QED BY <3>1, <3>2, <1>7
  <2> QED BY <2>2, <2>3, SeqEqual
<1>9. ReadElement(ShortFloat, asdu, 10, address) = FloatObject(asdu, 10, address)
  BY ReadElementIs
<1>10. FloatObject(asdu, 10, address) =
         [address |-> address, value |-> raw, quality |-> ParseQuality(quality, TRUE)]
  <2>1. 10 + 3 = 13 /\ 10 + 4 = 14
    OBVIOUS
  <2>2. FloatObject(asdu, 10, address) =
          [address |-> address, value |-> SubSeq(asdu, 10, 13),
           quality |-> ParseQuality(asdu[14], TRUE)]
    BY <2>1 DEF FloatObject
  <2> QED BY <2>2, <1>7, <1>8
<1>11. ReadObjects(asdu) = << FloatObject(asdu, 10, address) >>
  BY <1>6, <1>9
<1> QED BY <1>6, <1>7, <1>10, <1>11 DEF asdu, Says

(***************************************************************************)
(* A scaled value is read back, negative ones included: address, value,    *)
(* quality.                                                                *)
(***************************************************************************)
THEOREM ScaledReadsBack ==
  ASSUME NEW common, Word(common), NEW address, Addressable(address),
         NEW value, Short(value), NEW quality, Octet(quality)
  PROVE  Says(BuildScaledMeasurementAsdu(common, address, value, quality), 12,
              [address |-> address, value |-> value, quality |-> ParseQuality(quality, TRUE)])
<1> DEFINE asdu == BuildScaledMeasurementAsdu(common, address, value, quality)
           header == BuildAsduHeader(ScaledValue, common, address)
           unsigned == value % 65536
           low == unsigned % 256
           high == (unsigned \div 256) % 256
           raw == << low, high >>
           data == Append(raw, quality)
<1>1. quality \in Byte
  BY OctetIsByte
<1>2. header \in Seq(Byte)
  BY Sizes, HeaderIs DEF IsHeader
<1>3. Word(unsigned) /\ (IF unsigned < 32768 THEN unsigned ELSE unsigned - 65536) = value
  BY DEF Word, Short
<1>4. asdu = Append(header \o raw, quality)
  BY DEF BuildScaledMeasurementAsdu, WriteUInt16
<1> HIDE DEF header, unsigned, asdu
<1>5. Octet(low) /\ Octet(high) /\ low + (256 * high) = unsigned
  BY <1>3, WordBytes
<1> HIDE DEF low, high
<1>6. low \in Byte /\ high \in Byte
  BY <1>5, OctetIsByte
<1>7. raw \in Seq(Byte) /\ Len(raw) = 2 /\ raw[1] = low /\ raw[2] = high
  BY <1>6
<1> HIDE DEF raw
<1>8. asdu = header \o data
  <2>1. Append(header \o raw, quality) = header \o data
    BY <1>1, <1>2, <1>7, ConcatAppend
  <2> QED BY <1>4, <2>1
<1>9. /\ data \in Seq(Byte) /\ Len(data) = 3
      /\ data[1] = low /\ data[2] = high /\ data[3] = quality
  <2>1. /\ data \in Seq(Byte) /\ Len(data) = Len(raw) + 1
        /\ \A k \in 1..Len(raw) : data[k] = raw[k]
        /\ data[Len(raw) + 1] = quality
    BY <1>1, <1>7, AppendedByte
  <2>2. \A k \in 1..2 : data[k] = raw[k]
    BY <1>7, <2>1
  <2> QED BY <1>7, <2>1, <2>2
<1> HIDE DEF data
<1>10. /\ asdu \in Seq(Byte)
       /\ Len(asdu) = 9 + Len(data)
       /\ \A k \in 1..Len(data) : asdu[9 + k] = data[k]
       /\ ReadObjects(asdu) = << ReadElement(ScaledValue, asdu, 10, address) >>
  <2>1. Len(data) = ElementSize(ScaledValue)
    BY <1>9, Sizes
  <2>2. IsObject(BuildAsduHeader(ScaledValue, common, address) \o data, ScaledValue, address, data)
    BY <1>9, <2>1, BuiltObject
  <2>3. IsObject(asdu, ScaledValue, address, data)
    BY <1>8, <2>2 DEF header
  <2> QED BY <2>3 DEF IsObject
<1>11. Len(asdu) = 12 /\ asdu[10] = low /\ asdu[11] = high /\ asdu[12] = quality
  <2>1. \A k \in 1..3 : asdu[9 + k] = data[k]
    BY <1>9, <1>10
  <2>2. asdu[9 + 1] = data[1] /\ asdu[9 + 2] = data[2] /\ asdu[9 + 3] = data[3]
    BY <2>1
  <2> QED BY <1>9, <1>10, <2>2
<1>12. ReadElement(ScaledValue, asdu, 10, address) = ScaledObject(asdu, 10, address)
  BY ReadElementIs
<1>13. ReadInt16(asdu, 10) = value
  <2>1. ReadUInt16(asdu, 10) = unsigned
    <3>1. 10 + 1 = 11
      OBVIOUS
    <3> QED BY <3>1, <1>5, <1>11 DEF ReadUInt16
  <2> QED BY <2>1, <1>3 DEF ReadInt16
<1>14. ScaledObject(asdu, 10, address) =
         [address |-> address, value |-> value, quality |-> ParseQuality(quality, TRUE)]
  <2>1. 10 + 2 = 12
    OBVIOUS
  <2> DEFINE number == ReadInt16(asdu, 10)
             byte == asdu[12]
  <2>2. ScaledObject(asdu, 10, address) =
          [address |-> address, value |-> number, quality |-> ParseQuality(byte, TRUE)]
    BY <2>1 DEF ScaledObject
  <2>3. number = value /\ byte = quality
    BY <1>11, <1>13
  <2> HIDE DEF number, byte
  <2> QED BY <2>2, <2>3
<1>15. ReadObjects(asdu) = << ScaledObject(asdu, 10, address) >>
  BY <1>10, <1>12
<1> DEFINE object ==
             [address |-> address, value |-> value, quality |-> ParseQuality(quality, TRUE)]
<1>16. ReadObjects(asdu) = << object >>
  BY <1>14, <1>15
<1> HIDE DEF object
<1>17. Says(asdu, 12, object)
  BY <1>10, <1>11, <1>16 DEF Says
<1> QED BY <1>17 DEF asdu, object

=============================================================================
