---------------------------- MODULE Iec104Frame ----------------------------
(***************************************************************************)
(* The codec (src/src/iec104/Iec104Frame.cpp): frames are sequences of     *)
(* bytes that are built and parsed.  The texts of describe() and the names *)
(* of types and causes are left out, and with them the header fields that  *)
(* only the texts show.  A float is the four bytes of its representation.  *)
(***************************************************************************)
EXTENDS Integers, Sequences

Byte == 0..255

SinglePoint == 1    \* M_SP_NA_1
ScaledValue == 11   \* M_ME_NB_1
ShortFloat  == 13   \* M_ME_NC_1

StartByte     == 104
MaxApduLength == 255

-----------------------------------------------------------------------------
(* Fields. *)

BitOf(value, weight) == (value \div weight) % 2 = 1

WriteUInt16(value) == << value % 256, (value \div 256) % 256 >>
WriteIoa(address)  == << address % 256, (address \div 256) % 256, (address \div 65536) % 256 >>

ReadUInt16(data, at) == data[at] + (256 * data[at + 1])
ReadInt16(data, at) ==
    LET raw == ReadUInt16(data, at) IN IF raw < 32768 THEN raw ELSE raw - 65536
ReadIoa(data, at) == data[at] + (256 * data[at + 1]) + (65536 * data[at + 2])

(***************************************************************************)
(* parseQuality(): the bits that are set.                                  *)
(***************************************************************************)
ParseQuality(byte, overflowBit) ==
    {bit \in {"invalid", "notTopical", "substituted", "blocked", "overflow"} :
        /\ BitOf(byte, [invalid |-> 128, notTopical |-> 64, substituted |-> 32, blocked |-> 16,
                        overflow |-> 1][bit])
        /\ bit = "overflow" => overflowBit}

-----------------------------------------------------------------------------
(* The frame. *)

IsValidApdu(frame) ==
    /\ Len(frame) \in 6..MaxApduLength
    /\ frame[1] = StartByte
    /\ frame[2] >= 4
    /\ frame[2] + 2 = Len(frame)

Format(frame) ==
    IF ~IsValidApdu(frame) THEN "Unknown"
    ELSE IF ~BitOf(frame[3], 1) THEN "I"
    ELSE IF BitOf(frame[3], 2) THEN "U" ELSE "S"

FixedU(control) == << StartByte, 4, control, 0, 0, 0 >>

StartDtAct == FixedU(7)
StartDtCon == FixedU(11)
TestFrAct  == FixedU(67)
TestFrCon  == FixedU(131)

SendSequence(frame) ==
    IF Format(frame) = "I" THEN ReadUInt16(frame, 3) \div 2 ELSE 0

(***************************************************************************)
(* A mutant: the bit of the format is taken for one of the number.         *)
(***************************************************************************)
ReceiveSequenceUnshifted(frame) ==
    IF IsValidApdu(frame) THEN ReadUInt16(frame, 5) ELSE 0

ReceiveSequence(frame) ==
    IF IsValidApdu(frame) THEN ReadUInt16(frame, 5) \div 2 ELSE 0

(***************************************************************************)
(* A number is shifted by one bit and cut to 16 bits: 2^15 numbers.        *)
(***************************************************************************)
EncodeSequence(number) == WriteUInt16((2 * number) % 65536)

BuildSFormat(receive) == << StartByte, 4, 1, 0 >> \o EncodeSequence(receive)

BuildIFormat(send, receive, asdu) ==
    << StartByte, (Len(asdu) + 4) % 256 >>
        \o EncodeSequence(send) \o EncodeSequence(receive) \o asdu

-----------------------------------------------------------------------------
(* The data of an I frame. *)

(***************************************************************************)
(* One object, SQ = 0, spontaneous.                                        *)
(***************************************************************************)
BuildAsduHeader(typeId, commonAddress, address) ==
    << typeId, 1, 3, 0 >> \o WriteUInt16(commonAddress) \o WriteIoa(address)

BuildSinglePointAsdu(commonAddress, address, state, quality) ==
    Append(BuildAsduHeader(SinglePoint, commonAddress, address),
           (IF state THEN 1 ELSE 0) + (quality - (quality % 16)))

BuildFloatMeasurementAsdu(commonAddress, address, raw, quality) ==
    Append(BuildAsduHeader(ShortFloat, commonAddress, address) \o raw, quality)

BuildScaledMeasurementAsdu(commonAddress, address, value, quality) ==
    Append(BuildAsduHeader(ScaledValue, commonAddress, address)
               \o WriteUInt16(value % 65536), quality)

(***************************************************************************)
(* The bytes of one object after its address, and what they say.           *)
(***************************************************************************)
ElementSize(typeId) ==
    CASE typeId = SinglePoint -> 1 [] typeId = ScaledValue -> 3 [] typeId = ShortFloat -> 5

ReadElement(typeId, asdu, at, address) ==
    CASE typeId = SinglePoint ->
            [address |-> address, value |-> BitOf(asdu[at], 1),
             quality |-> ParseQuality(asdu[at], FALSE)]
      [] typeId = ScaledValue ->
            [address |-> address, value |-> ReadInt16(asdu, at),
             quality |-> ParseQuality(asdu[at + 2], TRUE)]
      [] typeId = ShortFloat ->
            [address |-> address, value |-> SubSeq(asdu, at, at + 3),
             quality |-> ParseQuality(asdu[at + 4], TRUE)]

(***************************************************************************)
(* A mutant: each object of a sequence has the address of the first.       *)
(***************************************************************************)
ReadObjectSameAddress(asdu, sequence, state, index) ==
    LET typeId  == asdu[1]
        at      == IF sequence THEN state.at ELSE state.at + 3
        address == ReadIoa(asdu, IF sequence THEN 7 ELSE state.at)
    IN  IF \/ state.stopped
           \/ typeId \notin {SinglePoint, ScaledValue, ShortFloat}
           \/ at + ElementSize(typeId) - 1 > Len(asdu)
        THEN [state EXCEPT !.stopped = TRUE]
        ELSE [at |-> at + ElementSize(typeId), stopped |-> FALSE,
              objects |-> Append(state.objects, ReadElement(typeId, asdu, at, address))]

(***************************************************************************)
(* One turn of the loop of parseAsduInfo(): it stops for good where the    *)
(* bytes run out, or at a type that it does not know.                      *)
(***************************************************************************)
ReadObject(asdu, sequence, state, index) ==
    LET typeId  == asdu[1]
        at      == IF sequence THEN state.at ELSE state.at + 3
        address == IF sequence THEN ReadIoa(asdu, 7) + index ELSE ReadIoa(asdu, state.at)
    IN  IF \/ state.stopped
           \/ typeId \notin {SinglePoint, ScaledValue, ShortFloat}
           \/ at + ElementSize(typeId) - 1 > Len(asdu)
        THEN [state EXCEPT !.stopped = TRUE]
        ELSE [at |-> at + ElementSize(typeId), stopped |-> FALSE,
              objects |-> Append(state.objects, ReadElement(typeId, asdu, at, address))]

(***************************************************************************)
(* The objects of parseAsduInfo(), from an ASDU with a whole header.  The  *)
(* offset of the code is at - 1.                                           *)
(***************************************************************************)
ReadObjects(asdu) ==
    LET sequence == BitOf(asdu[2], 128)
        count    == asdu[2] % 128
        read[n \in 0..count] ==
            IF n = 0 THEN [at |-> IF sequence THEN 10 ELSE 7, stopped |-> FALSE, objects |-> << >>]
            ELSE ReadObject(asdu, sequence, read[n - 1], n - 1)
    IN  IF sequence /\ Len(asdu) < 9 THEN << >> ELSE read[count].objects

(***************************************************************************)
(* parseInformationObjects() of a frame.                                   *)
(***************************************************************************)
ParseInformationObjects(frame) ==
    IF Format(frame) = "I" /\ Len(frame) >= 12
    THEN ReadObjects(SubSeq(frame, 7, Len(frame))) ELSE << >>

=============================================================================
