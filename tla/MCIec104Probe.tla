--------------------------- MODULE MCIec104Probe ---------------------------
(***************************************************************************)
(* Iec104Probe as the model checker runs it.                               *)
(***************************************************************************)
EXTENDS Iec104Probe

Object(address, value, quality) == [address |-> address, value |-> value, quality |-> quality]
Payload(asdu, objects) == [asdu |-> asdu, objects |-> objects]

(***************************************************************************)
(* One object of each type, as the builders make them.  Values and         *)
(* addresses need each of their bytes, and hold the start byte.            *)
(***************************************************************************)
Built ==
    {Payload(BuildSinglePointAsdu(1, 2001, TRUE, 129), <<Object(2001, TRUE, {"invalid"})>>),
     Payload(BuildScaledMeasurementAsdu(260, 70000, -2, 33),
             <<Object(70000, -2, {"substituted", "overflow"})>>),
     Payload(BuildFloatMeasurementAsdu(1, 104, <<104, 4, 200, 66>>, 80),
             <<Object(104, <<104, 4, 200, 66>>, {"notTopical", "blocked"})>>)}

(***************************************************************************)
(* A sequence of two points; a count of three with bytes for one and a     *)
(* half; a type that is not known; an ASDU that ends before its address.   *)
(***************************************************************************)
Odd ==
    {Payload(<<1, 130, 3, 0, 1, 0, 255, 0, 0, 1, 16>>,
             <<Object(255, TRUE, {}), Object(256, FALSE, {"blocked"})>>),
     Payload(<<11, 3, 3, 0, 1, 0, 7, 0, 0, 5, 0, 0, 8, 0, 0, 6>>, <<Object(7, 5, {})>>),
     Payload(<<30, 1, 3, 0, 1, 0, 7, 0, 0, 1>>, << >>),
     Payload(<<1, 129, 3, 0, 1, 0, 7>>, << >>)}

AllPayloads == Built \cup Odd

(***************************************************************************)
(* Bytes that start no frame, and a start byte with a refused length.      *)
(***************************************************************************)
SomeNoise == {<<7>>, <<104, 3>>}
=============================================================================
