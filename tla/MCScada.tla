------------------------------ MODULE MCScada -------------------------------
(***************************************************************************)
(* Instances of the master station for TLC.                                *)
(***************************************************************************)
EXTENDS ScadaReport, TLC

CONSTANTS d1, d2, a1, a2

(***************************************************************************)
(* A measured value with warning limits at 1 and 3 and critical ones at 0  *)
(* and 4, and a breaker that is normally closed; their data is stale after *)
(* 1 second.                                                               *)
(***************************************************************************)
Analog == [type |-> "analog", highHigh |-> 4, high |-> 3, lowLow |-> 0,
           low |-> 1, normalState |-> NoLimit, staleSeconds |-> 1]
Breaker == [type |-> "digital", highHigh |-> NoLimit, high |-> NoLimit, lowLow |-> NoLimit,
            low |-> NoLimit, normalState |-> 1, staleSeconds |-> 1]

OneAnalog == <<d1, a1>> :> Analog
TwoPoints == <<d1, a1>> :> Analog @@ <<d1, a2>> :> Breaker
NoPoints == << >>

(***************************************************************************)
(* What an object carries: its value and its state are set together, and   *)
(* the definition of the point decides which of them counts.               *)
(***************************************************************************)
Value(v) == [value |-> v, state |-> TRUE, quality |-> {}]
Good == Value(2)
Invalid == [Good EXCEPT !.quality = {"invalid"}]
OneReading == {Good}
QualityReadings == {Good, Invalid}
BothReadings == {Value(NaN), [Value(0) EXCEPT !.state = FALSE], Value(4)}

=============================================================================
