---------------------------- MODULE AlarmManager ----------------------------
(***************************************************************************)
(* The alarm rules of one point (src/src/scada/AlarmManager.cpp).          *)
(*                                                                         *)
(* AlarmManager keeps a map "address:rule" -> bool and returns one event   *)
(* for each entry that flips.  The map is modelled, per address, by the    *)
(* set of the rules whose entry is true; an entry that was never written   *)
(* and an entry that is false are the same to the code (line 111).         *)
(*                                                                         *)
(* The operators are pure: ScadaSystem applies them to its state.  They    *)
(* are not recursive, so that they can be used in proofs.                  *)
(***************************************************************************)
EXTENDS Integers, Sequences

CONSTANTS
    NoLimit,  \* an unset std::optional limit or normalState of a definition
    NaN       \* a float that compares false with every limit

(***************************************************************************)
(* No number stands for an unset limit or for NaN.                         *)
(***************************************************************************)
ASSUME SpecialValues == NoLimit \notin Int /\ NaN \notin Int

Rules == {"DATA_QUALITY", "HIGH_HIGH", "HIGH", "LOW_LOW", "LOW", "STATE", "STALE"}

QualityBits == {"invalid", "not_topical", "substituted", "blocked", "overflow"}

(***************************************************************************)
(* A definition of a point, with the fields the rules read.                *)
(***************************************************************************)
PointDefinition ==
    [type : {"analog", "digital", "counter", "control", "unknown"},
     highHigh : Int \cup {NoLimit}, high : Int \cup {NoLimit},
     lowLow : Int \cup {NoLimit}, low : Int \cup {NoLimit},
     normalState : Int \cup {NoLimit},
     staleSeconds : Int]

(***************************************************************************)
(* The fields of DataPointSnapshot that alarms, cache and report tell      *)
(* apart.  A timestamp is a whole number of seconds.                       *)
(***************************************************************************)
Snapshot ==
    [value : Int \cup {NaN}, state : BOOLEAN,
     quality : SUBSET QualityBits, timestamp : Nat]

AtLeast(value, limit) == limit # NoLimit /\ value # NaN /\ value >= limit
AtMost(value, limit)  == limit # NoLimit /\ value # NaN /\ value <= limit

(***************************************************************************)
(* The rules that evaluate() passes to transition() for this definition.   *)
(***************************************************************************)
Evaluated(def) ==
    {"DATA_QUALITY", "STALE"}
      \cup (IF def.type \in {"analog", "counter"}
            THEN {"HIGH_HIGH", "HIGH", "LOW_LOW", "LOW"} ELSE {})
      \cup (IF def.type = "digital" /\ def.normalState # NoLimit
            THEN {"STATE"} ELSE {})

(***************************************************************************)
(* The rules whose condition the snapshot meets.  A snapshot always clears *)
(* STALE, and the outer limit silences the inner one.                      *)
(***************************************************************************)
Conditions(def, snap) ==
    LET highHigh == AtLeast(snap.value, def.highHigh)
        lowLow   == AtMost(snap.value, def.lowLow)
        Holds(rule) ==
          CASE rule = "DATA_QUALITY" -> snap.quality \cap {"invalid", "blocked"} # {}
            [] rule = "HIGH_HIGH"    -> highHigh
            [] rule = "HIGH"         -> AtLeast(snap.value, def.high) /\ ~highHigh
            [] rule = "LOW_LOW"      -> lowLow
            [] rule = "LOW"          -> AtMost(snap.value, def.low) /\ ~lowLow
            [] rule = "STATE"        -> (IF snap.state THEN 1 ELSE 0) # def.normalState
            [] OTHER                 -> FALSE
    IN  {rule \in Evaluated(def) : Holds(rule)}

(***************************************************************************)
(* A mutant: an alarm of the highest level ends the evaluation.            *)
(***************************************************************************)
EvaluateUntilHighHigh(def, snap, active) ==
    IF "HIGH_HIGH" \in Conditions(def, snap) THEN active \cup {"HIGH_HIGH"}
    ELSE Conditions(def, snap) \cup (active \ Evaluated(def))

(***************************************************************************)
(* The active rules of an address after evaluate(): a rule the definition  *)
(* does not evaluate keeps its entry.                                      *)
(***************************************************************************)
Evaluate(def, snap, active) ==
    Conditions(def, snap) \cup (active \ Evaluated(def))

(***************************************************************************)
(* The active rules of an address after evaluateStale().                   *)
(***************************************************************************)
EvaluateStale(stale, active) ==
    IF stale THEN active \cup {"STALE"} ELSE active \ {"STALE"}

(***************************************************************************)
(* Mutants: no event for a rule that clears; the old state in the event.   *)
(***************************************************************************)
TransitionRaised(rule, before, after) ==
    IF rule \in before \/ rule \notin after THEN << >>
    ELSE << [rule |-> rule, raised |-> TRUE] >>

TransitionSwapped(rule, before, after) ==
    IF (rule \in before) = (rule \in after) THEN << >>
    ELSE << [rule |-> rule, raised |-> rule \in before] >>

(***************************************************************************)
(* What transition() returns for one rule: an event if its entry flips,    *)
(* and nothing if it stays.                                                *)
(***************************************************************************)
Transition(rule, before, after) ==
    IF (rule \in before) = (rule \in after) THEN << >>
    ELSE << [rule |-> rule, raised |-> rule \in after] >>

(***************************************************************************)
(* The events of one evaluate(), in the order it appends them.             *)
(***************************************************************************)
Events(before, after) ==
    Transition("DATA_QUALITY", before, after)
      \o Transition("HIGH_HIGH", before, after)
      \o Transition("HIGH", before, after)
      \o Transition("LOW_LOW", before, after)
      \o Transition("LOW", before, after)
      \o Transition("STATE", before, after)
      \o Transition("STALE", before, after)

=============================================================================
