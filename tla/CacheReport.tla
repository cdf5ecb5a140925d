---------------------------- MODULE CacheReport -----------------------------
(***************************************************************************)
(* scada_cache_report (src/src/tools/scada_cache_report.cpp): replays the  *)
(* cache file from its first line and reports, for each point, its latest  *)
(* measurement and, for each rule, the alarm that is still standing.  The  *)
(* two maps of the report are sets of keys here; their values are the      *)
(* fields of the line last stored.  Counters and layout are left out, as   *)
(* are the shorter lines of an older format, which nothing writes any      *)
(* more.  A damaged line may still read as one of these, under a key that  *)
(* no point has, or as an entry of the point it was about, which the       *)
(* properties leave out (see CacheDisk!missing).                           *)
(***************************************************************************)
EXTENDS Integers, Sequences

PointOf(line) == <<line.device, line.address>>
AlarmOf(line) == <<line.device, line.address, line.rule>>

EmptyReport == [latestMeasures |-> {}, activeAlarms |-> {}]

(***************************************************************************)
(* A mutant: the first measurement of a point is kept.                     *)
(***************************************************************************)
ReplayedFirst(report, line) ==
    CASE line.kind = "MEASURE" /\ \A old \in report.latestMeasures : PointOf(old) # PointOf(line) ->
           [report EXCEPT !.latestMeasures = @ \cup {line}]
      [] line.kind = "ALARM" /\ line.raised ->
           [report EXCEPT !.activeAlarms = @ \cup {AlarmOf(line)}]
      [] line.kind = "ALARM" /\ ~line.raised ->
           [report EXCEPT !.activeAlarms = @ \ {AlarmOf(line)}]
      [] OTHER -> report

(***************************************************************************)
(* A mutant: an alarm that was cleared stays in the list.                  *)
(***************************************************************************)
ReplayedUncleared(report, line) ==
    CASE line.kind = "MEASURE" ->
           [report EXCEPT !.latestMeasures =
              {old \in @ : PointOf(old) # PointOf(line)} \cup {line}]
      [] line.kind = "ALARM" ->
           [report EXCEPT !.activeAlarms = @ \cup {AlarmOf(line)}]
      [] OTHER -> report

(***************************************************************************)
(* The report after one more line.  A line of another kind changes         *)
(* nothing.                                                                *)
(***************************************************************************)
Replayed(report, line) ==
    CASE line.kind = "MEASURE" ->
           [report EXCEPT !.latestMeasures =
              {old \in @ : PointOf(old) # PointOf(line)} \cup {line}]
      [] line.kind = "ALARM" /\ line.raised ->
           [report EXCEPT !.activeAlarms = @ \cup {AlarmOf(line)}]
      [] line.kind = "ALARM" /\ ~line.raised ->
           [report EXCEPT !.activeAlarms = @ \ {AlarmOf(line)}]
      [] OTHER -> report

(***************************************************************************)
(* The loop over the lines.                                                *)
(***************************************************************************)
Report(file) ==
    LET report[n \in 0..Len(file)] ==
            IF n = 0 THEN EmptyReport ELSE Replayed(report[n - 1], file[n])
    IN  report[Len(file)]

=============================================================================
