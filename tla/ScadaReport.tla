---------------------------- MODULE ScadaReport -----------------------------
(***************************************************************************)
(* ScadaSystem seen through its cache file: what scada_cache_report says   *)
(* of the standing alarms and the latest measurements, against what the    *)
(* running system knows of them.                                           *)
(***************************************************************************)
EXTENDS ScadaSystem, CacheReport

Reported == Report(file)

Standing == {<<p[1], p[2], rule>> : p \in Point, rule \in Rules}
              \cap {a \in Device \X Address \X Rules : a[3] \in active[<<a[1], a[2]>>]}

(***************************************************************************)
(* No thread has a line left to append.                                    *)
(***************************************************************************)
Settled ==
    /\ staleEvents = {}
    /\ \A d \in Device : worker[d] \in {"off", "loop", "read", "frame", "evaluate", "done"}

IsAbout(line, point, rule) ==
    line.kind = "ALARM" /\ PointOf(line) = point /\ line.rule = rule

IsMeasure(line, point) == line.kind = "MEASURE" /\ PointOf(line) = point

(***************************************************************************)
(* The lines that a worker has yet to append for the object in its hand.   *)
(***************************************************************************)
Pending(d) ==
    [i \in 1..Len(events[d]) |-> AlarmLine(PointInHand(d), events[d][i])]

(***************************************************************************)
(* The file and the lines a worker has yet to append tell the truth about  *)
(* each rule that only the worker evaluates: the last they say of it is    *)
(* whether it stands, whatever the trim dropped, however other devices and *)
(* the monitor append in between, and whatever became of the lines about   *)
(* other points and rules.  Left out is a rule whose own last line the     *)
(* file has not got, because the append failed or the end of the file was  *)
(* lost, until the next is written.  (After a restart, they may still say  *)
(* that an alarm of the process before stands: activeRules_ is empty, and  *)
(* nothing clears it.)                                                     *)
(***************************************************************************)
JournalAgrees ==
    \A p \in Point, rule \in Rules \ {"STALE"} :
      LET told  == file \o Pending(p[1])
          about == {i \in 1..Len(told) : IsAbout(told[i], p, rule)}
      IN  <<p[1], p[2], rule>> \notin missing =>
            \A i \in about :
              (\A k \in about : k <= i) =>
                /\ rule \in active[p] => told[i].raised
                /\ told[i].raised /\ restarts = 0 => rule \in active[p]

(***************************************************************************)
(* Whoever traces a fault through the file finds the value that raised an  *)
(* alarm: the measurement of the point before a RAISED line, if the trim   *)
(* left it there, meets the condition of the rule, although other devices  *)
(* and the monitor append between the two, and across the end of the       *)
(* process, within the rewrite of the file included.  (It is the worker's  *)
(* first line after a restart that is glued to a cut one, and that is no   *)
(* measurement.  Where appends fail, the measurement may be the one lost.) *)
(***************************************************************************)
RaisedLinesExplained ==
    failures = 0 =>
      \A i \in 1..Len(file) :
        LET point    == PointOf(file[i])
            measures == {j \in 1..(i - 1) : IsMeasure(file[j], point)}
        IN  file[i].kind = "ALARM" /\ file[i].raised /\ file[i].rule # "STALE" =>
              \A j \in measures :
                (\A k \in measures : k <= j) =>
                  file[i].rule \in Conditions(PointDefinitionFor(point), file[j])

(***************************************************************************)
(* The report shows the latest measurement of a point, if it shows one,    *)
(* when the worker of its device is done with the object and the file got  *)
(* the line.                                                               *)
(***************************************************************************)
ReportShowsLatest ==
    \A measure \in Reported.latestMeasures :
      LET p == PointOf(measure)
      IN  /\ worker[p[1]] \in {"loop", "read", "frame", "done"}
          /\ snapshots[p] # NoSnapshot
          /\ <<p[1], p[2], "MEASURE">> \notin missing
          => measure = DataLine("MEASURE", p, snapshots[p])

(***************************************************************************)
(* What the report may get wrong: an alarm that it lists stands, if it is  *)
(* not STALE, the process was not started again, the worker of the device  *)
(* has nothing left to append, and the file got its last line about the    *)
(* alarm.  The monitor that writes late, the end of the process and a      *)
(* CLEARED line that was lost are the reasons why ReportedAlarmsStand does *)
(* not hold.                                                               *)
(***************************************************************************)
WorkedAlarmsStand ==
    restarts = 0 =>
      \A a \in Reported.activeAlarms :
        /\ a[3] # "STALE"
        /\ a \notin missing
        /\ worker[a[1]] \in {"off", "loop", "read", "frame", "done"}
        => a \in Standing

(***************************************************************************)
(* docs/field_debug_playbook.md:109: the report lists the alarms that are  *)
(* still not recovered.  So an alarm it lists stands, if an object of the  *)
(* point came and all lines are written ...                                *)
(***************************************************************************)
ReportedAlarmsStand ==
    Settled =>
      \A a \in Reported.activeAlarms :
        snapshots[<<a[1], a[2]>>] # NoSnapshot => a \in Standing

(***************************************************************************)
(* ... and an alarm that stands is listed.                                 *)
(***************************************************************************)
StandingAlarmsReported == Settled => Standing \subseteq Reported.activeAlarms

=============================================================================
