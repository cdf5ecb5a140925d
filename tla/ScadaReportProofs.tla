------------------------- MODULE ScadaReportProofs --------------------------
(***************************************************************************)
(* Theorems about the cache file of the running system, for every set of   *)
(* devices and addresses, every point table and all values of the bounds:  *)
(* what the file says of an alarm agrees with the alarms that stand, a     *)
(* raised alarm is explained by the measurement before it, and the report  *)
(* shows the latest measurement.                                           *)
(*                                                                         *)
(* All rest on what a worker has yet to append: its events name the rules  *)
(* whose last line in the file is out of date, the last measurement of its *)
(* point in the file is the object in its hand, and no other point has a   *)
(* snapshot that the file lacks.                                           *)
(***************************************************************************)
EXTENDS ScadaReport, ScadaSystemProofs, WellFoundedInduction

Worked == Rules \ {"STALE"}

-----------------------------------------------------------------------------
(* The strengthening. *)

(***************************************************************************)
(* The last line of a file about a rule of a point, and the last measure   *)
(* of a point before line i.                                               *)
(***************************************************************************)
LastAbout(lines, i, p, rule) ==
    /\ i \in 1..Len(lines)
    /\ IsAbout(lines[i], p, rule)
    /\ \A k \in 1..Len(lines) : IsAbout(lines[k], p, rule) => k <= i

LastMeasure(lines, i, j, p) ==
    /\ j \in 1..(i - 1)
    /\ IsMeasure(lines[j], p)
    /\ \A k \in 1..(i - 1) : IsMeasure(lines[k], p) => k <= j

(***************************************************************************)
(* The worker has nothing to append about the rule of the point.           *)
(***************************************************************************)
Silent(p, rule) ==
    \A i \in 1..Len(events[p[1]]) :
      ~(PointInHand(p[1]) = p /\ events[p[1]][i].rule = rule)

CleanAtEvaluate == \A d \in Device : worker[d] = "evaluate" => events[d] = << >>

EventsTell ==
    \A d \in Device : \A i \in 1..Len(events[d]) :
      events[d][i].rule \in Worked =>
        events[d][i].raised = (events[d][i].rule \in active[PointInHand(d)])

FileTellsOf(p, rule) ==
    Silent(p, rule) /\ <<p[1], p[2], rule>> \notin missing =>
      \A i \in 1..Len(file) : LastAbout(file, i, p, rule) =>
        /\ rule \in active[p] => file[i].raised
        /\ file[i].raised /\ restarts = 0 => rule \in active[p]

FileTells == \A p \in Point, rule \in Worked : FileTellsOf(p, rule)

MeasuredInHand ==
    \A d \in Device : worker[d] = "alarms" =>
      \A j \in 1..Len(file) : LastMeasure(file, Len(file) + 1, j, PointInHand(d)) =>
        file[j] = DataLine("MEASURE", PointInHand(d), inHand[d].snapshot)

RaisedLine(line) == line.kind = "ALARM" /\ line.raised /\ line.rule # "STALE"

Explained(lines) ==
    \A i \in 1..Len(lines) : RaisedLine(lines[i]) =>
      \A j \in 1..(i - 1) : LastMeasure(lines, i, j, PointOf(lines[i])) =>
        lines[i].rule \in Conditions(PointDefinitionFor(PointOf(lines[i])), lines[j])

TornIsFresh ==
    torn => \A d \in Device : worker[d] \notin {"rememberMeasure", "appendMeasure", "alarms"}

JournalInv == CleanAtEvaluate /\ EventsTell /\ FileTells

MeasureInv == failures = 0 => TornIsFresh /\ MeasuredInHand /\ Explained(file)

-----------------------------------------------------------------------------
(* What an append leaves of a file. *)

(***************************************************************************)
(* A line is about a rule or a measure of a point if it is its subject.    *)
(***************************************************************************)
Key(p, name) == <<p[1], p[2], name>>

LEMMA SubjectIs ==
  ASSUME NEW line \in Line, NEW p \in Point
  PROVE  /\ \A rule \in Rules : IsAbout(line, p, rule) <=> Key(p, rule) \in Subject(line)
         /\ IsMeasure(line, p) <=> Key(p, "MEASURE") \in Subject(line)
         /\ \A rule \in Rules : Key(p, rule) \in Subjects
         /\ Key(p, "MEASURE") \in Subjects
<1>1. /\ p[1] \in Device /\ p[2] \in Address
      /\ \A x, y : p = <<x, y>> <=> p[1] = x /\ p[2] = y
  BY DEF Point
<1>2. "MEASURE" \notin Rules
  BY DEF Rules
<1>3. /\ \A rule \in Rules : Key(p, rule) \in Subjects
      /\ Key(p, "MEASURE") \in Subjects
  BY <1>1 DEF Key, Subjects
<1>4. CASE line.kind = "MEASURE"
  <2>1. Subject(line) = {<<line.device, line.address, "MEASURE">>}
    BY <1>4 DEF Subject
  <2> QED BY <2>1, <1>1, <1>2, <1>3, <1>4 DEF IsAbout, IsMeasure, PointOf, Key
<1>5. CASE line.kind = "ALARM"
  <2>1. Subject(line) = {<<line.device, line.address, line.rule>>}
    BY <1>5 DEF Subject
  <2>2. line.rule \in Rules
    BY <1>5 DEF Line, Damaged
  <2> QED BY <2>1, <2>2, <1>1, <1>2, <1>3, <1>5 DEF IsAbout, IsMeasure, PointOf, Key
<1>6. CASE line.kind \notin {"MEASURE", "ALARM"}
  <2>1. Subject(line) = {}
    BY <1>6 DEF Subject
  <2> QED BY <2>1, <1>3, <1>6 DEF IsAbout, IsMeasure
<1> QED BY <1>4, <1>5, <1>6

(***************************************************************************)
(* The last line about something in what an append left, if it is not      *)
(* missing, is the new line, or the last of the file before.               *)
(***************************************************************************)
Last(lines, i, about) ==
    /\ i \in 1..Len(lines)
    /\ about \in Subject(lines[i])
    /\ \A m \in 1..Len(lines) : about \in Subject(lines[m]) => m <= i

LEMMA LastLeft ==
  ASSUME NEW f \in Seq(Line), NEW g \in Seq(Line), NEW lost, NEW lostAfter,
         NEW k \in Nat, NEW n \in Nat, k + n <= Len(f), NEW line \in Line,
         Left(f, lost, g, lostAfter, k, n, line),
         NEW about \in Subjects, about \notin lostAfter, NEW i, Last(g, i, about)
  PROVE  \/ about \in Subject(line) /\ g[i] = line
         \/ /\ about \notin Subject(line)
            /\ about \notin lost
            /\ \E j \in 1..Len(f) : Last(f, j, about) /\ g[i] = f[j]
<1>1. /\ Len(f) \in Nat /\ Len(g) \in {n, n + 1}
      /\ \A m \in 1..n : g[m] = f[m + k]
      /\ Len(g) = n + 1 => g[n + 1] \in {line, Damaged}
  BY LenProperties DEF Left
<1>2. /\ i \in 1..Len(g)
      /\ about \in Subject(g[i])
      /\ \A m \in 1..Len(g) : about \in Subject(g[m]) => m <= i
  BY DEF Last
<1>3. CASE about \in Subject(line) /\ Len(g) = n + 1 /\ g[n + 1] = line
  <2>1. n + 1 \in 1..Len(g)
    BY <1>3
  <2>2. n + 1 <= i
    BY <2>1, <1>2, <1>3
  <2>3. i = n + 1
    BY <2>2, <1>2, <1>3
  <2> QED BY <2>3, <1>3
<1>4. CASE /\ about \notin Subject(line)
           /\ about \notin lost
           /\ \A m \in (k + n + 1)..Len(f) : about \notin Subject(f[m])
  <2>1. about \notin Subject(Damaged)
    BY DEF Subject, Damaged
  <2>2. i \in 1..n
    <3>1. i # n + 1
      BY <2>1, <1>1, <1>2, <1>4
    <3> QED BY <3>1, <1>1, <1>2
  <2>3. i + k \in 1..Len(f) /\ g[i] = f[i + k]
    BY <2>2, <1>1
  <2>4. ASSUME NEW m \in 1..Len(f), about \in Subject(f[m])
        PROVE  m <= i + k
    <3>1. m <= k + n
      BY <2>4, <1>1, <1>4
    <3>2. CASE m <= k
      BY <3>2, <2>2
    <3>3. CASE m > k
      <4>1. m - k \in 1..n /\ (m - k) + k = m
        BY <3>1, <3>3
      <4>2. g[m - k] = f[m] /\ m - k \in 1..Len(g)
        BY <4>1, <1>1
      <4>3. m - k <= i
        BY <4>2, <2>4, <1>2
      <4> QED BY <4>3, <2>2
    <3> QED BY <3>2, <3>3
  <2>5. Last(f, i + k, about)
    BY <2>3, <2>4, <1>2 DEF Last
  <2> QED BY <2>3, <2>5, <1>4
<1> QED BY <1>3, <1>4 DEF Left

(***************************************************************************)
(* The same for the last line about a rule, and for the last measure.      *)
(***************************************************************************)
LEMMA LastAboutLeft ==
  ASSUME NEW f \in Seq(Line), NEW g \in Seq(Line), NEW lost, NEW lostAfter,
         NEW k \in Nat, NEW n \in Nat, k + n <= Len(f), NEW line \in Line,
         Left(f, lost, g, lostAfter, k, n, line),
         NEW p \in Point, NEW rule \in Rules, Key(p, rule) \notin lostAfter,
         NEW i, LastAbout(g, i, p, rule)
  PROVE  \/ IsAbout(line, p, rule) /\ g[i] = line
         \/ /\ ~IsAbout(line, p, rule)
            /\ Key(p, rule) \notin lost
            /\ \E j \in 1..Len(f) : LastAbout(f, j, p, rule) /\ g[i] = f[j]
<1>1. \A lines \in Seq(Line) : \A m \in 1..Len(lines) :
        IsAbout(lines[m], p, rule) <=> Key(p, rule) \in Subject(lines[m])
  <2> TAKE lines \in Seq(Line)
  <2> TAKE m \in 1..Len(lines)
  <2>1. lines[m] \in Line
    BY ElementOfSeq
  <2> QED BY <2>1, SubjectIs
<1>2. \A lines \in Seq(Line) : \A m :
        LastAbout(lines, m, p, rule) <=> Last(lines, m, Key(p, rule))
  BY <1>1 DEF LastAbout, Last
<1>3. Key(p, rule) \in Subjects /\ (IsAbout(line, p, rule) <=> Key(p, rule) \in Subject(line))
  BY SubjectIs
<1>4. Last(g, i, Key(p, rule))
  BY <1>2
<1>5. \/ Key(p, rule) \in Subject(line) /\ g[i] = line
      \/ /\ Key(p, rule) \notin Subject(line)
         /\ Key(p, rule) \notin lost
         /\ \E j \in 1..Len(f) : Last(f, j, Key(p, rule)) /\ g[i] = f[j]
  BY <1>3, <1>4, LastLeft
<1> QED BY <1>2, <1>3, <1>5

LEMMA LastMeasureLeft ==
  ASSUME NEW f \in Seq(Line), NEW g \in Seq(Line), NEW lost, NEW lostAfter,
         NEW k \in Nat, NEW n \in Nat, k + n <= Len(f), NEW line \in Line,
         Left(f, lost, g, lostAfter, k, n, line),
         NEW p \in Point, Key(p, "MEASURE") \notin lostAfter,
         NEW i, LastMeasure(g, Len(g) + 1, i, p)
  PROVE  \/ IsMeasure(line, p) /\ g[i] = line
         \/ /\ ~IsMeasure(line, p)
            /\ Key(p, "MEASURE") \notin lost
            /\ \E j \in 1..Len(f) : LastMeasure(f, Len(f) + 1, j, p) /\ g[i] = f[j]
<1>1. \A lines \in Seq(Line) : \A m \in 1..Len(lines) :
        IsMeasure(lines[m], p) <=> Key(p, "MEASURE") \in Subject(lines[m])
  <2> TAKE lines \in Seq(Line)
  <2> TAKE m \in 1..Len(lines)
  <2>1. lines[m] \in Line
    BY ElementOfSeq
  <2> QED BY <2>1, SubjectIs
<1>2. \A lines \in Seq(Line) : \A m :
        LastMeasure(lines, Len(lines) + 1, m, p) <=> Last(lines, m, Key(p, "MEASURE"))
  <2> TAKE lines \in Seq(Line)
  <2>1. Len(lines) \in Nat /\ (Len(lines) + 1) - 1 = Len(lines)
    BY LenProperties
  <2> QED BY <2>1, <1>1 DEF LastMeasure, Last
<1>3. /\ Key(p, "MEASURE") \in Subjects
      /\ IsMeasure(line, p) <=> Key(p, "MEASURE") \in Subject(line)
  BY SubjectIs
<1>4. Last(g, i, Key(p, "MEASURE"))
  BY <1>2
<1>5. \/ Key(p, "MEASURE") \in Subject(line) /\ g[i] = line
      \/ /\ Key(p, "MEASURE") \notin Subject(line)
         /\ Key(p, "MEASURE") \notin lost
         /\ \E j \in 1..Len(f) : Last(f, j, Key(p, "MEASURE")) /\ g[i] = f[j]
  BY <1>3, <1>4, LastLeft
<1> QED BY <1>2, <1>3, <1>5

(***************************************************************************)
(* The last measure before a line is still the one it was in a piece of    *)
(* the file, if it is still there.                                         *)
(***************************************************************************)
LEMMA LastMeasureKept ==
  ASSUME NEW f \in Seq(Line), NEW g \in Seq(Line), NEW k \in Nat, NEW n \in Nat,
         k + n <= Len(f), \A m \in 1..n : g[m] = f[m + k],
         NEW p, NEW i \in 1..(n + 1), NEW j \in 1..(i - 1), LastMeasure(g, i, j, p)
  PROVE  /\ j + k \in 1..Len(f)
         /\ j + k \in 1..(i + k - 1)
         /\ g[j] = f[j + k]
         /\ LastMeasure(f, i + k, j + k, p)
<1>1. /\ IsMeasure(g[j], p)
      /\ \A m \in 1..(i - 1) : IsMeasure(g[m], p) => m <= j
      /\ Len(f) \in Nat
  BY LenProperties DEF LastMeasure
<1>2. /\ j \in 1..n
      /\ j + k \in 1..Len(f)
      /\ j + k \in 1..(i + k - 1)
      /\ g[j] = f[j + k]
  BY <1>1
<1>3. ASSUME NEW m \in 1..(i + k - 1), IsMeasure(f[m], p)
      PROVE  m <= j + k
  <2>1. CASE m <= k
    BY <2>1, <1>2
  <2>2. CASE m > k
    <3>1. m - k \in 1..(i - 1) /\ m - k \in 1..n /\ (m - k) + k = m
      BY <2>2
    <3>2. g[m - k] = f[m]
      BY <3>1
    <3>3. m - k <= j
      BY <3>1, <3>2, <1>1, <1>3
    <3> QED BY <3>3, <1>2
  <2> QED BY <2>1, <2>2
<1>4. LastMeasure(f, i + k, j + k, p)
  BY <1>1, <1>2, <1>3 DEF LastMeasure
<1> QED BY <1>2, <1>4

(***************************************************************************)
(* A file whose raised lines are explained leaves a piece of which this    *)
(* holds too, if it holds of the line behind it.                           *)
(***************************************************************************)
LEMMA ExplainedPiece ==
  ASSUME NEW f \in Seq(Line), NEW g \in Seq(Line), NEW k \in Nat, NEW n \in Nat,
         k + n <= Len(f), Len(g) \in {n, n + 1}, \A m \in 1..n : g[m] = f[m + k],
         Explained(f),
         Len(g) = n + 1 /\ RaisedLine(g[n + 1]) =>
           \A j \in 1..Len(f) : LastMeasure(f, n + k + 1, j, PointOf(g[n + 1])) =>
             g[n + 1].rule \in Conditions(PointDefinitionFor(PointOf(g[n + 1])), f[j])
  PROVE  Explained(g)
<1> SUFFICES ASSUME NEW i \in 1..Len(g), RaisedLine(g[i]),
                    NEW j \in 1..(i - 1), LastMeasure(g, i, j, PointOf(g[i]))
             PROVE  g[i].rule \in Conditions(PointDefinitionFor(PointOf(g[i])), g[j])
  BY DEF Explained
<1>1. Len(f) \in Nat /\ i \in 1..(n + 1)
  BY LenProperties
<1>2. /\ j + k \in 1..Len(f)
      /\ j + k \in 1..(i + k - 1)
      /\ g[j] = f[j + k]
      /\ LastMeasure(f, i + k, j + k, PointOf(g[i]))
  BY <1>1, LastMeasureKept
<1>3. CASE i = n + 1
  <2>1. i + k = n + k + 1 /\ Len(g) = n + 1
    BY <1>3
  <2> QED BY <2>1, <1>2, <1>3
<1>4. CASE i # n + 1
  <2>1. i \in 1..n /\ i + k \in 1..Len(f) /\ g[i] = f[i + k]
    BY <1>1, <1>4
  <2> QED BY <2>1, <1>2 DEF Explained
<1> QED BY <1>3, <1>4

(***************************************************************************)
(* A line that is not a measure of the point leaves its last measure the   *)
(* last one, if nothing was lost at the end.                               *)
(***************************************************************************)
LEMMA LastMeasureOfAll ==
  ASSUME NEW f \in Seq(Line), NEW g \in Seq(Line), NEW lost, NEW lostAfter,
         NEW k \in Nat, NEW n \in Nat, k + n = Len(f), NEW line \in Line,
         Left(f, lost, g, lostAfter, k, n, line),
         NEW p, ~IsMeasure(line, p), NEW j, LastMeasure(g, Len(g) + 1, j, p)
  PROVE  \E m \in 1..Len(f) : LastMeasure(f, Len(f) + 1, m, p) /\ g[j] = f[m]
<1>1. Len(f) \in Nat /\ k + n <= Len(f) /\ n + 1 + k = Len(f) + 1
  BY LenProperties
<1>2. /\ Len(g) \in {n, n + 1}
      /\ \A m \in 1..n : g[m] = f[m + k]
      /\ Len(g) = n + 1 => g[n + 1] \in {line, Damaged}
  BY DEF Left
<1>3. /\ j \in 1..Len(g)
      /\ IsMeasure(g[j], p)
      /\ \A m \in 1..Len(g) : IsMeasure(g[m], p) => m <= j
  <2>1. Len(g) \in Nat /\ (Len(g) + 1) - 1 = Len(g)
    BY <1>1, <1>2
  <2> QED BY <2>1 DEF LastMeasure
<1>4. Len(g) = n + 1 => ~IsMeasure(g[n + 1], p)
  BY <1>2 DEF IsMeasure, Damaged
<1>5. j \in 1..n
  <2>1. CASE Len(g) = n
    BY <2>1, <1>3
  <2>2. CASE Len(g) = n + 1
    <3>1. j # n + 1
      BY <2>2, <1>3, <1>4
    <3> QED BY <3>1, <2>2, <1>1, <1>3
  <2> QED BY <2>1, <2>2, <1>2
<1>6. PICK i \in 1..(n + 1) : i = n + 1 /\ i - 1 = n /\ i + k = Len(f) + 1
  BY <1>1
<1>7. LastMeasure(g, i, j, p)
  <2>1. \A m \in 1..n : m \in 1..Len(g)
    BY <1>1, <1>2
  <2> QED BY <2>1, <1>3, <1>5, <1>6 DEF LastMeasure
<1>8. /\ j + k \in 1..Len(f)
      /\ g[j] = f[j + k]
      /\ LastMeasure(f, i + k, j + k, p)
  BY <1>1, <1>2, <1>5, <1>6, <1>7, LastMeasureKept
<1> QED BY <1>6, <1>8

(***************************************************************************)
(* What a step may find in the file.                                       *)
(***************************************************************************)
LEMMA FileIsTyped == TypeOK => FileType
BY DEF TypeOK, FileType, Subjects

-----------------------------------------------------------------------------
(* Events. *)

(***************************************************************************)
(* Each event of an evaluation tells how its rule stands after it.         *)
(***************************************************************************)
LEMMA EventsAreTrue ==
  ASSUME NEW before, NEW after
  PROVE  \A i \in 1..Len(Events(before, after)) :
           Events(before, after)[i].raised = (Events(before, after)[i].rule \in after)
<1> DEFINE True == {e \in Event : e.raised = (e.rule \in after)}
<1>1. \A rule \in Rules : Transition(rule, before, after) \in Seq(True)
  <2> TAKE rule \in Rules
  <2>1. [rule |-> rule, raised |-> rule \in after] \in True
    BY DEF Event
  <2> HIDE DEF True
  <2> QED BY <2>1, EmptySeq DEF Transition
<1>2. {"DATA_QUALITY", "HIGH_HIGH", "HIGH", "LOW_LOW", "LOW", "STATE", "STALE"} \subseteq Rules
  BY DEF Rules
<1> HIDE DEF True
<1>3. Events(before, after) \in Seq(True)
  BY <1>1, <1>2, ConcatProperties DEF Events
<1>4. \A i \in 1..Len(Events(before, after)) : Events(before, after)[i] \in True
  BY <1>3, ElementOfSeq
<1> QED BY <1>4 DEF True

Names(evs, rule) == \E i \in 1..Len(evs) : evs[i].rule = rule

(***************************************************************************)
(* What one of two sequences names, both together name.                    *)
(***************************************************************************)
LEMMA NamesConcat ==
  ASSUME NEW s \in Seq(Event), NEW t \in Seq(Event), NEW rule,
         Names(s, rule) \/ Names(t, rule)
  PROVE  Names(s \o t, rule)
<1>1. /\ Len(s) \in Nat /\ Len(t) \in Nat
      /\ Len(s \o t) = Len(s) + Len(t)
      /\ \A i \in 1..Len(s) : (s \o t)[i] = s[i]
      /\ \A i \in 1..Len(t) : (s \o t)[Len(s) + i] = t[i]
  BY ConcatProperties, LenProperties
<1>2. CASE Names(s, rule)
  <2>1. PICK i \in 1..Len(s) : s[i].rule = rule
    BY <1>2 DEF Names
  <2>2. i \in 1..Len(s \o t) /\ (s \o t)[i] = s[i]
    BY <1>1
  <2> QED BY <2>1, <2>2 DEF Names
<1>3. CASE Names(t, rule)
  <2>1. PICK i \in 1..Len(t) : t[i].rule = rule
    BY <1>3 DEF Names
  <2>2. Len(s) + i \in 1..Len(s \o t) /\ (s \o t)[Len(s) + i] = t[i]
    BY <1>1
  <2> QED BY <2>1, <2>2 DEF Names
<1> QED BY <1>2, <1>3

(***************************************************************************)
(* An evaluation names each rule that it flips in an event.                *)
(***************************************************************************)
LEMMA FlipsAreNamed ==
  ASSUME NEW before, NEW after, NEW rule \in Rules,
         (rule \in before) # (rule \in after)
  PROVE  Names(Events(before, after), rule)
<1> DEFINE T(r) == Transition(r, before, after)
<1>1. {"DATA_QUALITY", "HIGH_HIGH", "HIGH", "LOW_LOW", "LOW", "STATE", "STALE"} \subseteq Rules
  BY DEF Rules
<1>2. \A r \in Rules : T(r) \in Seq(Event)
  BY TransitionType
<1>3. Names(T(rule), rule)
  <2>1. T(rule) = << [rule |-> rule, raised |-> rule \in after] >>
    BY DEF Transition
  <2>2. Len(T(rule)) = 1 /\ T(rule)[1].rule = rule
    BY <2>1
  <2> QED BY <2>2 DEF Names
<1> HIDE DEF T
<1> DEFINE s2 == T("DATA_QUALITY") \o T("HIGH_HIGH")
           s3 == s2 \o T("HIGH")
           s4 == s3 \o T("LOW_LOW")
           s5 == s4 \o T("LOW")
           s6 == s5 \o T("STATE")
           s7 == s6 \o T("STALE")
<1>4. s2 \in Seq(Event)
  BY <1>1, <1>2, ConcatProperties
<1>5. Names(T("DATA_QUALITY"), rule) \/ Names(T("HIGH_HIGH"), rule) => Names(s2, rule)
  BY <1>1, <1>2, NamesConcat
<1> HIDE DEF s2
<1>6. s3 \in Seq(Event)
  BY <1>1, <1>2, <1>4, ConcatProperties
<1>7. Names(s2, rule) \/ Names(T("HIGH"), rule) => Names(s3, rule)
  BY <1>1, <1>2, <1>4, NamesConcat
<1> HIDE DEF s3
<1>8. s4 \in Seq(Event)
  BY <1>1, <1>2, <1>6, ConcatProperties
<1>9. Names(s3, rule) \/ Names(T("LOW_LOW"), rule) => Names(s4, rule)
  BY <1>1, <1>2, <1>6, NamesConcat
<1> HIDE DEF s4
<1>10. s5 \in Seq(Event)
  BY <1>1, <1>2, <1>8, ConcatProperties
<1>11. Names(s4, rule) \/ Names(T("LOW"), rule) => Names(s5, rule)
  BY <1>1, <1>2, <1>8, NamesConcat
<1> HIDE DEF s5
<1>12. s6 \in Seq(Event)
  BY <1>1, <1>2, <1>10, ConcatProperties
<1>13. Names(s5, rule) \/ Names(T("STATE"), rule) => Names(s6, rule)
  BY <1>1, <1>2, <1>10, NamesConcat
<1> HIDE DEF s6
<1>14. Names(s6, rule) \/ Names(T("STALE"), rule) => Names(s7, rule)
  BY <1>1, <1>2, <1>12, NamesConcat
<1> HIDE DEF s7
<1>15. rule \in {"DATA_QUALITY", "HIGH_HIGH", "HIGH", "LOW_LOW", "LOW", "STATE", "STALE"}
  BY DEF Rules
<1>16. Names(s7, rule)
  BY <1>3, <1>5, <1>7, <1>9, <1>11, <1>13, <1>14, <1>15
<1>17. Events(before, after) = s7
  BY DEF Events, s7, s6, s5, s4, s3, s2, T
<1> QED BY <1>16, <1>17

-----------------------------------------------------------------------------
(* The last line about a rule. *)

(***************************************************************************)
(* The steps that change what the two strengthenings speak of, and what    *)
(* the others leave.                                                       *)
(***************************************************************************)
Measuring == {"rememberMeasure", "appendMeasure"}

Rests ==
    /\ UNCHANGED <<active, events, inHand, disk, restarts>>
    /\ \A d \in Device :
         /\ worker'[d] \in {"evaluate", "alarms"} => worker'[d] = worker[d]
         /\ worker'[d] \in Measuring => worker[d] \in Measuring

LEMMA ReportFrame ==
  ASSUME TypeOK, [Next]_vars
  PROVE  \/ Rests
         \/ Restart
         \/ \E d \in Device :
              \/ ReceiveObject(d) \/ EvaluateObject(d) \/ AppendBusiness(d)
              \/ AppendMeasurement(d) \/ AppendAlarm(d) \/ ObjectHandled(d)
         \/ MonitorScans
         \/ MonitorAppends
<1> USE DEF process, link, handler, alarms, watch, memory, disk, time, Goto, Rests, Measuring
<1>1. CASE Tick \/ Start \/ Stop \/ Stopping
  BY <1>1 DEF Tick, Start, Stop, Stopping, StopClient, JoinWorker, JoinMonitor, TypeOK
<1>2. ASSUME NEW d \in Device,
             \/ ConnectionChanged(d) \/ ReceiveFrame(d) \/ WorkerEnds(d)
             \/ FrameRefused(d) \/ FrameAccepted(d) \/ FrameHandled(d)
             \/ RememberBusiness(d) \/ RememberMeasurement(d)
      PROVE  Rests
  BY <1>2 DEF ConnectionChanged, ReceiveFrame, WorkerEnds, FrameRefused, FrameAccepted,
              FrameHandled, RememberBusiness, RememberMeasurement, TypeOK
<1>3. CASE MonitorChecks \/ MonitorWakes \/ MonitorDone
  BY <1>3 DEF MonitorChecks, MonitorWakes, MonitorDone
<1>4. CASE UNCHANGED vars
  BY <1>4 DEF vars
<1> HIDE DEF Rests
<1> QED BY <1>1, <1>2, <1>3, <1>4 DEF Next, Handle, Monitor

(***************************************************************************)
(* What the strengthening says of a point and a rule, whose worker appends *)
(* nothing, depends on no other line.                                      *)
(***************************************************************************)
LEMMA FileTellsAppend ==
  ASSUME TypeOK, NEW p \in Point, NEW rule \in Worked, FileTellsOf(p, rule),
         NEW line \in Line, ~IsAbout(line, p, rule), Write(line),
         Silent(p, rule)' => Silent(p, rule),
         rule \in active'[p] <=> rule \in active[p],
         restarts' = restarts
  PROVE  FileTellsOf(p, rule)'
<1> SUFFICES ASSUME Silent(p, rule)', Key(p, rule) \notin missing',
                    NEW i \in 1..Len(file'), LastAbout(file', i, p, rule)
             PROVE  /\ rule \in active'[p] => file'[i].raised
                    /\ file'[i].raised /\ restarts' = 0 => rule \in active'[p]
  BY DEF FileTellsOf, LastAbout, Key
<1>1. FileType /\ FileType'
  BY FileIsTyped, WriteLeaves
<1>2. PICK k, n \in Nat :
        k + n <= Len(file) /\ Left(file, missing, file', missing', k, n, line)
  BY <1>1, WriteLeaves
<1>3. /\ Key(p, rule) \notin missing
      /\ \E j \in 1..Len(file) : LastAbout(file, j, p, rule) /\ file'[i] = file[j]
  BY <1>1, <1>2, LastAboutLeft DEF FileType, Worked
<1> QED BY <1>3 DEF FileTellsOf, Key

(***************************************************************************)
(* The same for a step that leaves the file alone.                         *)
(***************************************************************************)
LEMMA FileTellsSame ==
  ASSUME NEW p \in Point, NEW rule \in Worked, FileTellsOf(p, rule),
         file' = file, missing' = missing,
         Silent(p, rule)' => Silent(p, rule),
         rule \in active'[p] <=> rule \in active[p],
         restarts' = restarts
  PROVE  FileTellsOf(p, rule)'
<1> SUFFICES ASSUME Silent(p, rule)', <<p[1], p[2], rule>> \notin missing',
                    NEW i \in 1..Len(file'), LastAbout(file', i, p, rule)
             PROVE  /\ rule \in active'[p] => file'[i].raised
                    /\ file'[i].raised /\ restarts' = 0 => rule \in active'[p]
  BY DEF FileTellsOf, LastAbout
<1>1. LastAbout(file, i, p, rule) /\ i \in 1..Len(file)
  OBVIOUS
<1> QED BY <1>1 DEF FileTellsOf

(***************************************************************************)
(* At first there is nothing to tell.                                      *)
(***************************************************************************)
LEMMA JournalInit == Init => JournalInv
<1> SUFFICES ASSUME Init PROVE JournalInv
  OBVIOUS
<1>1. Len(<< >>) = 0 /\ 1..0 = {}
  OBVIOUS
<1>2. CleanAtEvaluate /\ EventsTell
  BY <1>1 DEF Init, CleanAtEvaluate, EventsTell
<1>3. FileTells
  BY <1>1 DEF Init, FileTells, FileTellsOf
<1> QED BY <1>2, <1>3 DEF JournalInv

(***************************************************************************)
(* After a restart no alarm stands, and the rest is left open.             *)
(***************************************************************************)
LEMMA JournalRestart ==
  ASSUME TypeOK, Restart
  PROVE  JournalInv'
<1>1. /\ events' = [d \in Device |-> << >>]
      /\ worker' = [d \in Device |-> "off"]
      /\ active' = [p \in Point |-> {}]
      /\ restarts' # 0
  BY BoundsAssumption DEF Restart, TypeOK
<1>2. Len(<< >>) = 0 /\ 1..0 = {}
  OBVIOUS
<1>3. CleanAtEvaluate' /\ EventsTell'
  BY <1>1, <1>2 DEF CleanAtEvaluate, EventsTell
<1>4. FileTells'
  BY <1>1 DEF FileTells, FileTellsOf
<1> QED BY <1>3, <1>4 DEF JournalInv

(***************************************************************************)
(* An object comes into the hand of its worker, or leaves it, while the    *)
(* worker has no event to append.                                          *)
(***************************************************************************)
LEMMA JournalHand ==
  ASSUME IInv, JournalInv, NEW d \in Device, ReceiveObject(d) \/ ObjectHandled(d)
  PROVE  JournalInv'
<1> USE DEF process, link, handler, alarms, watch, memory, disk, time, Goto
<1>1. /\ events[d] = << >>
      /\ worker' = [worker EXCEPT ![d] = worker'[d]]
      /\ \A e \in Device \ {d} : inHand'[e] = inHand[e]
      /\ UNCHANGED <<active, events, file, missing, restarts>>
  BY DEF ReceiveObject, ObjectHandled, IInv, EventsWhileBusy, Busy, TypeOK
<1>2. Len(<< >>) = 0 /\ 1..0 = {}
  OBVIOUS
<1>3. \A e \in Device \ {d} : PointInHand(e)' = PointInHand(e) /\ worker'[e] = worker[e]
  BY <1>1 DEF PointInHand, IInv, TypeOK
<1>4. CleanAtEvaluate'
  BY <1>1, <1>3 DEF CleanAtEvaluate, JournalInv
<1>5. EventsTell'
  <2> SUFFICES ASSUME NEW e \in Device, NEW i \in 1..Len(events'[e]), events'[e][i].rule \in Worked
               PROVE  events'[e][i].raised = (events'[e][i].rule \in active'[PointInHand(e)'])
    BY DEF EventsTell
  <2>1. e # d
    BY <1>1, <1>2
  <2> QED BY <2>1, <1>1, <1>3 DEF EventsTell, JournalInv
<1>6. FileTells'
  <2> SUFFICES ASSUME NEW p \in Point, NEW rule \in Worked PROVE FileTellsOf(p, rule)'
    BY DEF FileTells
  <2>1. Silent(p, rule)' => Silent(p, rule)
    <3>1. p[1] \in Device
      BY DEF Point
    <3>2. CASE p[1] = d
      BY <3>2, <1>1, <1>2 DEF Silent
    <3>3. CASE p[1] # d
      BY <3>1, <3>3, <1>1, <1>3 DEF Silent
    <3> QED BY <3>2, <3>3
  <2>2. FileTellsOf(p, rule)
    BY DEF JournalInv, FileTells
  <2> QED BY <1>1, <2>1, <2>2, FileTellsSame
<1> QED BY <1>4, <1>5, <1>6 DEF JournalInv

(***************************************************************************)
(* An evaluation flips a rule only with an event that tells it.            *)
(***************************************************************************)
LEMMA JournalEvaluate ==
  ASSUME IInv, JournalInv, NEW d \in Device, EvaluateObject(d)
  PROVE  JournalInv'
<1> DEFINE q == PointInHand(d)
           after == Evaluate(PointDefinitionFor(q), inHand[d].snapshot, active[q])
           new == Events(active[q], after)
<1>1. /\ worker[d] = "evaluate"
      /\ active' = [active EXCEPT ![q] = after]
      /\ events' = [events EXCEPT ![d] = new]
      /\ worker' = [worker EXCEPT ![d] = "rememberBusiness"]
      /\ UNCHANGED <<inHand, file, missing, restarts>>
  BY DEF EvaluateObject, Goto, time, disk
<1>2. q \in Point /\ q[1] = d
  BY <1>1, InHandType DEF IInv, HasObject, Busy, PointInHand
<1>3. /\ \A i \in 1..Len(new) : new[i].raised = (new[i].rule \in after)
      /\ \A rule \in Rules : (rule \in active[q]) # (rule \in after) => Names(new, rule)
  BY EventsAreTrue, FlipsAreNamed
<1>4. /\ events \in [Device -> Seq([rule : Rules, raised : BOOLEAN])]
      /\ active \in [Point -> SUBSET Rules]
      /\ worker \in [Device -> WorkerStates]
  BY DEF IInv, TypeOK
<1>5. \A e \in Device : PointInHand(e)' = PointInHand(e)
  BY <1>1 DEF PointInHand
<1>6. events[d] = << >>
  BY <1>1 DEF JournalInv, CleanAtEvaluate
<1> HIDE DEF new, after
<1>7. /\ active'[q] = after
      /\ \A p \in Point \ {q} : active'[p] = active[p]
      /\ events'[d] = new
      /\ \A e \in Device \ {d} : events'[e] = events[e] /\ worker'[e] = worker[e]
      /\ worker'[d] = "rememberBusiness"
  BY <1>1, <1>2, <1>4
<1>8. CleanAtEvaluate'
  BY <1>7 DEF CleanAtEvaluate, JournalInv
<1>9. EventsTell'
  <2> SUFFICES ASSUME NEW e \in Device, NEW i \in 1..Len(events'[e]), events'[e][i].rule \in Worked
               PROVE  events'[e][i].raised = (events'[e][i].rule \in active'[PointInHand(e)'])
    BY DEF EventsTell
  <2>1. CASE e = d
    BY <2>1, <1>3, <1>5, <1>7
  <2>2. CASE e # d
    <3>1. events[e] # << >>
      BY <2>2, <1>7
    <3>2. PointInHand(e) \in Point /\ PointInHand(e)[1] = e
      BY <3>1, InHandType DEF IInv, EventsWhileBusy, HasObject, PointInHand
    <3>3. active'[PointInHand(e)] = active[PointInHand(e)]
      BY <2>2, <3>2, <1>2, <1>7
    <3> QED BY <2>2, <3>3, <1>5, <1>7 DEF EventsTell, JournalInv
  <2> QED BY <2>1, <2>2
<1>10. FileTells'
  <2> SUFFICES ASSUME NEW p \in Point, NEW rule \in Worked PROVE FileTellsOf(p, rule)'
    BY DEF FileTells
  <2>1. FileTellsOf(p, rule) /\ rule \in Rules /\ p[1] \in Device
    BY DEF JournalInv, FileTells, Worked, Point
  <2>2. CASE p = q
    <3>1. Len(<< >>) = 0 /\ 1..0 = {}
      OBVIOUS
    <3>2. Silent(p, rule)
      BY <2>2, <3>1, <1>2, <1>6 DEF Silent
    <3>3. CASE Silent(p, rule)'
      <4>1. ~Names(new, rule)
        BY <3>3, <2>2, <1>2, <1>5, <1>7 DEF Silent, Names
      <4>2. rule \in active'[p] <=> rule \in active[p]
        BY <4>1, <2>1, <2>2, <1>3, <1>7
      <4> QED BY <4>2, <3>2, <2>1, <1>1, FileTellsSame
    <3>4. CASE ~Silent(p, rule)'
      BY <3>4 DEF FileTellsOf
    <3> QED BY <3>3, <3>4
  <2>3. CASE p # q
    <3>1. active'[p] = active[p]
      BY <2>3, <1>7
    <3>2. Silent(p, rule)
          \/ (Silent(p, rule)' => Silent(p, rule))
      <4>1. CASE p[1] = d
        BY <4>1, <2>3 DEF Silent
      <4>2. CASE p[1] # d
        BY <4>2, <2>1, <1>5, <1>7 DEF Silent
      <4> QED BY <4>1, <4>2
    <3> QED BY <3>1, <3>2, <2>1, <1>1, FileTellsSame
  <2> QED BY <2>2, <2>3
<1> QED BY <1>8, <1>9, <1>10 DEF JournalInv

(***************************************************************************)
(* A worker appends an event: what it says of its rule is what stands, and *)
(* nothing else is touched.                                                *)
(***************************************************************************)
LEMMA JournalAlarm ==
  ASSUME IInv, JournalInv, NEW d \in Device, AppendAlarm(d)
  PROVE  JournalInv'
<1> DEFINE q == PointInHand(d)
           event == Head(events[d])
           line == AlarmLine(q, event)
<1>1. /\ worker[d] = "alarms"
      /\ events[d] # << >>
      /\ Write(line)
      /\ events' = [events EXCEPT ![d] = Tail(events[d])]
      /\ UNCHANGED <<worker, inHand, active, restarts>>
  BY DEF AppendAlarm, alarms, time
<1>2. q \in Point /\ q[1] = d
  BY <1>1, InHandType DEF IInv, HasObject, Busy, PointInHand
<1>3. TypeOK /\ events \in [Device -> Seq(Event)]
  BY DEF IInv, TypeOK, Event
<1>4. /\ event \in Event
      /\ event = events[d][1]
      /\ Len(events[d]) \in Nat \ {0}
      /\ Len(Tail(events[d])) = Len(events[d]) - 1
      /\ \A i \in 1..Len(Tail(events[d])) : Tail(events[d])[i] = events[d][i + 1]
  BY <1>1, <1>3, HeadTailProperties, EmptySeq, LenProperties
<1>5. line \in Line
  BY <1>2, <1>4, AlarmLineType DEF Event
<1>6. /\ line.kind = "ALARM"
      /\ PointOf(line) = q
      /\ line.rule = event.rule
      /\ line.raised = event.raised
  BY <1>2 DEF AlarmLine, PointOf, PointInHand
<1>7. \A e \in Device : PointInHand(e)' = PointInHand(e)
  BY <1>1 DEF PointInHand
<1> HIDE DEF event, line
<1>8. /\ \A i \in 1..Len(events'[d]) : i + 1 \in 1..Len(events[d]) /\ events'[d][i] = events[d][i + 1]
      /\ \A i \in 2..Len(events[d]) : i - 1 \in 1..Len(events'[d]) /\ events'[d][i - 1] = events[d][i]
      /\ \A e \in Device \ {d} : events'[e] = events[e]
  <2>1. events'[d] = Tail(events[d]) /\ \A e \in Device \ {d} : events'[e] = events[e]
    BY <1>1, <1>3
  <2>2. \A i \in 2..Len(events[d]) :
          /\ i - 1 \in 1..Len(Tail(events[d]))
          /\ (i - 1) + 1 = i
    BY <1>4
  <2>3. \A i \in 1..Len(Tail(events[d])) : i + 1 \in 1..Len(events[d])
    BY <1>4
  <2> QED BY <2>1, <2>2, <2>3, <1>4
<1>9. CleanAtEvaluate'
  <2>1. \A e \in Device : worker'[e] = "evaluate" => e # d
    BY <1>1
  <2> QED BY <2>1, <1>1, <1>8 DEF CleanAtEvaluate, JournalInv
<1>10. EventsTell'
  <2> SUFFICES ASSUME NEW e \in Device, NEW i \in 1..Len(events'[e]), events'[e][i].rule \in Worked
               PROVE  events'[e][i].raised = (events'[e][i].rule \in active'[PointInHand(e)'])
    BY DEF EventsTell
  <2>1. PICK n \in 1..Len(events[e]) : events'[e][i] = events[e][n]
    BY <1>8
  <2> QED BY <2>1, <1>1, <1>7 DEF EventsTell, JournalInv
<1>11. FileTells'
  <2> SUFFICES ASSUME NEW p \in Point, NEW rule \in Worked PROVE FileTellsOf(p, rule)'
    BY DEF FileTells
  <2>1. FileTellsOf(p, rule) /\ p[1] \in Device
    BY DEF JournalInv, FileTells, Point
  <2>2. CASE p = q /\ rule = event.rule
    <3>1. event.raised = (rule \in active[p])
      <4>1. 1 \in 1..Len(events[d])
        BY <1>4
      <4> QED BY <4>1, <2>2, <1>4 DEF EventsTell, JournalInv
    <3> SUFFICES ASSUME Key(p, rule) \notin missing',
                        NEW i \in 1..Len(file'), LastAbout(file', i, p, rule)
                 PROVE  file'[i].raised = (rule \in active'[p])
      BY DEF FileTellsOf, Key
    <3>2. FileType /\ FileType'
      BY <1>1, <1>3, <1>5, FileIsTyped, WriteLeaves
    <3>3. PICK k, n \in Nat :
            k + n <= Len(file) /\ Left(file, missing, file', missing', k, n, line)
      BY <1>1, <1>5, <3>2, WriteLeaves
    <3>4. IsAbout(line, p, rule)
      BY <2>2, <1>6 DEF IsAbout
    <3>5. file'[i] = line
      BY <1>5, <3>2, <3>3, <3>4, LastAboutLeft DEF FileType, Worked
    <3> QED BY <3>1, <3>5, <1>1, <1>6
  <2>3. CASE ~(p = q /\ rule = event.rule)
    <3>1. ~IsAbout(line, p, rule)
      BY <2>3, <1>6 DEF IsAbout
    <3>2. ASSUME Silent(p, rule)', ~Silent(p, rule) PROVE FALSE
      <4>1. PICK n \in 1..Len(events[p[1]]) :
              PointInHand(p[1]) = p /\ events[p[1]][n].rule = rule
        BY <3>2 DEF Silent
      <4>2. p[1] = d
        BY <4>1, <3>2, <2>1, <1>7, <1>8 DEF Silent
      <4>3. n # 1
        BY <4>1, <4>2, <2>3, <1>4
      <4>4. n \in 2..Len(events[d])
        BY <4>2, <4>3, <1>4
      <4>5. n - 1 \in 1..Len(events'[d]) /\ events'[d][n - 1] = events[d][n]
        BY <4>4, <1>8
      <4> QED BY <4>1, <4>2, <4>5, <3>2, <1>7 DEF Silent
    <3> QED BY <3>1, <3>2, <2>1, <1>1, <1>3, <1>5, FileTellsAppend
  <2> QED BY <2>2, <2>3
<1> QED BY <1>9, <1>10, <1>11 DEF JournalInv

(***************************************************************************)
(* A line about no rule but STALE, whoever appends it, says nothing of the *)
(* others.                                                                 *)
(***************************************************************************)
LEMMA JournalOther ==
  ASSUME IInv, JournalInv, NEW line \in Line, line.kind # "ALARM" \/ line.rule = "STALE",
         Write(line),
         UNCHANGED <<active, events, inHand, restarts>>,
         \A d \in Device : worker'[d] = "evaluate" => worker[d] = "evaluate"
  PROVE  JournalInv'
<1>1. CleanAtEvaluate' /\ EventsTell'
  BY DEF CleanAtEvaluate, EventsTell, JournalInv, PointInHand
<1>2. FileTells'
  <2> SUFFICES ASSUME NEW p \in Point, NEW rule \in Worked PROVE FileTellsOf(p, rule)'
    BY DEF FileTells
  <2>1. FileTellsOf(p, rule) /\ TypeOK
    BY DEF JournalInv, FileTells, IInv
  <2>2. ~IsAbout(line, p, rule)
    BY DEF IsAbout, Worked
  <2>3. Silent(p, rule)' => Silent(p, rule)
    BY DEF Silent, PointInHand
  <2> QED BY <2>1, <2>2, <2>3, FileTellsAppend
<1> QED BY <1>1, <1>2 DEF JournalInv

(***************************************************************************)
(* The monitor touches STALE only.                                         *)
(***************************************************************************)
LEMMA JournalMonitor ==
  ASSUME IInv, JournalInv, MonitorScans
  PROVE  JournalInv'
<1>1. /\ active' = [p \in Point |-> IF p \in DOMAIN PointTable
                                     THEN EvaluateStale(IsStale(p), active[p]) ELSE active[p]]
      /\ UNCHANGED <<worker, events, inHand, file, missing, restarts>>
  BY DEF MonitorScans, handler, time, disk
<1>2. \A p \in Point, rule \in Worked : rule \in active'[p] <=> rule \in active[p]
  BY <1>1 DEF EvaluateStale, Worked
<1>3. CleanAtEvaluate'
  BY <1>1 DEF CleanAtEvaluate, JournalInv
<1>4. EventsTell'
  <2> SUFFICES ASSUME NEW e \in Device, NEW i \in 1..Len(events'[e]), events'[e][i].rule \in Worked
               PROVE  events'[e][i].raised = (events'[e][i].rule \in active'[PointInHand(e)'])
    BY DEF EventsTell
  <2>1. events[e] # << >>
    <3>1. Len(<< >>) = 0 /\ 1..0 = {}
      OBVIOUS
    <3> QED BY <3>1, <1>1
  <2>2. PointInHand(e) \in Point /\ PointInHand(e)' = PointInHand(e)
    BY <2>1, <1>1, InHandType DEF IInv, EventsWhileBusy, HasObject, PointInHand
  <2> QED BY <2>2, <1>1, <1>2 DEF EventsTell, JournalInv
<1>5. FileTells'
  <2> SUFFICES ASSUME NEW p \in Point, NEW rule \in Worked PROVE FileTellsOf(p, rule)'
    BY DEF FileTells
  <2>1. FileTellsOf(p, rule)
    BY DEF JournalInv, FileTells
  <2>2. Silent(p, rule)' => Silent(p, rule)
    BY <1>1 DEF Silent, PointInHand
  <2> QED BY <2>1, <2>2, <1>1, <1>2, FileTellsSame
<1> QED BY <1>3, <1>4, <1>5 DEF JournalInv

(***************************************************************************)
(* Every step keeps the file and the events to the alarms that stand.      *)
(***************************************************************************)
LEMMA JournalStep == IInv /\ JournalInv /\ [Next]_vars => JournalInv'
<1> SUFFICES ASSUME IInv, JournalInv, [Next]_vars PROVE JournalInv'
  OBVIOUS
<1>0. TypeOK
  BY DEF IInv
<1>1. CASE Rests
  <2>1. CleanAtEvaluate' /\ EventsTell'
    BY <1>1 DEF Rests, CleanAtEvaluate, EventsTell, JournalInv, PointInHand
  <2>2. FileTells'
    BY <1>1 DEF Rests, disk, FileTells, FileTellsOf, JournalInv, LastAbout, Silent, PointInHand
  <2> QED BY <2>1, <2>2 DEF JournalInv
<1>2. ASSUME NEW d \in Device, AppendBusiness(d) \/ AppendMeasurement(d)
      PROVE  JournalInv'
  <2>1. PointInHand(d) \in Point /\ inHand[d].snapshot \in Snapshot
    BY <1>2, InHandType DEF IInv, HasObject, Busy, AppendBusiness, AppendMeasurement
  <2>2. PICK kind \in {"BUSINESS", "MEASURE"} :
          Write(DataLine(kind, PointInHand(d), inHand[d].snapshot))
    BY <1>2 DEF AppendBusiness, AppendMeasurement
  <2>3. /\ DataLine(kind, PointInHand(d), inHand[d].snapshot) \in Line
        /\ DataLine(kind, PointInHand(d), inHand[d].snapshot).kind # "ALARM"
    BY <2>1, DataLineType DEF DataLine
  <2>4. /\ UNCHANGED <<active, events, inHand, restarts>>
        /\ \A e \in Device : worker'[e] = "evaluate" => worker[e] = "evaluate"
    BY <1>0, <1>2 DEF AppendBusiness, AppendMeasurement, Goto, TypeOK, alarms, time
  <2> QED BY <2>2, <2>3, <2>4, JournalOther
<1>3. CASE MonitorAppends
  <2>1. PICK event \in staleEvents : Write(AlarmLine(event.point, event))
    BY <1>3 DEF MonitorAppends
  <2>2. /\ event.point \in Point
        /\ event.rule = "STALE"
        /\ event.rule \in Rules
        /\ event.raised \in BOOLEAN
    BY <1>0 DEF TypeOK, Rules
  <2>3. /\ AlarmLine(event.point, event) \in Line
        /\ AlarmLine(event.point, event).rule = "STALE"
    BY <2>2, AlarmLineType DEF AlarmLine
  <2>4. UNCHANGED <<active, events, inHand, restarts, worker>>
    BY <1>3 DEF MonitorAppends, alarms, handler, time
  <2> QED BY <2>1, <2>3, <2>4, JournalOther
<1> QED BY <1>0, <1>1, <1>2, <1>3, ReportFrame, JournalRestart, JournalHand, JournalEvaluate,
           JournalAlarm, JournalMonitor

(***************************************************************************)
(* A worker has a line to append for each event.                           *)
(***************************************************************************)
LEMMA PendingType ==
  ASSUME IInv, NEW d \in Device
  PROVE  Pending(d) \in Seq(Line) /\ Len(Pending(d)) = Len(events[d])
<1>1. events[d] \in Seq(Event) /\ Len(events[d]) \in Nat
  BY LenProperties DEF IInv, TypeOK, Event
<1>2. \A i \in 1..Len(events[d]) : AlarmLine(PointInHand(d), events[d][i]) \in Line
  <2> TAKE i \in 1..Len(events[d])
  <2>1. events[d] # << >>
    <3>1. Len(<< >>) = 0 /\ 1..0 = {}
      OBVIOUS
    <3> QED BY <3>1
  <2>2. PointInHand(d) \in Point
    BY <2>1, InHandType DEF IInv, EventsWhileBusy, HasObject
  <2>3. events[d][i].rule \in Rules /\ events[d][i].raised \in BOOLEAN
    <3>1. events[d][i] \in Event
      BY <1>1, ElementOfSeq
    <3> QED BY <3>1 DEF Event
  <2> QED BY <2>2, <2>3, AlarmLineType
<1>3. Pending(d) \in [1..Len(events[d]) -> Line]
  BY <1>2 DEF Pending
<1>4. Pending(d) \in Seq(Line)
  BY <1>1, <1>3, SeqDef
<1>5. DOMAIN Pending(d) = 1..Len(events[d])
  BY DEF Pending
<1> QED BY <1>1, <1>4, <1>5, LenProperties

(***************************************************************************)
(* The strengthening says what JournalAgrees says.                         *)
(***************************************************************************)
LEMMA JournalTells == IInv /\ JournalInv => JournalAgrees
<1> SUFFICES ASSUME IInv, JournalInv, NEW p \in Point, NEW rule \in Worked,
                    <<p[1], p[2], rule>> \notin missing
             PROVE  LET told  == file \o Pending(p[1])
                        about == {i \in 1..Len(told) : IsAbout(told[i], p, rule)}
                    IN  \A i \in about :
                          (\A k \in about : k <= i) =>
                            /\ rule \in active[p] => told[i].raised
                            /\ told[i].raised /\ restarts = 0 => rule \in active[p]
  BY DEF JournalAgrees, Worked
<1> DEFINE d == p[1]
           told == file \o Pending(d)
<1>1. d \in Device /\ rule \in Rules
  BY DEF Point, Worked
<1>2. /\ Len(file) \in Nat /\ Len(events[d]) \in Nat
      /\ Len(told) = Len(file) + Len(events[d])
      /\ \A i \in 1..Len(file) : told[i] = file[i]
      /\ \A i \in 1..Len(events[d]) : told[Len(file) + i] = AlarmLine(PointInHand(d), events[d][i])
  <2>1. file \in Seq(Line) /\ Pending(d) \in Seq(Line) /\ Len(Pending(d)) = Len(events[d])
    BY <1>1, PendingType DEF IInv, TypeOK
  <2>2. \A i \in 1..Len(events[d]) : Pending(d)[i] = AlarmLine(PointInHand(d), events[d][i])
    BY DEF Pending
  <2>3. /\ Len(file) \in Nat /\ Len(Pending(d)) \in Nat
        /\ Len(told) = Len(file) + Len(Pending(d))
        /\ \A i \in 1..Len(file) : told[i] = file[i]
        /\ \A i \in 1..Len(Pending(d)) : told[Len(file) + i] = Pending(d)[i]
    <3> DEFINE pending == Pending(d)
    <3>1. file \in Seq(Line) /\ pending \in Seq(Line)
      BY <2>1
    <3> HIDE DEF pending
    <3>2. /\ Len(file) \in Nat /\ Len(pending) \in Nat
          /\ Len(file \o pending) = Len(file) + Len(pending)
          /\ \A i \in 1..Len(file) : (file \o pending)[i] = file[i]
          /\ \A i \in 1..Len(pending) : (file \o pending)[Len(file) + i] = pending[i]
      BY <3>1, ConcatProperties, LenProperties
    <3> QED BY <3>2 DEF pending
  <2> QED BY <2>1, <2>2, <2>3
<1> HIDE DEF told
<1> SUFFICES ASSUME NEW i \in 1..Len(told), IsAbout(told[i], p, rule),
                    \A k \in 1..Len(told) : IsAbout(told[k], p, rule) => k <= i
             PROVE  /\ rule \in active[p] => told[i].raised
                    /\ told[i].raised /\ restarts = 0 => rule \in active[p]
  BY DEF told
<1>3. CASE i \in 1..Len(file)
  <2>1. Silent(p, rule)
    <3> SUFFICES ASSUME NEW n \in 1..Len(events[d]), PointInHand(d) = p, events[d][n].rule = rule
                 PROVE  FALSE
      BY DEF Silent
    <3>1. /\ Len(file) + n \in 1..Len(told)
          /\ told[Len(file) + n] = AlarmLine(p, events[d][n])
      BY <1>2
    <3>2. IsAbout(told[Len(file) + n], p, rule)
      BY <3>1 DEF IsAbout, AlarmLine, PointOf, Point
    <3>3. Len(file) + n <= i
      BY <3>1, <3>2
    <3> QED BY <3>3, <1>2, <1>3
  <2>2. LastAbout(file, i, p, rule)
    <3>1. \A k \in 1..Len(file) : k \in 1..Len(told) /\ told[k] = file[k]
      BY <1>2
    <3> QED BY <3>1, <1>3 DEF LastAbout
  <2> QED BY <2>1, <2>2, <1>2, <1>3 DEF JournalInv, FileTells, FileTellsOf
<1>4. CASE i \notin 1..Len(file)
  <2> DEFINE n == i - Len(file)
  <2>1. n \in 1..Len(events[d]) /\ Len(file) + n = i
    BY <1>2, <1>4
  <2> HIDE DEF n
  <2>2. told[i] = AlarmLine(PointInHand(d), events[d][n])
    BY <2>1, <1>2
  <2>3. /\ PointOf(told[i]) = PointInHand(d)
        /\ told[i].rule = events[d][n].rule
        /\ told[i].raised = events[d][n].raised
    BY <2>2 DEF AlarmLine, PointOf, PointInHand
  <2>4. PointInHand(d) = p /\ events[d][n].rule = rule
    BY <2>3 DEF IsAbout
  <2> QED BY <2>1, <2>3, <2>4, <1>1 DEF JournalInv, EventsTell
<1> QED BY <1>3, <1>4

(***************************************************************************)
(* JournalAgrees: the file and the lines yet to append tell the truth      *)
(* about each rule that only the worker evaluates.                         *)
(***************************************************************************)
THEOREM JournalIsTrue == Spec => []JournalAgrees
<1>1. Init => IInv /\ JournalInv
  BY InductiveInit, JournalInit
<1>2. (IInv /\ JournalInv) /\ [Next]_vars => (IInv /\ JournalInv)'
  BY InductiveStep, JournalStep
<1>3. IInv /\ JournalInv => JournalAgrees
  BY JournalTells
<1> QED BY <1>1, <1>2, <1>3, PTL DEF Spec

-----------------------------------------------------------------------------
(* The measurement before a raised line. *)

(***************************************************************************)
(* Conditions looks at the fields of a snapshot that its line keeps.       *)
(***************************************************************************)
LEMMA ConditionsOfLine ==
  ASSUME NEW def, NEW kind, NEW p, NEW snap
  PROVE  Conditions(def, DataLine(kind, p, snap)) = Conditions(def, snap)
<1>1. /\ DataLine(kind, p, snap).value = snap.value
      /\ DataLine(kind, p, snap).state = snap.state
      /\ DataLine(kind, p, snap).quality = snap.quality
  BY DEF DataLine
<1> QED BY <1>1 DEF Conditions

(***************************************************************************)
(* A line that is appended leaves the raised lines explained, and the file *)
(* with an end, if it is explained itself and nothing failed.              *)
(***************************************************************************)
LEMMA ExplainedWrite ==
  ASSUME TypeOK, MeasureInv, NEW line \in Line, Write(line), failures' = 0,
         RaisedLine(line) =>
           \A j \in 1..Len(file) : LastMeasure(file, Len(file) + 1, j, PointOf(line)) =>
             line.rule \in Conditions(PointDefinitionFor(PointOf(line)), file[j])
  PROVE  failures = 0 /\ torn' = FALSE /\ Explained(file')
<1>1. FileType /\ FileType' /\ Len(file) \in Nat
  BY FileIsTyped, WriteLeaves, LenProperties DEF FileType
<1>2. failures = 0
  BY BoundsAssumption, <1>1 DEF Write, FileType
<1>3. /\ torn' = FALSE
      /\ \E k \in 0..Len(file) : Left(file, missing, file', missing', k, Len(file) - k, line)
  BY <1>1, CleanWriteLeaves
<1>4. PICK k \in 0..Len(file) : Left(file, missing, file', missing', k, Len(file) - k, line)
  BY <1>3
<1> DEFINE n == Len(file) - k
<1>5. /\ k \in Nat /\ n \in Nat /\ k + n <= Len(file)
      /\ n + k + 1 = Len(file) + 1
  BY <1>1
<1>6. /\ Len(file') \in {n, n + 1}
      /\ \A m \in 1..n : file'[m] = file[m + k]
      /\ Len(file') = n + 1 => file'[n + 1] \in {line, Damaged}
  BY <1>4 DEF Left
<1> HIDE DEF n
<1>7. ASSUME Len(file') = n + 1, RaisedLine(file'[n + 1]),
             NEW j \in 1..Len(file), LastMeasure(file, n + k + 1, j, PointOf(file'[n + 1]))
      PROVE  file'[n + 1].rule \in Conditions(PointDefinitionFor(PointOf(file'[n + 1])), file[j])
  <2>1. file'[n + 1] = line
    BY <1>6, <1>7 DEF RaisedLine, Damaged
  <2> QED BY <2>1, <1>5, <1>7
<1>8. file \in Seq(Line) /\ file' \in Seq(Line) /\ Explained(file)
  BY <1>1, <1>2 DEF FileType, MeasureInv
<1>9. Explained(file')
  BY <1>5, <1>6, <1>7, <1>8, ExplainedPiece
<1> QED BY <1>2, <1>3, <1>9

(***************************************************************************)
(* A line that is not a measure of a point whose worker appends its        *)
(* alarms, leaves the measure in its hand the last one.                    *)
(***************************************************************************)
LEMMA MeasureStays ==
  ASSUME TypeOK, NEW line \in Line, Write(line), failures' = 0,
         NEW p, ~IsMeasure(line, p), NEW j, LastMeasure(file', Len(file') + 1, j, p)
  PROVE  \E m \in 1..Len(file) : LastMeasure(file, Len(file) + 1, m, p) /\ file'[j] = file[m]
<1>1. FileType /\ FileType'
  BY FileIsTyped, WriteLeaves
<1>2. PICK k \in 0..Len(file) : Left(file, missing, file', missing', k, Len(file) - k, line)
  BY <1>1, CleanWriteLeaves
<1>3. file \in Seq(Line) /\ file' \in Seq(Line)
  BY <1>1 DEF FileType
<1>4. PICK n \in Nat : n = Len(file) - k /\ k + n = Len(file) /\ k \in Nat
  <2>1. Len(file) \in Nat
    BY <1>3, LenProperties
  <2>2. Len(file) - k \in Nat /\ k + (Len(file) - k) = Len(file) /\ k \in Nat
    BY <2>1
  <2> QED BY <2>2
<1>5. Left(file, missing, file', missing', k, n, line)
  BY <1>2, <1>4
<1> QED BY <1>3, <1>4, <1>5, LastMeasureOfAll

LEMMA MeasuredOther ==
  ASSUME TypeOK, MeasuredInHand, NEW line \in Line, Write(line), failures' = 0,
         inHand' = inHand,
         \A d \in Device : worker'[d] = "alarms" =>
           worker[d] = "alarms" /\ ~IsMeasure(line, PointInHand(d))
  PROVE  MeasuredInHand'
<1> SUFFICES ASSUME NEW d \in Device, worker'[d] = "alarms", NEW j \in 1..Len(file'),
                    LastMeasure(file', Len(file') + 1, j, PointInHand(d)')
             PROVE  file'[j] = DataLine("MEASURE", PointInHand(d)', inHand'[d].snapshot)
  BY DEF MeasuredInHand
<1>1. PointInHand(d)' = PointInHand(d)
  BY DEF PointInHand
<1>2. PICK n \in 1..Len(file) :
        LastMeasure(file, Len(file) + 1, n, PointInHand(d)) /\ file'[j] = file[n]
  BY <1>1, MeasureStays
<1> QED BY <1>1, <1>2 DEF MeasuredInHand

(***************************************************************************)
(* A worker appends data of its own point.                                 *)
(***************************************************************************)
LEMMA MeasureData ==
  ASSUME IInv, MeasureInv, NEW d \in Device, AppendBusiness(d) \/ AppendMeasurement(d)
  PROVE  MeasureInv'
<1> SUFFICES ASSUME failures' = 0
             PROVE  TornIsFresh' /\ MeasuredInHand' /\ Explained(file')
  BY DEF MeasureInv
<1> DEFINE q == PointInHand(d)
           snap == inHand[d].snapshot
<1>1. q \in Point /\ snap \in Snapshot /\ q[1] = d
  BY InHandType DEF IInv, HasObject, Busy, AppendBusiness, AppendMeasurement, PointInHand
<1>2. PICK kind \in {"BUSINESS", "MEASURE"} :
        /\ Write(DataLine(kind, q, snap))
        /\ \/ kind = "MEASURE" /\ worker[d] = "appendMeasure"
           \/ worker'[d] = "rememberMeasure"
  BY DEF AppendBusiness, AppendMeasurement, Goto, IInv, TypeOK
<1> DEFINE line == DataLine(kind, q, snap)
<1>3. /\ inHand' = inHand
      /\ \A e \in Device \ {d} : worker'[e] = worker[e]
      /\ worker[d] # "alarms"
  BY DEF AppendBusiness, AppendMeasurement, Goto, IInv, TypeOK
<1>4. /\ line \in Line
      /\ line.kind = kind
      /\ PointOf(line) = q
      /\ TypeOK
  BY <1>1, DataLineType DEF DataLine, PointOf, PointInHand, IInv
<1>5. failures = 0 /\ torn' = FALSE /\ Explained(file')
  <2>1. ~RaisedLine(line)
    BY <1>4 DEF RaisedLine
  <2> QED BY <2>1, <1>2, <1>4, ExplainedWrite
<1>6. TornIsFresh /\ MeasuredInHand
  BY <1>5 DEF MeasureInv
<1>7. MeasuredInHand'
  <2> SUFFICES ASSUME NEW e \in Device, worker'[e] = "alarms", NEW j \in 1..Len(file'),
                      LastMeasure(file', Len(file') + 1, j, PointInHand(e)')
               PROVE  file'[j] = DataLine("MEASURE", PointInHand(e)', inHand'[e].snapshot)
    BY DEF MeasuredInHand
  <2>1. PointInHand(e)' = PointInHand(e)
    BY <1>3 DEF PointInHand
  <2> HIDE DEF line
  <2>2. CASE e = d
    <3>1. kind = "MEASURE" /\ torn = FALSE
      BY <2>2, <1>2, <1>4, <1>6 DEF TornIsFresh, TypeOK
    <3>2. FileType /\ Write(line)
      BY <1>2, <1>4, FileIsTyped DEF line
    <3>3. PICK k \in 0..Len(file) :
            Len(file') = Len(file) - k + 1 /\ file'[Len(file) - k + 1] = line
      BY <3>1, <3>2, <1>4, CleanWriteLeaves
    <3>4. Len(file') \in 1..Len(file') /\ file'[Len(file')] = line
      BY <3>2, <3>3, LenProperties DEF FileType
    <3>5. IsMeasure(file'[Len(file')], q)
      BY <3>1, <3>4, <1>4 DEF IsMeasure
    <3>6. j = Len(file')
      BY <2>1, <2>2, <3>4, <3>5 DEF LastMeasure
    <3> QED BY <2>1, <2>2, <3>1, <3>4, <3>6, <1>3 DEF line
  <2>3. CASE e # d
    <3>1. worker[e] = "alarms"
      BY <2>3, <1>3
    <3>2. ~IsMeasure(line, PointInHand(e))
      BY <2>3, <1>1, <1>4 DEF IsMeasure, PointInHand
    <3>3. Write(line)
      BY <1>2 DEF line
    <3>4. PICK n \in 1..Len(file) :
            LastMeasure(file, Len(file) + 1, n, PointInHand(e)) /\ file'[j] = file[n]
      BY <2>1, <3>2, <3>3, <1>4, MeasureStays
    <3> QED BY <2>1, <3>1, <3>4, <1>3, <1>6 DEF MeasuredInHand
  <2> QED BY <2>2, <2>3
<1> QED BY <1>5, <1>7 DEF TornIsFresh

(***************************************************************************)
(* A worker appends an event of the object in its hand: if it was raised,  *)
(* the object meets its condition.                                         *)
(***************************************************************************)
LEMMA MeasureAlarm ==
  ASSUME IInv, JournalInv, MeasureInv, NEW d \in Device, AppendAlarm(d)
  PROVE  MeasureInv'
<1> SUFFICES ASSUME failures' = 0
             PROVE  TornIsFresh' /\ MeasuredInHand' /\ Explained(file')
  BY DEF MeasureInv
<1> DEFINE q == PointInHand(d)
           event == Head(events[d])
           line == AlarmLine(q, event)
<1>1. /\ worker[d] = "alarms"
      /\ events[d] # << >>
      /\ Write(line)
      /\ worker' = worker
      /\ inHand' = inHand
  BY DEF AppendAlarm
<1>2. q \in Point /\ q[1] = d
  BY <1>1, InHandType DEF IInv, HasObject, Busy, PointInHand
<1>3. /\ event \in Event
      /\ event = events[d][1]
      /\ 1 \in 1..Len(events[d])
  <2>1. events[d] \in Seq(Event)
    BY DEF IInv, TypeOK, Event
  <2> QED BY <2>1, <1>1, HeadTailProperties, EmptySeq, LenProperties
<1>4. /\ line \in Line
      /\ TypeOK
      /\ line.kind = "ALARM"
      /\ PointOf(line) = q
      /\ line.rule = event.rule
      /\ line.raised = event.raised
  BY <1>2, <1>3, AlarmLineType DEF Event, AlarmLine, PointOf, PointInHand, IInv
<1> HIDE DEF event, line
<1>5. MeasuredInHand /\ MeasuredInHand'
  <2>1. \A e \in Device : ~IsMeasure(line, PointInHand(e))
    BY <1>4 DEF IsMeasure
  <2>2. failures = 0
    BY <1>1, <1>4, BoundsAssumption DEF Write, TypeOK
  <2> QED BY <2>1, <2>2, <1>1, <1>4, MeasuredOther DEF MeasureInv
<1>6. ASSUME RaisedLine(line), NEW j \in 1..Len(file), LastMeasure(file, Len(file) + 1, j, q)
      PROVE  line.rule \in Conditions(PointDefinitionFor(q), file[j])
  <2>1. file[j] = DataLine("MEASURE", q, inHand[d].snapshot)
    BY <1>1, <1>5, <1>6 DEF MeasuredInHand
  <2>2. event.rule \in active[q] /\ event.rule # "STALE"
    BY <1>3, <1>4, <1>6 DEF RaisedLine, JournalInv, EventsTell, Worked, Event
  <2>3. /\ snapshots[q] = inHand[d].snapshot
        /\ inHand[d].snapshot \in Snapshot
    BY <1>1, InHandType DEF IInv, StoredInHand, HasObject, Busy
  <2>4. event.rule \in Conditions(PointDefinitionFor(q), inHand[d].snapshot)
    <3>1. snapshots[q] # NoSnapshot
      BY <2>3, DistinctValues
    <3>2. active[q] \ {"STALE"} = Conditions(PointDefinitionFor(q), snapshots[q])
      BY <3>1, <1>2 DEF IInv, AlarmsAgreeWithSnapshot
    <3> QED BY <3>2, <2>2, <2>3
  <2> QED BY <2>1, <2>4, <1>4, ConditionsOfLine
<1>7. torn' = FALSE /\ Explained(file')
  BY <1>1, <1>4, <1>6, ExplainedWrite
<1> QED BY <1>5, <1>7 DEF TornIsFresh

(***************************************************************************)
(* Every step keeps the raised lines explained.                            *)
(***************************************************************************)
LEMMA MeasureStep == IInv /\ JournalInv /\ MeasureInv /\ [Next]_vars => MeasureInv'
<1> SUFFICES ASSUME IInv, JournalInv, MeasureInv, [Next]_vars PROVE MeasureInv'
  OBVIOUS
<1>0. TypeOK /\ file \in Seq(Line)
  BY DEF IInv, TypeOK
<1>1. CASE Rests
  BY <1>1 DEF Rests, disk, MeasureInv, MeasuredInHand, PointInHand, TornIsFresh, Measuring
<1>2. CASE Restart
  <2> SUFFICES ASSUME failures' = 0
               PROVE  TornIsFresh' /\ MeasuredInHand' /\ Explained(file')
    BY DEF MeasureInv
  <2>1. worker' = [d \in Device |-> "off"] /\ failures' = failures
    BY <1>2 DEF Restart
  <2>2. PICK after \in {Disk, Trim(Disk)} \cup CutShort(Disk) : file' = after.file
    BY <1>2 DEF Restart
  <2>3. /\ file' \in Seq(Line)
        /\ \E k, n \in Nat : k + n <= Len(file) /\ Kept(Disk, after, k, n)
    BY <1>0, <2>2, FileIsTyped, RestLeaves
  <2>4. PICK k, n \in Nat : k + n <= Len(file) /\ Kept(Disk, after, k, n)
    BY <2>3
  <2>5. /\ Len(file') \in {n, n + 1}
        /\ \A m \in 1..n : file'[m] = file[m + k]
        /\ Len(file') = n + 1 => file'[n + 1] = Damaged
    BY <2>2, <2>4 DEF Kept, Disk
  <2>6. ~RaisedLine(Damaged)
    BY DEF RaisedLine, Damaged
  <2>7. Explained(file)
    BY <2>1 DEF MeasureInv
  <2>8. Explained(file')
    BY <1>0, <2>3, <2>4, <2>5, <2>6, <2>7, ExplainedPiece
  <2> QED BY <2>1, <2>8 DEF TornIsFresh, MeasuredInHand
<1>3. ASSUME NEW d \in Device, ReceiveObject(d) \/ EvaluateObject(d) \/ ObjectHandled(d)
      PROVE  MeasureInv'
  <2>1. /\ UNCHANGED disk
        /\ worker'[d] \notin Measuring \cup {"alarms"}
        /\ \A e \in Device \ {d} : worker'[e] = worker[e] /\ inHand'[e] = inHand[e]
    BY <1>0, <1>3 DEF ReceiveObject, EvaluateObject, ObjectHandled, Goto, TypeOK, Measuring
  <2>2. \A e \in Device \ {d} : PointInHand(e)' = PointInHand(e)
    BY <2>1 DEF PointInHand
  <2> QED BY <2>1, <2>2 DEF disk, MeasureInv, MeasuredInHand, TornIsFresh, Measuring
<1>4. CASE MonitorScans
  <2>1. UNCHANGED <<worker, inHand, disk>>
    BY <1>4 DEF MonitorScans, handler
  <2> QED BY <2>1 DEF disk, MeasureInv, MeasuredInHand, PointInHand, TornIsFresh
<1>5. CASE MonitorAppends
  <2>1. PICK event \in staleEvents : Write(AlarmLine(event.point, event))
    BY <1>5 DEF MonitorAppends
  <2>2. /\ event.point \in Point
        /\ event.rule = "STALE"
        /\ event.rule \in Rules
        /\ event.raised \in BOOLEAN
    BY <1>0 DEF TypeOK, Rules
  <2> DEFINE line == AlarmLine(event.point, event)
  <2>3. line \in Line /\ line.rule = "STALE" /\ line.kind = "ALARM"
    BY <2>2, AlarmLineType DEF AlarmLine
  <2>4. UNCHANGED <<worker, inHand>>
    BY <1>5 DEF MonitorAppends, handler
  <2>5. Write(line)
    BY <2>1
  <2> HIDE DEF line
  <2> SUFFICES ASSUME failures' = 0
               PROVE  TornIsFresh' /\ MeasuredInHand' /\ Explained(file')
    BY DEF MeasureInv
  <2>6. failures = 0 /\ torn' = FALSE /\ Explained(file')
    <3>1. ~RaisedLine(line)
      BY <2>3 DEF RaisedLine
    <3> QED BY <3>1, <2>3, <2>5, <1>0, ExplainedWrite
  <2>7. MeasuredInHand'
    <3>1. \A e \in Device : ~IsMeasure(line, PointInHand(e))
      BY <2>3 DEF IsMeasure
    <3> QED BY <3>1, <2>3, <2>4, <2>5, <2>6, <1>0, MeasuredOther DEF MeasureInv
  <2> QED BY <2>6, <2>7 DEF TornIsFresh
<1> QED BY <1>0, <1>1, <1>2, <1>3, <1>4, <1>5, ReportFrame, MeasureData, MeasureAlarm

(***************************************************************************)
(* RaisedLinesExplained: the measurement of the point before a RAISED      *)
(* line, if the trim left it there, meets the condition of the rule, if no *)
(* append failed, whether the process was killed within a trim or not.     *)
(***************************************************************************)
THEOREM RaisedIsExplained == Spec => []RaisedLinesExplained
<1>1. Init => IInv /\ JournalInv /\ MeasureInv
  <2>1. Len(<< >>) = 0 /\ 1..0 = {}
    OBVIOUS
  <2>2. Init => MeasureInv
    BY <2>1 DEF Init, MeasureInv, MeasuredInHand, Explained, TornIsFresh
  <2> QED BY <2>2, InductiveInit, JournalInit
<1>2. (IInv /\ JournalInv /\ MeasureInv) /\ [Next]_vars => (IInv /\ JournalInv /\ MeasureInv)'
  BY InductiveStep, JournalStep, MeasureStep
<1>3. MeasureInv => RaisedLinesExplained
  BY DEF MeasureInv, Explained, RaisedLine, LastMeasure, RaisedLinesExplained
<1> QED BY <1>1, <1>2, <1>3, PTL DEF Spec

-----------------------------------------------------------------------------
(* The report. *)

(***************************************************************************)
(* Of some numbers one is the first: what fails for a number of lines      *)
(* fails for a least number.                                               *)
(***************************************************************************)
LEMMA LeastExists ==
  ASSUME NEW S \in SUBSET Nat, S # {}
  PROVE  \E x \in S : \A y \in S : x <= y
<1>1. PICK x \in S : \A y \in S : <<y, x>> \notin OpToRel(<, Nat)
  <2> DEFINE R == OpToRel(<, Nat)
  <2>1. IsWellFoundedOn(R, Nat)
    BY NatLessThanWellFounded
  <2> HIDE DEF R
  <2> QED BY <2>1, WFMin DEF R
<1>2. \A y \in S : ~(y < x)
  BY <1>1 DEF OpToRel
<1> QED BY <1>2

(***************************************************************************)
(* What the loop has after each of the first n lines.                      *)
(***************************************************************************)
Replays(g, f, n) ==
    g = [i \in 0..n |-> IF i = 0 THEN EmptyReport ELSE Replayed(g[i - 1], f[i])]

LEMMA ReplayExists ==
  ASSUME NEW f, NEW n \in Nat
  PROVE  \E g : Replays(g, f, n)
<1> DEFINE Bad == {m \in Nat : ~\E g : Replays(g, f, m)}
<1> SUFFICES ASSUME Bad # {} PROVE FALSE
  OBVIOUS
<1>1. PICK m \in Bad : \A y \in Bad : m <= y
  BY LeastExists
<1>2. CASE m = 0
  <2> DEFINE g == [i \in 0..0 |-> EmptyReport]
  <2>1. g = [i \in 0..0 |-> IF i = 0 THEN EmptyReport ELSE Replayed(g[i - 1], f[i])]
    OBVIOUS
  <2>2. Replays(g, f, 0)
    BY <2>1 DEF Replays
  <2> QED BY <1>2, <2>2
<1>3. CASE m # 0
  <2>1. m - 1 \in Nat /\ m - 1 \notin Bad
    BY <1>1, <1>3
  <2>2. PICK h : Replays(h, f, m - 1)
    BY <2>1
  <2> DEFINE g == [i \in 0..m |-> IF i = m THEN Replayed(h[m - 1], f[m]) ELSE h[i]]
  <2>3. h = [i \in 0..(m - 1) |-> IF i = 0 THEN EmptyReport ELSE Replayed(h[i - 1], f[i])]
    BY <2>2 DEF Replays
  <2>4. \A i \in 0..m :
          g[i] = IF i = 0 THEN EmptyReport ELSE Replayed(g[i - 1], f[i])
    <3> TAKE i \in 0..m
    <3>1. CASE i = m
      <4>1. g[m - 1] = h[m - 1]
        BY <2>1
      <4> QED BY <3>1, <4>1, <1>3
    <3>2. CASE i # m /\ i # 0
      <4>1. g[i] = h[i] /\ g[i - 1] = h[i - 1] /\ i \in 0..(m - 1)
        BY <3>2
      <4> QED BY <3>2, <4>1, <2>3
    <3>3. CASE i # m /\ i = 0
      <4>1. g[i] = h[i] /\ i \in 0..(m - 1)
        BY <3>3
      <4> QED BY <3>3, <4>1, <2>3
    <3> QED BY <3>1, <3>2, <3>3
  <2>5. Replays(g, f, m)
    BY <2>4 DEF Replays
  <2> QED BY <2>5
<1> QED BY <1>2, <1>3

LEMMA ReportReplays ==
  ASSUME NEW f, Len(f) \in Nat
  PROVE  \E g : Replays(g, f, Len(f)) /\ Report(f) = g[Len(f)]
<1> DEFINE g == CHOOSE h : Replays(h, f, Len(f))
<1>1. Replays(g, f, Len(f))
  BY ReplayExists
<1>2. Report(f) = g[Len(f)]
  BY DEF Report, Replays
<1> QED BY <1>1, <1>2

(***************************************************************************)
(* The last line about an alarm among the first n lines, and what the      *)
(* report makes of these.                                                  *)
(***************************************************************************)
LastAlarm(f, n, i, a) ==
    /\ i \in 1..n
    /\ IsAbout(f[i], <<a[1], a[2]>>, a[3])
    /\ \A k \in 1..n : IsAbout(f[k], <<a[1], a[2]>>, a[3]) => k <= i

LastMeasures(f, n) == {f[j] : j \in {k \in 1..n : LastMeasure(f, n + 1, k, PointOf(f[k]))}}

RaisedLast(f, n) ==
    {a \in Device \X Address \X Rules : \E i \in 1..n : LastAlarm(f, n, i, a) /\ f[i].raised}

ReadTo(f, n) == [latestMeasures |-> LastMeasures(f, n), activeAlarms |-> RaisedLast(f, n)]

(***************************************************************************)
(* A measure replaces the one of its point, and no other line does.        *)
(***************************************************************************)
LEMMA MeasureReplaces ==
  ASSUME NEW f \in Seq(Line), NEW n \in Nat, n + 1 <= Len(f)
  PROVE  LastMeasures(f, n + 1) =
           IF f[n + 1].kind = "MEASURE"
           THEN {old \in LastMeasures(f, n) : PointOf(old) # PointOf(f[n + 1])} \cup {f[n + 1]}
           ELSE LastMeasures(f, n)
<1> DEFINE line == f[n + 1]
<1>1. ASSUME NEW j \in 1..n
      PROVE  LastMeasure(f, n + 2, j, PointOf(f[j])) <=>
               /\ LastMeasure(f, n + 1, j, PointOf(f[j]))
               /\ ~(line.kind = "MEASURE" /\ PointOf(f[j]) = PointOf(line))
  <2>1. \A k \in 1..(n + 1) : k \in 1..n \/ k = n + 1
    OBVIOUS
  <2> QED BY <2>1 DEF LastMeasure, IsMeasure
<1>2. LastMeasure(f, n + 2, n + 1, PointOf(line)) <=> line.kind = "MEASURE"
  BY DEF LastMeasure, IsMeasure
<1>3. \A j : j \in 1..(n + 1) <=> j \in 1..n \/ j = n + 1
  OBVIOUS
<1>4. (n + 1) + 1 = n + 2
  OBVIOUS
<1> HIDE DEF line
<1>5. CASE line.kind = "MEASURE"
  BY <1>1, <1>2, <1>3, <1>4, <1>5 DEF LastMeasures, line
<1>6. CASE line.kind # "MEASURE"
  BY <1>1, <1>2, <1>3, <1>4, <1>6 DEF LastMeasures, line
<1> QED BY <1>5, <1>6 DEF line

(***************************************************************************)
(* An alarm line decides about its alarm, and no other line does.          *)
(***************************************************************************)
LEMMA AlarmDecides ==
  ASSUME NEW f \in Seq(Line), NEW n \in Nat, n + 1 <= Len(f)
  PROVE  RaisedLast(f, n + 1) =
           IF f[n + 1].kind # "ALARM" THEN RaisedLast(f, n)
           ELSE IF f[n + 1].raised THEN RaisedLast(f, n) \cup {AlarmOf(f[n + 1])}
                ELSE RaisedLast(f, n) \ {AlarmOf(f[n + 1])}
<1> DEFINE line == f[n + 1]
           all == Device \X Address \X Rules
<1>1. line \in Line
  BY LenProperties, ElementOfSeq
<1>2. line.kind = "ALARM" => AlarmOf(line) \in all
  BY <1>1 DEF Line, Damaged, AlarmOf
<1>3. \A a \in all : IsAbout(line, <<a[1], a[2]>>, a[3]) <=> line.kind = "ALARM" /\ a = AlarmOf(line)
  BY DEF IsAbout, AlarmOf, PointOf
<1>4. \A k : k \in 1..(n + 1) <=> k \in 1..n \/ k = n + 1
  OBVIOUS
<1> HIDE DEF line, all
<1>5. ASSUME NEW a \in all, IsAbout(line, <<a[1], a[2]>>, a[3])
      PROVE  a \in RaisedLast(f, n + 1) <=> line.raised
  <2>1. LastAlarm(f, n + 1, n + 1, a)
    BY <1>5 DEF LastAlarm, line
  <2>2. \A i \in 1..(n + 1) : LastAlarm(f, n + 1, i, a) => i = n + 1
    BY <2>1 DEF LastAlarm
  <2> QED BY <2>1, <2>2 DEF RaisedLast, line, all
<1>6. ASSUME NEW a \in all, ~IsAbout(line, <<a[1], a[2]>>, a[3])
      PROVE  a \in RaisedLast(f, n + 1) <=> a \in RaisedLast(f, n)
  <2>1. ~LastAlarm(f, n + 1, n + 1, a)
    BY <1>6 DEF LastAlarm, line
  <2>2. \A i \in 1..n : LastAlarm(f, n + 1, i, a) <=> LastAlarm(f, n, i, a)
    BY <1>4, <1>6 DEF LastAlarm, line
  <2> QED BY <1>4, <2>1, <2>2 DEF RaisedLast, all
<1>7. RaisedLast(f, n + 1) \subseteq all /\ RaisedLast(f, n) \subseteq all
  BY DEF RaisedLast, all
<1> QED BY <1>2, <1>3, <1>5, <1>6, <1>7 DEF line

LEMMA ReadOneMore ==
  ASSUME NEW f \in Seq(Line), NEW n \in Nat, n + 1 <= Len(f)
  PROVE  Replayed(ReadTo(f, n), f[n + 1]) = ReadTo(f, n + 1)
<1>1. f[n + 1] \in Line
  BY LenProperties, ElementOfSeq
<1>2. CASE f[n + 1].kind = "MEASURE"
  BY <1>2, MeasureReplaces, AlarmDecides DEF Replayed, ReadTo
<1>3. CASE f[n + 1].kind = "ALARM" /\ f[n + 1].raised
  BY <1>3, MeasureReplaces, AlarmDecides DEF Replayed, ReadTo
<1>4. CASE f[n + 1].kind = "ALARM" /\ ~f[n + 1].raised
  BY <1>4, MeasureReplaces, AlarmDecides DEF Replayed, ReadTo
<1>5. CASE f[n + 1].kind \notin {"MEASURE", "ALARM"}
  BY <1>5, MeasureReplaces, AlarmDecides DEF Replayed, ReadTo
<1> QED BY <1>2, <1>3, <1>4, <1>5

(***************************************************************************)
(* The report of a file, of any length: the last measurement of each       *)
(* point, and each alarm whose last line says that it is raised.           *)
(***************************************************************************)
THEOREM ReportReadsLast ==
  ASSUME NEW f \in Seq(Line)
  PROVE  Report(f) = ReadTo(f, Len(f))
<1>1. Len(f) \in Nat
  BY LenProperties
<1>2. PICK g : Replays(g, f, Len(f)) /\ Report(f) = g[Len(f)]
  BY <1>1, ReportReplays
<1> DEFINE Bad == {n \in 0..Len(f) : g[n] # ReadTo(f, n)}
<1> SUFFICES ASSUME Bad # {} PROVE FALSE
  BY <1>1, <1>2
<1>3. PICK m \in Bad : \A n \in Bad : m <= n
  <2>1. Bad \in SUBSET Nat
    BY <1>1
  <2> HIDE DEF Bad
  <2> QED BY <2>1, LeastExists
<1>4. CASE m = 0
  <2>1. g[0] = EmptyReport
    BY <1>1, <1>2 DEF Replays
  <2>2. LastMeasures(f, 0) = {} /\ RaisedLast(f, 0) = {}
    BY DEF LastMeasures, RaisedLast
  <2>3. g[0] = ReadTo(f, 0)
    BY <2>1, <2>2 DEF ReadTo, EmptyReport
  <2> QED BY <2>3, <1>3, <1>4
<1>5. CASE m # 0
  <2> DEFINE n == m - 1
  <2>1. n \in Nat /\ n + 1 = m /\ n + 1 <= Len(f) /\ n \notin Bad /\ n \in 0..Len(f)
    BY <1>1, <1>3, <1>5
  <2>2. g[n] = ReadTo(f, n)
    BY <2>1
  <2>3. g[m] = Replayed(g[n], f[m])
    BY <1>2, <1>3, <1>5, <2>1 DEF Replays
  <2>4. g[m] = ReadTo(f, m)
    <3> HIDE DEF n
    <3> QED BY <2>1, <2>2, <2>3, ReadOneMore
  <2> QED BY <2>4, <1>3
<1> QED BY <1>4, <1>5

(***************************************************************************)
(* The object in the hand of a worker is that of the point, is stored and  *)
(* not yet in the file as a measure.                                       *)
(***************************************************************************)
OnItsWay(p) ==
    /\ worker[p[1]] \in {"rememberBusiness", "appendBusiness", "rememberMeasure", "appendMeasure"}
    /\ PointInHand(p[1]) = p

(***************************************************************************)
(* Unless its snapshot is on its way or the file has not got it, the last  *)
(* measure of a point is its snapshot, if the trim left a measure there.   *)
(***************************************************************************)
WrittenOf(p) ==
    snapshots[p] # NoSnapshot /\ ~OnItsWay(p) /\ Key(p, "MEASURE") \notin missing =>
      \A j \in 1..Len(file) : LastMeasure(file, Len(file) + 1, j, p) =>
        file[j] = DataLine("MEASURE", p, snapshots[p])

Written == \A p \in Point : WrittenOf(p)

(***************************************************************************)
(* A line that is no measure leaves the measures that are written.         *)
(***************************************************************************)
LEMMA WrittenKept ==
  ASSUME TypeOK, NEW p \in Point, WrittenOf(p), snapshots'[p] = snapshots[p],
         OnItsWay(p) => OnItsWay(p)',
         \/ UNCHANGED disk
         \/ \E line \in Line : ~IsMeasure(line, p) /\ Write(line)
  PROVE  WrittenOf(p)'
<1> SUFFICES ASSUME snapshots'[p] # NoSnapshot, ~OnItsWay(p)', Key(p, "MEASURE") \notin missing',
                    NEW j \in 1..Len(file'), LastMeasure(file', Len(file') + 1, j, p)
             PROVE  file'[j] = DataLine("MEASURE", p, snapshots'[p])
  BY DEF WrittenOf, Key
<1>1. /\ Key(p, "MEASURE") \notin missing
      /\ \E n \in 1..Len(file) : LastMeasure(file, Len(file) + 1, n, p) /\ file'[j] = file[n]
  <2>1. CASE UNCHANGED disk
    BY <2>1 DEF disk
  <2>2. ASSUME NEW line \in Line, ~IsMeasure(line, p), Write(line)
        PROVE  <1>1
    <3>1. FileType /\ FileType'
      BY <2>2, FileIsTyped, WriteLeaves
    <3>2. PICK k, n \in Nat :
            k + n <= Len(file) /\ Left(file, missing, file', missing', k, n, line)
      BY <2>2, <3>1, WriteLeaves
    <3> QED BY <2>2, <3>1, <3>2, LastMeasureLeft DEF FileType
  <2> QED BY <2>1, <2>2
<1> QED BY <1>1 DEF WrittenOf

(***************************************************************************)
(* An evaluation puts the snapshot on its way.                             *)
(***************************************************************************)
LEMMA WrittenEvaluate ==
  ASSUME IInv, Written, NEW d \in Device, EvaluateObject(d)
  PROVE  Written'
<1> DEFINE q == PointInHand(d)
<1>1. /\ worker[d] = "evaluate"
      /\ snapshots' = [snapshots EXCEPT ![q] = inHand[d].snapshot]
      /\ worker' = [worker EXCEPT ![d] = "rememberBusiness"]
      /\ UNCHANGED <<inHand, disk>>
  BY DEF EvaluateObject, Goto
<1>2. q \in Point /\ q[1] = d
  BY <1>1, InHandType DEF IInv, HasObject, Busy, PointInHand
<1> SUFFICES ASSUME NEW p \in Point PROVE WrittenOf(p)'
  BY DEF Written
<1>3. CASE p = q
  <2>1. OnItsWay(p)'
    BY <1>1, <1>2, <1>3 DEF OnItsWay, PointInHand, IInv, TypeOK
  <2> QED BY <2>1 DEF WrittenOf
<1>4. CASE p # q
  <2>1. snapshots'[p] = snapshots[p]
    BY <1>1, <1>4 DEF IInv, TypeOK
  <2>2. OnItsWay(p) => OnItsWay(p)'
    BY <1>1 DEF OnItsWay, PointInHand, Point, IInv, TypeOK
  <2> QED BY <1>1, <2>1, <2>2, WrittenKept DEF Written, IInv
<1> QED BY <1>3, <1>4

(***************************************************************************)
(* The snapshot that a worker appends is that of the system.               *)
(***************************************************************************)
LEMMA WrittenMeasure ==
  ASSUME IInv, Written, NEW d \in Device, AppendMeasurement(d)
  PROVE  Written'
<1> DEFINE q == PointInHand(d)
           line == DataLine("MEASURE", q, inHand[d].snapshot)
<1>1. /\ worker[d] = "appendMeasure"
      /\ Write(line)
      /\ worker' = [worker EXCEPT ![d] = "alarms"]
      /\ UNCHANGED <<inHand, snapshots>>
  BY DEF AppendMeasurement, Goto, alarms
<1>2. q \in Point /\ q[1] = d /\ inHand[d].snapshot \in Snapshot
  BY <1>1, InHandType DEF IInv, HasObject, Busy, PointInHand
<1>3. /\ line \in Line
      /\ line.kind = "MEASURE"
      /\ PointOf(line) = q
      /\ TypeOK
  BY <1>2, DataLineType DEF DataLine, PointOf, PointInHand, IInv
<1>4. snapshots[q] = inHand[d].snapshot
  BY <1>1 DEF IInv, StoredInHand, Busy
<1> SUFFICES ASSUME NEW p \in Point PROVE WrittenOf(p)'
  BY DEF Written
<1>5. CASE p = q
  <2> SUFFICES ASSUME Key(p, "MEASURE") \notin missing',
                      NEW j \in 1..Len(file'), LastMeasure(file', Len(file') + 1, j, p)
               PROVE  file'[j] = line
    BY <1>1, <1>4, <1>5 DEF WrittenOf, Key
  <2> HIDE DEF line, q
  <2>1. FileType /\ FileType'
    BY <1>1, <1>3, FileIsTyped, WriteLeaves
  <2>2. PICK k, n \in Nat :
          k + n <= Len(file) /\ Left(file, missing, file', missing', k, n, line)
    BY <1>1, <1>3, <2>1, WriteLeaves
  <2>3. IsMeasure(line, p)
    BY <1>3, <1>5 DEF IsMeasure
  <2> QED BY <1>3, <2>1, <2>2, <2>3, LastMeasureLeft DEF FileType
<1>6. CASE p # q
  <2>1. ~IsMeasure(line, p)
    BY <1>3, <1>6 DEF IsMeasure
  <2>2. OnItsWay(p) => OnItsWay(p)'
    BY <1>1, <1>2, <1>6 DEF OnItsWay, PointInHand, Point, IInv, TypeOK
  <2> QED BY <1>1, <1>3, <2>1, <2>2, WrittenKept DEF Written, IInv
<1> QED BY <1>5, <1>6

(***************************************************************************)
(* The other steps leave the snapshots and append no measure.              *)
(***************************************************************************)
AppendsNoMeasure ==
    /\ snapshots' = snapshots
    /\ \A p \in Point : OnItsWay(p) => OnItsWay(p)'
    /\ UNCHANGED disk \/ \E line \in Line : line.kind # "MEASURE" /\ Write(line)

LEMMA WrittenFrame ==
  ASSUME IInv, [Next]_vars
  PROVE  \/ Restart
         \/ \E d \in Device : EvaluateObject(d) \/ AppendMeasurement(d)
         \/ AppendsNoMeasure
<1> USE DEF process, link, handler, alarms, watch, memory, disk, time, Goto
<1>0. TypeOK
  BY DEF IInv
<1>1. CASE Tick \/ Start \/ Stop \/ Stopping \/ UNCHANGED vars
  <2>1. UNCHANGED disk /\ snapshots' = snapshots /\ inHand' = inHand
    BY <1>1 DEF Tick, Start, Stop, Stopping, StopClient, JoinWorker, JoinMonitor, vars
  <2>2. worker' = worker \/ main = "down"
    BY <1>1 DEF Tick, Start, Stop, Stopping, StopClient, JoinWorker, JoinMonitor, vars
  <2>3. \A p \in Point : OnItsWay(p) => OnItsWay(p)'
    BY <2>1, <2>2 DEF OnItsWay, PointInHand, Point, IInv, NotStarted
  <2> QED BY <2>1, <2>3 DEF AppendsNoMeasure
<1>2. ASSUME NEW d \in Device,
             \/ ConnectionChanged(d) \/ ReceiveFrame(d) \/ WorkerEnds(d)
             \/ FrameRefused(d) \/ FrameAccepted(d) \/ FrameHandled(d)
             \/ RememberBusiness(d) \/ RememberMeasurement(d)
             \/ ReceiveObject(d) \/ ObjectHandled(d)
      PROVE  AppendsNoMeasure
  <2>1. /\ UNCHANGED disk /\ snapshots' = snapshots
        /\ \A e \in Device \ {d} : inHand'[e] = inHand[e] /\ worker'[e] = worker[e]
    BY <1>0, <1>2 DEF ConnectionChanged, ReceiveFrame, WorkerEnds, FrameRefused, FrameAccepted,
              FrameHandled, RememberBusiness, RememberMeasurement, ReceiveObject, ObjectHandled,
              TypeOK
  <2>2. \/ worker[d] \in {"loop", "read", "frame", "alarms"}
        \/ /\ worker'[d] \in {"appendBusiness", "appendMeasure"}
           /\ inHand' = inHand
    BY <1>0, <1>2 DEF ConnectionChanged, ReceiveFrame, WorkerEnds, FrameRefused, FrameAccepted,
              FrameHandled, RememberBusiness, RememberMeasurement, ReceiveObject, ObjectHandled,
              TypeOK
  <2>3. \A p \in Point : OnItsWay(p) => OnItsWay(p)'
    <3> TAKE p \in Point
    <3>1. p[1] \in Device
      BY DEF Point
    <3>2. CASE p[1] = d
      BY <3>2, <2>2 DEF OnItsWay, PointInHand
    <3>3. CASE p[1] # d
      BY <3>1, <3>3, <2>1 DEF OnItsWay, PointInHand
    <3> QED BY <3>2, <3>3
  <2> QED BY <2>1, <2>3 DEF AppendsNoMeasure
<1>3. CASE MonitorChecks \/ MonitorWakes \/ MonitorScans \/ MonitorDone
  <2>1. UNCHANGED <<disk, snapshots, inHand, worker>>
    BY <1>3 DEF MonitorChecks, MonitorWakes, MonitorScans, MonitorDone
  <2> QED BY <2>1 DEF AppendsNoMeasure, OnItsWay, PointInHand
<1>4. CASE MonitorAppends
  <2>1. PICK event \in staleEvents : Write(AlarmLine(event.point, event))
    BY <1>4 DEF MonitorAppends
  <2>2. event.point \in Point /\ event.rule \in Rules /\ event.raised \in BOOLEAN
    BY <1>0 DEF TypeOK, Rules
  <2>3. /\ AlarmLine(event.point, event) \in Line
        /\ AlarmLine(event.point, event).kind = "ALARM"
    BY <2>2, AlarmLineType DEF AlarmLine
  <2>4. UNCHANGED <<snapshots, inHand, worker>>
    BY <1>4 DEF MonitorAppends
  <2> QED BY <2>1, <2>3, <2>4 DEF AppendsNoMeasure, OnItsWay, PointInHand
<1>5. ASSUME NEW d \in Device, AppendBusiness(d)
      PROVE  AppendsNoMeasure
  <2>1. PointInHand(d) \in Point /\ inHand[d].snapshot \in Snapshot
    BY <1>5, InHandType DEF IInv, HasObject, Busy, AppendBusiness
  <2> DEFINE line == DataLine("BUSINESS", PointInHand(d), inHand[d].snapshot)
  <2>2. line \in Line /\ line.kind = "BUSINESS" /\ Write(line)
    BY <1>5, <2>1, DataLineType DEF DataLine, AppendBusiness
  <2>3. /\ snapshots' = snapshots /\ inHand' = inHand
        /\ worker' = [worker EXCEPT ![d] = "rememberMeasure"]
    BY <1>5 DEF AppendBusiness
  <2>4. \A p \in Point : OnItsWay(p) => OnItsWay(p)'
    BY <2>3, <1>0 DEF OnItsWay, PointInHand, Point, TypeOK
  <2> HIDE DEF line
  <2> QED BY <2>2, <2>3, <2>4 DEF AppendsNoMeasure
<1>6. ASSUME NEW d \in Device, AppendAlarm(d)
      PROVE  AppendsNoMeasure
  <2>1. /\ UNCHANGED <<snapshots, inHand, worker>>
        /\ worker[d] = "alarms" /\ events[d] # << >>
        /\ Write(AlarmLine(PointInHand(d), Head(events[d])))
    BY <1>6 DEF AppendAlarm
  <2>2. PointInHand(d) \in Point
    BY <2>1, InHandType DEF IInv, HasObject, Busy
  <2>3. Head(events[d]) \in Event
    <3>1. events[d] \in Seq(Event)
      BY <1>0 DEF TypeOK, Event
    <3> QED BY <3>1, <2>1, HeadTailProperties
  <2> DEFINE line == AlarmLine(PointInHand(d), Head(events[d]))
  <2>4. line \in Line /\ line.kind = "ALARM" /\ Write(line)
    BY <2>1, <2>2, <2>3, AlarmLineType DEF AlarmLine, Event
  <2> HIDE DEF line
  <2> QED BY <2>1, <2>4 DEF AppendsNoMeasure, OnItsWay, PointInHand
<1> QED BY <1>1, <1>2, <1>3, <1>4, <1>5, <1>6 DEF Next, Handle, Monitor

(***************************************************************************)
(* Every step keeps the snapshots written or on their way.                 *)
(***************************************************************************)
LEMMA WrittenStep == IInv /\ Written /\ [Next]_vars => Written'
<1> SUFFICES ASSUME IInv, Written, [Next]_vars PROVE Written'
  OBVIOUS
<1>1. CASE Restart
  <2>1. \A p \in Point : snapshots'[p] = NoSnapshot
    BY <1>1 DEF Restart
  <2> QED BY <2>1 DEF Written, WrittenOf
<1>2. CASE AppendsNoMeasure
  <2> SUFFICES ASSUME NEW p \in Point PROVE WrittenOf(p)'
    BY DEF Written
  <2>1. /\ TypeOK /\ WrittenOf(p) /\ snapshots'[p] = snapshots[p]
        /\ OnItsWay(p) => OnItsWay(p)'
        /\ UNCHANGED disk \/ \E line \in Line : ~IsMeasure(line, p) /\ Write(line)
    BY <1>2 DEF AppendsNoMeasure, Written, IInv, IsMeasure
  <2> QED BY <2>1, WrittenKept
<1> QED BY <1>1, <1>2, WrittenFrame, WrittenEvaluate, WrittenMeasure

(***************************************************************************)
(* The report shows the last measure of a point.                           *)
(***************************************************************************)
LEMMA WrittenIsShown == IInv /\ Written => ReportShowsLatest
<1> SUFFICES ASSUME IInv, Written, NEW measure \in Reported.latestMeasures,
                    worker[PointOf(measure)[1]] \in {"loop", "read", "frame", "done"},
                    snapshots[PointOf(measure)] # NoSnapshot,
                    Key(PointOf(measure), "MEASURE") \notin missing
             PROVE  measure = DataLine("MEASURE", PointOf(measure), snapshots[PointOf(measure)])
  BY DEF ReportShowsLatest, Key
<1>1. file \in Seq(Line)
  BY DEF IInv, TypeOK
<1>2. measure \in LastMeasures(file, Len(file))
  BY <1>1, ReportReadsLast DEF Reported, ReadTo
<1>3. PICK j \in 1..Len(file) :
        LastMeasure(file, Len(file) + 1, j, PointOf(measure)) /\ measure = file[j]
  BY <1>2 DEF LastMeasures
<1>4. PointOf(measure) \in Point
  <2>1. measure \in Line /\ measure.kind = "MEASURE"
    BY <1>1, <1>3, ElementOfSeq DEF LastMeasure, IsMeasure
  <2> QED BY <2>1 DEF Line, Damaged, PointOf, Point
<1>5. ~OnItsWay(PointOf(measure))
  BY DEF OnItsWay
<1> QED BY <1>3, <1>4, <1>5 DEF Written, WrittenOf

(***************************************************************************)
(* ReportShowsLatest: the measurement that the report shows of a point is  *)
(* its snapshot, once the worker is done with the object and if the file   *)
(* got the line, whatever the trim dropped, however other threads append   *)
(* in between, and whatever became of their lines.                         *)
(***************************************************************************)
THEOREM ReportIsLatest == Spec => []ReportShowsLatest
<1>1. Init => IInv /\ Written
  <2>1. Init => Written
    BY DEF Init, Written, WrittenOf
  <2> QED BY <2>1, InductiveInit
<1>2. (IInv /\ Written) /\ [Next]_vars => (IInv /\ Written)'
  BY InductiveStep, WrittenStep
<1> QED BY <1>1, <1>2, WrittenIsShown, PTL DEF Spec

(***************************************************************************)
(* WorkedAlarmsStand: an alarm that the report lists stands, except for    *)
(* STALE, after a restart, while the worker has yet to append, and where   *)
(* the file has not got the last line about it.                            *)
(***************************************************************************)
THEOREM ReportedWorkedAlarmsStand == Spec => []WorkedAlarmsStand
<1>1. Init => IInv /\ JournalInv
  BY InductiveInit, JournalInit
<1>2. (IInv /\ JournalInv) /\ [Next]_vars => (IInv /\ JournalInv)'
  BY InductiveStep, JournalStep
<1>3. IInv /\ JournalInv => WorkedAlarmsStand
  <2> SUFFICES ASSUME IInv, JournalInv, restarts = 0, NEW a \in Reported.activeAlarms,
                      a[3] # "STALE", a \notin missing,
                      worker[a[1]] \in {"off", "loop", "read", "frame", "done"}
               PROVE  a \in Standing
    BY DEF WorkedAlarmsStand
  <2> DEFINE p == <<a[1], a[2]>>
  <2>1. file \in Seq(Line) /\ Len(file) \in Nat
    BY LenProperties DEF IInv, TypeOK
  <2>2. a \in RaisedLast(file, Len(file))
    BY <2>1, ReportReadsLast DEF Reported, ReadTo
  <2>3. PICK i \in 1..Len(file) : LastAlarm(file, Len(file), i, a) /\ file[i].raised
    BY <2>2 DEF RaisedLast
  <2>4. /\ a \in Device \X Address \X Rules
        /\ p \in Point /\ p[1] = a[1] /\ a[3] \in Worked
    BY <2>2 DEF RaisedLast, Point, Worked
  <2>5. LastAbout(file, i, p, a[3])
    BY <2>3 DEF LastAlarm, LastAbout
  <2>6. Silent(p, a[3])
    <3>1. events[a[1]] = << >>
      BY <2>4 DEF IInv, EventsWhileBusy, Busy
    <3>2. Len(<< >>) = 0 /\ 1..0 = {}
      OBVIOUS
    <3> QED BY <3>1, <3>2, <2>4 DEF Silent
  <2>7. a[3] \in active[p]
    <3>1. <<p[1], p[2], a[3]>> \notin missing
      BY <2>4
    <3> QED BY <3>1, <2>3, <2>4, <2>5, <2>6 DEF JournalInv, FileTells, FileTellsOf
  <2>8. a = <<a[1], a[2], a[3]>> /\ a[3] \in Rules
    BY <2>4
  <2> HIDE DEF p
  <2>9. a[1] \in Device /\ a[2] \in Address /\ a[3] \in Rules
    BY <2>4
  <2> QED BY <2>4, <2>7, <2>8, <2>9 DEF Standing, p, Point
<1> QED BY <1>1, <1>2, <1>3, PTL DEF Spec

=============================================================================
