------------------------- MODULE ScadaSystemProofs --------------------------
(***************************************************************************)
(* Theorems about ScadaSystem, for every set of devices and addresses,     *)
(* every point table and all values of the bounds.                         *)
(***************************************************************************)
EXTENDS ScadaSystem, SequenceTheorems, TLAPS

-----------------------------------------------------------------------------
(* What the operators return. *)

(***************************************************************************)
(* A point has a definition, configured or not.                            *)
(***************************************************************************)
LEMMA DefinitionType ==
  ASSUME NEW p \in Point
  PROVE  PointDefinitionFor(p) \in PointDefinition
BY PointTableAssumption DEF PointDefinitionFor, Fallback, PointDefinition

(***************************************************************************)
(* A snapshot calls for known rules, and never for STALE.                  *)
(***************************************************************************)
LEMMA ConditionsType ==
  ASSUME NEW def, NEW snap
  PROVE  Conditions(def, snap) \subseteq Evaluated(def) \ {"STALE"}
BY DEF Conditions, Evaluated

(***************************************************************************)
(* The rules that an evaluation decides are known rules, and STALE is      *)
(* always one of them: evaluate() ends with transition(STALE, false).      *)
(***************************************************************************)
LEMMA EvaluatedType ==
  ASSUME NEW def
  PROVE  /\ Evaluated(def) \subseteq Rules
         /\ "STALE" \in Evaluated(def)
BY DEF Evaluated, Rules

(***************************************************************************)
(* An evaluation leaves a set of known rules.                              *)
(***************************************************************************)
LEMMA EvaluateType ==
  ASSUME NEW def, NEW snap, NEW rules \in SUBSET Rules
  PROVE  Evaluate(def, snap, rules) \in SUBSET Rules
BY ConditionsType, EvaluatedType DEF Evaluate

Event == [rule : Rules, raised : BOOLEAN]

(***************************************************************************)
(* transition() yields at most one event, of the rule it was asked about.  *)
(***************************************************************************)
LEMMA TransitionType ==
  ASSUME NEW rule \in Rules, NEW before, NEW after
  PROVE  Transition(rule, before, after) \in Seq(Event)
<1>1. [rule |-> rule, raised |-> rule \in after] \in Event
  BY DEF Event
<1> QED BY <1>1, EmptySeq DEF Transition

(***************************************************************************)
(* The events of an evaluation are a sequence of events.                   *)
(***************************************************************************)
LEMMA EventsType ==
  ASSUME NEW before, NEW after
  PROVE  Events(before, after) \in Seq(Event)
<1>1. \A rule \in Rules : Transition(rule, before, after) \in Seq(Event)
  BY TransitionType
<1>2. \A s, t \in Seq(Event) : s \o t \in Seq(Event)
  BY ConcatProperties
<1> QED BY <1>1, <1>2 DEF Events, Rules

(***************************************************************************)
(* Newest returns the end of a sequence.                                   *)
(***************************************************************************)
LEMMA NewestIs ==
  ASSUME NEW S, NEW seq \in Seq(S), NEW n \in Nat
  PROVE  /\ Newest(seq, n) \in Seq(S)
         /\ \E k \in 0..Len(seq) :
              /\ Len(Newest(seq, n)) = Len(seq) - k
              /\ \A i \in 1..(Len(seq) - k) : Newest(seq, n)[i] = seq[i + k]
<1>1. Len(seq) \in Nat
  BY LenProperties
<1>2. CASE Len(seq) <= n
  <2>1. /\ Newest(seq, n) = seq
        /\ 0 \in 0..Len(seq)
        /\ Len(seq) - 0 = Len(seq)
        /\ \A i \in 1..Len(seq) : i + 0 = i
    BY <1>1, <1>2 DEF Newest
  <2> QED BY <2>1
<1>3. CASE ~(Len(seq) <= n)
  <2> DEFINE k == Len(seq) - n
             m == k + 1
  <2>1. k \in 0..Len(seq) /\ m \in 1..Len(seq) + 1 /\ Len(seq) - k = n
    BY <1>1, <1>3
  <2>2. \A i \in m..Len(seq) : seq[i] \in S
    BY <2>1, <1>1, ElementOfSeq
  <2>3. Newest(seq, n) = SubSeq(seq, m, Len(seq))
    BY <1>3 DEF Newest
  <2>4. /\ SubSeq(seq, m, Len(seq)) \in Seq(S)
        /\ Len(SubSeq(seq, m, Len(seq))) = IF m <= Len(seq) THEN Len(seq) - m + 1 ELSE 0
        /\ \A i \in 1..(Len(seq) - m + 1) : SubSeq(seq, m, Len(seq))[i] = seq[m + i - 1]
    BY <2>1, <2>2, <1>1, SubSeqProperties
  <2>5. /\ (IF m <= Len(seq) THEN Len(seq) - m + 1 ELSE 0) = Len(seq) - k
        /\ Len(seq) - m + 1 = Len(seq) - k
        /\ \A i \in 1..(Len(seq) - k) : m + i - 1 = i + k
    BY <2>1, <1>1
  <2> HIDE DEF m, k
  <2> QED BY <2>1, <2>3, <2>4, <2>5
<1> QED BY <1>2, <1>3

(***************************************************************************)
(* recentBusiness_ keeps its elements' type.                               *)
(***************************************************************************)
LEMMA RememberRecentType ==
  ASSUME NEW S, NEW seq \in Seq(S), NEW line \in S
  PROVE  RememberRecent(seq, line) \in Seq(S)
<1>1. MaxRecords \in Nat
  BY MaxRecordsAssumption
<1>2. Append(seq, line) \in Seq(S)
  OBVIOUS
<1> QED BY <1>1, <1>2, NewestIs DEF RememberRecent

-----------------------------------------------------------------------------
(* What an append leaves of the file. *)

Subjects == Device \X Address \X (Rules \cup {"MEASURE"})

DiskType == [file : Seq(Line), torn : BOOLEAN, missing : SUBSET Subjects]

FileType ==
    /\ file \in Seq(Line)
    /\ torn \in BOOLEAN
    /\ failures \in 0..MaxFailures
    /\ missing \subseteq Subjects

LEMMA SubjectType ==
  ASSUME NEW line \in Line
  PROVE  Subject(line) \subseteq Subjects
BY DEF Subject, Subjects, Line, Damaged

(***************************************************************************)
(* The n lines of disk d from line k + 1 on are those of disk e, which has *)
(* possibly a cut one behind them.  What e does not miss, d does not, and  *)
(* no line about it was lost at the end.                                   *)
(***************************************************************************)
Kept(d, e, k, n) ==
    /\ \/ Len(e.file) = n
       \/ Len(e.file) = n + 1 /\ e.file[n + 1] = Damaged /\ e.torn
    /\ \A i \in 1..n : e.file[i] = d.file[i + k]
    /\ \A about \in Subjects : about \notin e.missing =>
         /\ about \notin d.missing
         /\ \A i \in (k + n + 1)..Len(d.file) : about \notin Subject(d.file[i])

(***************************************************************************)
(* What is left of a file after an append: a piece of the old one, and     *)
(* possibly the new line or a damaged one.  What is not missing after it,  *)
(* the new line says, or some line of the piece does if one of the old     *)
(* file did.                                                               *)
(***************************************************************************)
Left(f, lost, g, lostAfter, k, n, line) ==
    /\ Len(g) \in {n, n + 1}
    /\ \A i \in 1..n : g[i] = f[i + k]
    /\ Len(g) = n + 1 => g[n + 1] \in {line, Damaged}
    /\ \A about \in Subjects : about \notin lostAfter =>
         \/ about \in Subject(line) /\ Len(g) = n + 1 /\ g[n + 1] = line
         \/ /\ about \notin Subject(line)
            /\ about \notin lost
            /\ \A i \in (k + n + 1)..Len(f) : about \notin Subject(f[i])

(***************************************************************************)
(* Nothing done keeps all.                                                 *)
(***************************************************************************)
LEMMA KeptSelf ==
  ASSUME NEW d \in DiskType
  PROVE  Kept(d, d, 0, Len(d.file))
<1>1. Len(d.file) \in Nat
  BY LenProperties DEF DiskType
<1>2. \A i \in 1..Len(d.file) : i + 0 = i
  OBVIOUS
<1>3. (0 + Len(d.file) + 1)..Len(d.file) = {}
  BY <1>1
<1> QED BY <1>1, <1>2, <1>3 DEF Kept

(***************************************************************************)
(* The trim keeps the end of the file.                                     *)
(***************************************************************************)
LEMMA KeptTrim ==
  ASSUME NEW d \in DiskType
  PROVE  /\ Trim(d) \in DiskType
         /\ Trim(d).torn => d.torn
         /\ \E k \in 0..Len(d.file) : Kept(d, Trim(d), k, Len(d.file) - k)
<1>1. d.file \in Seq(Line) /\ Len(d.file) \in Nat /\ MaxRecords \in Nat
  BY MaxRecordsAssumption, LenProperties DEF DiskType
<1>2. CASE Len(d.file) <= MaxRecords
  <2>1. Trim(d) = d
    BY <1>2 DEF Trim
  <2>2. 0 \in 0..Len(d.file) /\ Len(d.file) - 0 = Len(d.file)
    BY <1>1
  <2> QED BY <2>1, <2>2, KeptSelf
<1>3. CASE ~(Len(d.file) <= MaxRecords)
  <2> DEFINE kept == Newest(d.file, MaxRecords)
  <2>1. PICK k \in 0..Len(d.file) :
          /\ kept \in Seq(Line)
          /\ Len(kept) = Len(d.file) - k
          /\ \A i \in 1..(Len(d.file) - k) : kept[i] = d.file[i + k]
    BY <1>1, NewestIs
  <2> HIDE DEF kept
  <2>2. /\ Trim(d) = [d EXCEPT !.file = kept, !.torn = FALSE]
        /\ Trim(d).file = kept
        /\ Trim(d).torn = FALSE
        /\ Trim(d).missing = d.missing
    BY <1>3 DEF Trim, DiskType, kept
  <2>3. Trim(d) \in DiskType
    BY <2>1, <2>2 DEF DiskType
  <2>4. (k + (Len(d.file) - k) + 1)..Len(d.file) = {}
    BY <1>1
  <2>5. Kept(d, Trim(d), k, Len(d.file) - k)
    BY <2>1, <2>2, <2>4 DEF Kept
  <2> QED BY <2>2, <2>3, <2>5
<1> QED BY <1>2, <1>3

(***************************************************************************)
(* A trim that stops short keeps a piece of the middle, and knows what     *)
(* else it had.                                                            *)
(***************************************************************************)
LEMMA KeptCut ==
  ASSUME NEW d \in DiskType, NEW e \in CutShort(d)
  PROVE  /\ e \in DiskType
         /\ \E k, n \in Nat : k + n <= Len(d.file) /\ Kept(d, e, k, n)
<1> DEFINE kept == Newest(d.file, MaxRecords)
<1>1. d.file \in Seq(Line) /\ Len(d.file) \in Nat /\ MaxRecords \in Nat
  BY MaxRecordsAssumption, LenProperties DEF DiskType
<1>2. PICK k \in 0..Len(d.file) :
        /\ kept \in Seq(Line)
        /\ Len(kept) = Len(d.file) - k
        /\ \A i \in 1..(Len(d.file) - k) : kept[i] = d.file[i + k]
  BY <1>1, NewestIs
<1>3. PICK n \in 0..(Len(kept) - 1), part \in {<< >>, <<Damaged>>} :
        e = [file |-> SubSeq(kept, 1, n) \o part,
             torn |-> part # << >>,
             missing |-> d.missing \cup UNION {Subject(kept[i]) : i \in (n + 1)..Len(kept)}]
  <2> DEFINE Cut(n, part) ==
        [file |-> SubSeq(kept, 1, n) \o part,
         torn |-> part # << >>,
         missing |-> d.missing \cup UNION {Subject(kept[i]) : i \in (n + 1)..Len(kept)}]
  <2>1. CutShort(d) = IF Len(d.file) <= MaxRecords THEN {}
                      ELSE {Cut(n, part) : n \in 0..(Len(kept) - 1), part \in {<< >>, <<Damaged>>}}
    BY DEF CutShort
  <2> HIDE DEF Cut, kept
  <2>2. \E n \in 0..(Len(kept) - 1), part \in {<< >>, <<Damaged>>} : e = Cut(n, part)
    BY <2>1
  <2> QED BY <2>2 DEF Cut
<1> HIDE DEF kept
<1>4. k \in Nat /\ n \in Nat /\ n < Len(kept) /\ k + n <= Len(d.file)
  BY <1>1, <1>2, <1>3
<1> DEFINE piece == SubSeq(kept, 1, n)
<1>5. piece \in Seq(Line) /\ Len(piece) = n /\ \A i \in 1..n : piece[i] = kept[i]
  <2>1. \A i \in 1..n : kept[i] \in Line
    BY <1>2, <1>4, ElementOfSeq
  <2>2. 1 \in 1..(Len(kept) + 1) /\ n \in 0..Len(kept)
    BY <1>1, <1>2, <1>4
  <2>3. /\ SubSeq(kept, 1, n) \in Seq(Line)
        /\ Len(SubSeq(kept, 1, n)) = IF 1 <= n THEN n - 1 + 1 ELSE 0
        /\ \A i \in 1..(n - 1 + 1) : SubSeq(kept, 1, n)[i] = kept[1 + i - 1]
    BY <2>1, <2>2, <1>2, <1>4, SubSeqProperties
  <2>4. n - 1 + 1 = n /\ \A i \in 1..n : 1 + i - 1 = i
    BY <1>4
  <2> QED BY <2>3, <2>4, <1>4
<1> HIDE DEF piece
<1>6. Damaged \in Line
  BY DEF Line
<1>7. /\ part \in Seq(Line)
      /\ Len(part) \in {0, 1}
      /\ part # << >> <=> Len(part) = 1
      /\ Len(part) = 1 => part[1] = Damaged
  <2>1. CASE part = << >>
    BY <2>1, EmptySeq
  <2>2. CASE part = <<Damaged>>
    <3>1. Len(<<Damaged>>) = 1 /\ <<Damaged>>[1] = Damaged /\ <<Damaged>> # << >>
      OBVIOUS
    <3> QED BY <2>2, <3>1, <1>6
  <2> QED BY <2>1, <2>2
<1>8. /\ e.file \in Seq(Line)
      /\ Len(e.file) = n + Len(part)
      /\ \A i \in 1..n : e.file[i] = kept[i]
      /\ Len(part) = 1 => e.file[n + 1] = Damaged
  <2>1. e.file = piece \o part
    BY <1>3 DEF piece
  <2>2. /\ piece \o part \in Seq(Line)
        /\ Len(piece \o part) = Len(piece) + Len(part)
        /\ \A i \in 1..Len(piece) : (piece \o part)[i] = piece[i]
        /\ \A i \in 1..Len(part) : (piece \o part)[Len(piece) + i] = part[i]
    BY <1>5, <1>7, ConcatProperties
  <2> QED BY <2>1, <2>2, <1>5, <1>7
<1>9. e.torn \in BOOLEAN /\ (e.torn <=> Len(part) = 1)
  BY <1>3, <1>7
<1>10. /\ e.missing \subseteq Subjects
       /\ \A about : about \notin e.missing =>
            about \notin d.missing /\ \A i \in (n + 1)..Len(kept) : about \notin Subject(kept[i])
  <2>1. e.missing = d.missing \cup UNION {Subject(kept[i]) : i \in (n + 1)..Len(kept)}
    BY <1>3
  <2>2. ASSUME NEW i \in (n + 1)..Len(kept) PROVE Subject(kept[i]) \subseteq Subjects
    <3>1. kept[i] \in Line
      BY <1>1, <1>2, <1>4, ElementOfSeq
    <3> QED BY <3>1, SubjectType
  <2>3. d.missing \subseteq Subjects
    BY DEF DiskType
  <2> QED BY <2>1, <2>2, <2>3
<1>11. e \in DiskType
  BY <1>3, <1>8, <1>9, <1>10 DEF DiskType
<1>12. ASSUME NEW about \in Subjects, about \notin e.missing,
              NEW i \in (k + n + 1)..Len(d.file)
       PROVE  about \notin Subject(d.file[i])
  <2> DEFINE m == i - k
  <2>1. m \in (n + 1)..Len(kept) /\ m \in 1..(Len(d.file) - k) /\ m + k = i
    BY <1>1, <1>2, <1>4
  <2> HIDE DEF m
  <2>2. kept[m] = d.file[i]
    BY <1>2, <2>1
  <2> QED BY <2>1, <2>2, <1>10, <1>12
<1>13. \A i \in 1..n : e.file[i] = d.file[i + k]
  BY <1>1, <1>2, <1>4, <1>8
<1>14. Kept(d, e, k, n)
  <2>1. Len(e.file) = n \/ (Len(e.file) = n + 1 /\ e.file[n + 1] = Damaged /\ e.torn)
    <3>1. Len(part) = 0 => Len(e.file) = n
      BY <1>4, <1>8
    <3>2. Len(part) = 1 => Len(e.file) = n + 1 /\ e.file[n + 1] = Damaged /\ e.torn
      BY <1>8, <1>9
    <3>3. Len(part) = 0 \/ Len(part) = 1
      BY <1>7
    <3> QED BY <3>1, <3>2, <3>3
  <2> QED BY <2>1, <1>10, <1>12, <1>13 DEF Kept
<1> QED BY <1>4, <1>11, <1>14

(***************************************************************************)
(* The new line behind what was kept.                                      *)
(***************************************************************************)
LEMMA LeftByFlush ==
  ASSUME NEW d \in DiskType, NEW e \in DiskType, NEW k, NEW n \in Nat, Kept(d, e, k, n),
         NEW line \in Line
  PROVE  /\ Flush(e, line) \in DiskType
         /\ ~Flush(e, line).torn
         /\ Left(d.file, d.missing, Flush(e, line).file, Flush(e, line).missing, k, n, line)
         /\ ~e.torn => Flush(e, line).file = Append(e.file, line) /\ Len(e.file) = n
<1> DEFINE g == Flush(e, line)
<1>0. e.file \in Seq(Line) /\ Subject(line) \subseteq Subjects /\ e.missing \subseteq Subjects
  BY SubjectType DEF DiskType
<1>1. CASE e.torn
  <2>1. /\ g = [e EXCEPT !.torn = FALSE, !.missing = e.missing \cup Subject(line)]
        /\ g.file = e.file /\ g.torn = FALSE /\ g.missing = e.missing \cup Subject(line)
    BY <1>1 DEF Flush, DiskType
  <2>2. g \in DiskType
    BY <2>1, <1>0 DEF DiskType
  <2> QED BY <2>1, <2>2, <1>1 DEF Kept, Left
<1>2. CASE ~e.torn
  <2>1. /\ g = [e EXCEPT !.file = Append(e.file, line), !.missing = e.missing \ Subject(line)]
        /\ g.file = Append(e.file, line)
        /\ g.torn = FALSE
        /\ g.missing = e.missing \ Subject(line)
    BY <1>2 DEF Flush, DiskType
  <2>2. /\ Append(e.file, line) \in Seq(Line)
        /\ Len(Append(e.file, line)) = Len(e.file) + 1
        /\ \A i \in 1..Len(e.file) : Append(e.file, line)[i] = e.file[i]
        /\ Append(e.file, line)[Len(e.file) + 1] = line
    BY <1>0, AppendProperties
  <2>3. g \in DiskType
    BY <2>1, <2>2, <1>0 DEF DiskType
  <2>4. Len(e.file) = n
    BY <1>2 DEF Kept
  <2> HIDE DEF g
  <2>5. /\ Len(g.file) = n + 1
        /\ g.file[n + 1] = line
        /\ \A i \in 1..n : g.file[i] = d.file[i + k]
    BY <2>1, <2>2, <2>4 DEF Kept
  <2>6. Left(d.file, d.missing, g.file, g.missing, k, n, line)
    BY <2>1, <2>5 DEF Left, Kept
  <2> QED BY <2>1, <2>3, <2>4, <2>6 DEF g
<1> QED BY <1>1, <1>2

(***************************************************************************)
(* What was kept without the new line, or with a part of it.               *)
(***************************************************************************)
LEMMA LeftByFailure ==
  ASSUME NEW d \in DiskType, NEW e \in DiskType, NEW k, NEW n \in Nat, Kept(d, e, k, n),
         NEW line \in Line, NEW g \in FlushFails(e, line)
  PROVE  /\ g \in DiskType
         /\ Left(d.file, d.missing, g.file, g.missing, k, n, line)
<1>0. /\ e.file \in Seq(Line) /\ Damaged \in Line
      /\ Subject(line) \subseteq Subjects /\ e.missing \subseteq Subjects
  BY SubjectType DEF DiskType, Line
<1>1. /\ g.missing = e.missing \cup Subject(line)
      /\ g.file = e.file \/ (~e.torn /\ g.file = Append(e.file, Damaged))
      /\ g \in DiskType
  <2> DEFINE lost == e.missing \cup Subject(line)
  <2>1. Append(e.file, Damaged) \in Seq(Line) /\ lost \subseteq Subjects
    BY <1>0, AppendProperties
  <2>2. \/ g = [e EXCEPT !.missing = lost]
        \/ g = [file |-> IF e.torn THEN e.file ELSE Append(e.file, Damaged),
                torn |-> TRUE, missing |-> lost]
    BY DEF FlushFails
  <2> HIDE DEF lost
  <2>3. CASE g = [e EXCEPT !.missing = lost]
    BY <2>1, <2>3 DEF DiskType, lost
  <2>4. CASE g = [file |-> IF e.torn THEN e.file ELSE Append(e.file, Damaged),
                  torn |-> TRUE, missing |-> lost]
    BY <2>1, <2>4, <1>0 DEF DiskType, lost
  <2> QED BY <2>2, <2>3, <2>4
<1>2. CASE g.file = e.file
  BY <1>1, <1>2 DEF Kept, Left
<1>3. CASE ~e.torn /\ g.file = Append(e.file, Damaged)
  <2>1. Len(e.file) = n
    BY <1>3 DEF Kept
  <2>2. /\ Len(Append(e.file, Damaged)) = Len(e.file) + 1
        /\ \A i \in 1..Len(e.file) : Append(e.file, Damaged)[i] = e.file[i]
        /\ Append(e.file, Damaged)[Len(e.file) + 1] = Damaged
    BY <1>0, AppendProperties
  <2>3. /\ Len(g.file) = n + 1
        /\ g.file[n + 1] = Damaged
        /\ \A i \in 1..n : g.file[i] = d.file[i + k]
    BY <2>1, <2>2, <1>3 DEF Kept
  <2> QED BY <2>3, <1>1 DEF Left, Kept
<1> QED BY <1>1, <1>2, <1>3

(***************************************************************************)
(* An append that does not fail: the trim, and the new line; or, if the    *)
(* last line of a short file lacks its end, that line is damaged.          *)
(***************************************************************************)
LEMMA LeftByAppend ==
  ASSUME NEW d \in DiskType, NEW line \in Line
  PROVE  LET g == AppendLine(d, line)
         IN  /\ g \in DiskType
             /\ ~g.torn
             /\ \E k \in 0..Len(d.file) :
                  /\ Left(d.file, d.missing, g.file, g.missing, k, Len(d.file) - k, line)
                  /\ ~d.torn => /\ Len(g.file) = Len(d.file) - k + 1
                                /\ g.file[Len(d.file) - k + 1] = line
<1> DEFINE e == Trim(d)
<1>1. /\ e \in DiskType
      /\ e.torn => d.torn
  BY KeptTrim
<1>2. PICK k \in 0..Len(d.file) : Kept(d, e, k, Len(d.file) - k)
  BY KeptTrim
<1> DEFINE n == Len(d.file) - k
<1>3. n \in Nat
  BY LenProperties DEF DiskType
<1>4. Kept(d, e, k, n)
  BY <1>2
<1> HIDE DEF e, n
<1>5. /\ Flush(e, line) \in DiskType
      /\ ~Flush(e, line).torn
      /\ Left(d.file, d.missing, Flush(e, line).file, Flush(e, line).missing, k, n, line)
      /\ ~e.torn => Flush(e, line).file = Append(e.file, line) /\ Len(e.file) = n
  BY <1>1, <1>3, <1>4, LeftByFlush
<1>6. ~d.torn => Len(Flush(e, line).file) = n + 1 /\ Flush(e, line).file[n + 1] = line
  <2>1. e.file \in Seq(Line)
    BY <1>1 DEF DiskType
  <2>2. Len(Append(e.file, line)) = Len(e.file) + 1 /\ Append(e.file, line)[Len(e.file) + 1] = line
    BY <2>1, AppendProperties
  <2> QED BY <2>2, <1>1, <1>5
<1>7. AppendLine(d, line) = Flush(e, line)
  BY DEF AppendLine, e
<1> QED BY <1>5, <1>6, <1>7 DEF n

(***************************************************************************)
(* An append of which some part fails.                                     *)
(***************************************************************************)
LEMMA LeftByFailedAppend ==
  ASSUME NEW d \in DiskType, NEW line \in Line, NEW g \in FailedAppends(d, line)
  PROVE  /\ g \in DiskType
         /\ \E k, n \in Nat :
              k + n <= Len(d.file) /\ Left(d.file, d.missing, g.file, g.missing, k, n, line)
<1>1. PICK e \in {d, Trim(d)} \cup CutShort(d) :
        g = Flush(e, line) \/ g \in FlushFails(e, line)
  BY DEF FailedAppends
<1>2. e \in DiskType /\ \E k, n \in Nat : k + n <= Len(d.file) /\ Kept(d, e, k, n)
  <2>1. Len(d.file) \in Nat
    BY LenProperties DEF DiskType
  <2>2. CASE e = d
    <3>1. 0 \in Nat /\ 0 + Len(d.file) <= Len(d.file)
      BY <2>1
    <3> QED BY <2>1, <2>2, <3>1, KeptSelf
  <2>3. CASE e = Trim(d)
    <3>1. PICK k \in 0..Len(d.file) : Kept(d, Trim(d), k, Len(d.file) - k)
      BY KeptTrim
    <3>2. k \in Nat /\ Len(d.file) - k \in Nat /\ k + (Len(d.file) - k) <= Len(d.file)
      BY <2>1
    <3> QED BY <2>3, <3>1, <3>2, KeptTrim
  <2>4. CASE e \in CutShort(d)
    BY <2>4, KeptCut
  <2> QED BY <2>2, <2>3, <2>4
<1>3. PICK k \in Nat, n \in Nat : k + n <= Len(d.file) /\ Kept(d, e, k, n)
  BY <1>2
<1> QED BY <1>1, <1>2, <1>3, LeftByFlush, LeftByFailure

(***************************************************************************)
(* What a thread writes leaves a piece of the file, and the lines of it    *)
(* that are lost at the end are known to be missing.                       *)
(***************************************************************************)
LEMMA WriteLeaves ==
  ASSUME FileType, NEW line \in Line, Write(line)
  PROVE  /\ FileType'
         /\ \E k, n \in Nat :
              k + n <= Len(file) /\ Left(file, missing, file', missing', k, n, line)
<1>1. /\ Disk \in DiskType
      /\ Disk.file = file /\ Disk.torn = torn /\ Disk.missing = missing
  BY DEF FileType, Disk, DiskType
<1>2. CASE Becomes(AppendLine(Disk, line)) /\ UNCHANGED failures
  <2> DEFINE g == AppendLine(Disk, line)
  <2>1. /\ g \in DiskType
        /\ \E k \in 0..Len(file) :
             Left(file, missing, g.file, g.missing, k, Len(file) - k, line)
    BY <1>1, LeftByAppend
  <2>2. file' = g.file /\ torn' = g.torn /\ missing' = g.missing /\ failures' = failures
    BY <1>2 DEF Becomes
  <2> HIDE DEF g
  <2>3. PICK k \in 0..Len(file) : Left(file, missing, file', missing', k, Len(file) - k, line)
    BY <2>1, <2>2
  <2>4. k \in Nat /\ Len(file) - k \in Nat /\ k + (Len(file) - k) <= Len(file)
    BY LenProperties DEF FileType
  <2> QED BY <2>1, <2>2, <2>3, <2>4 DEF FileType, DiskType
<1>3. CASE /\ failures < MaxFailures
           /\ failures' = failures + 1
           /\ \E after \in FailedAppends(Disk, line) : Becomes(after)
  <2>1. PICK g \in FailedAppends(Disk, line) : Becomes(g)
    BY <1>3
  <2>2. /\ g \in DiskType
        /\ \E k, n \in Nat :
             k + n <= Len(file) /\ Left(file, missing, g.file, g.missing, k, n, line)
    BY <1>1, LeftByFailedAppend
  <2>3. file' = g.file /\ torn' = g.torn /\ missing' = g.missing
    BY <2>1 DEF Becomes
  <2>4. failures' \in 0..MaxFailures
    BY <1>3, BoundsAssumption DEF FileType
  <2> QED BY <2>2, <2>3, <2>4 DEF FileType, DiskType
<1> QED BY <1>2, <1>3 DEF Write

(***************************************************************************)
(* Without a failure, all but the beginning of the file is kept, the line  *)
(* that is written has an end, and it is there, unless the line before     *)
(* lacked its own.                                                         *)
(***************************************************************************)
LEMMA CleanWriteLeaves ==
  ASSUME FileType, NEW line \in Line, Write(line), failures' = 0
  PROVE  /\ torn' = FALSE
         /\ \E k \in 0..Len(file) :
              /\ Left(file, missing, file', missing', k, Len(file) - k, line)
              /\ ~torn => Len(file') = Len(file) - k + 1 /\ file'[Len(file) - k + 1] = line
<1>1. /\ Disk \in DiskType
      /\ Disk.file = file /\ Disk.torn = torn /\ Disk.missing = missing
  BY DEF FileType, Disk, DiskType
<1> DEFINE g == AppendLine(Disk, line)
<1>2. Becomes(g)
  BY BoundsAssumption DEF Write, FileType
<1>3. /\ g \in DiskType
      /\ ~g.torn
      /\ \E k \in 0..Len(file) :
           /\ Left(file, missing, g.file, g.missing, k, Len(file) - k, line)
           /\ ~torn => Len(g.file) = Len(file) - k + 1 /\ g.file[Len(file) - k + 1] = line
  BY <1>1, LeftByAppend
<1>4. file' = g.file /\ torn' = g.torn /\ missing' = g.missing
  BY <1>2 DEF Becomes
<1> HIDE DEF g
<1> QED BY <1>3, <1>4 DEF DiskType

(***************************************************************************)
(* What the end of the process leaves: a piece of the file, and possibly a *)
(* cut line.                                                               *)
(***************************************************************************)
LEMMA RestLeaves ==
  ASSUME FileType, NEW after \in {Disk, Trim(Disk)} \cup CutShort(Disk)
  PROVE  /\ after.file \in Seq(Line) /\ after.torn \in BOOLEAN
         /\ \E k, n \in Nat : k + n <= Len(file) /\ Kept(Disk, after, k, n)
<1>1. /\ Disk \in DiskType /\ Disk.file = file /\ Len(file) \in Nat
  BY LenProperties DEF FileType, Disk, DiskType
<1>2. CASE after = Disk
  <2>1. 0 \in Nat /\ 0 + Len(file) <= Len(file)
    BY <1>1
  <2> QED BY <1>1, <1>2, <2>1, KeptSelf DEF DiskType
<1>3. CASE after = Trim(Disk)
  <2>1. PICK k \in 0..Len(file) : Kept(Disk, Trim(Disk), k, Len(file) - k)
    BY <1>1, KeptTrim
  <2>2. k \in Nat /\ Len(file) - k \in Nat /\ k + (Len(file) - k) <= Len(file)
    BY <1>1
  <2>3. Trim(Disk) \in DiskType
    BY <1>1, KeptTrim
  <2> QED BY <1>3, <2>1, <2>2, <2>3 DEF DiskType
<1>4. CASE after \in CutShort(Disk)
  BY <1>1, <1>4, KeptCut DEF DiskType
<1> QED BY <1>2, <1>3, <1>4

-----------------------------------------------------------------------------
(* Types. *)

(***************************************************************************)
(* The variables start with their types.                                   *)
(***************************************************************************)
LEMMA TypeInit == Init => TypeOK
<1> SUFFICES ASSUME Init PROVE TypeOK
  OBVIOUS
<1>1. /\ 0 \in 0..MaxClock
      /\ 0 \in 0..MaxRestarts
      /\ 0 \in 0..MaxObjects
  BY BoundsAssumption
<1>2. /\ << >> \in Seq(Line)
      /\ << >> \in Seq([rule : Rules, raised : BOOLEAN])
  BY EmptySeq
<1>3. 0 \in 0..MaxFailures /\ {} \subseteq Device \X Address \X (Rules \cup {"MEASURE"})
  BY BoundsAssumption
<1> QED BY <1>1, <1>2, <1>3 DEF Init, TypeOK, WorkerStates

(***************************************************************************)
(* The main thread, the clock and a restart keep the types.                *)
(***************************************************************************)
LEMMA TypeMain ==
  TypeOK /\ (Tick \/ Restart \/ Start \/ Stop \/ Stopping) => TypeOK'
<1> SUFFICES ASSUME TypeOK, Tick \/ Restart \/ Start \/ Stop \/ Stopping
             PROVE  TypeOK'
  OBVIOUS
<1> USE DEF TypeOK, process, link, handler, alarms, watch, memory, disk, time
<1>1. CASE Tick
  <2>1. clock + 1 \in 0..MaxClock
    BY <1>1, BoundsAssumption DEF Tick
  <2> QED BY <1>1, <2>1 DEF Tick
<1>2. CASE Restart
  <2>1. /\ 0 \in 0..MaxClock
        /\ 0 \in 0..MaxObjects
        /\ restarts + 1 \in 0..MaxRestarts
    BY <1>2, BoundsAssumption DEF Restart
  <2>2. /\ << >> \in Seq(Line)
        /\ << >> \in Seq([rule : Rules, raised : BOOLEAN])
    BY EmptySeq
  <2>3. file' \in Seq(Line) /\ torn' \in BOOLEAN
    <3>1. PICK after \in {Disk, Trim(Disk)} \cup CutShort(Disk) :
            file' = after.file /\ torn' = after.torn
      BY <1>2 DEF Restart
    <3> QED BY <3>1, RestLeaves DEF FileType, Subjects
  <2>4. failures' = failures /\ missing' = {}
    BY <1>2 DEF Restart
  <2> QED BY <1>2, <2>1, <2>2, <2>3, <2>4 DEF Restart, WorkerStates
<1>3. CASE Start
  BY <1>3 DEF Start, WorkerStates
<1>4. CASE Stop
  BY <1>4 DEF Stop
<1>5. CASE Stopping
  BY <1>5 DEF Stopping, StopClient, JoinWorker, JoinMonitor
<1> QED BY <1>1, <1>2, <1>3, <1>4, <1>5

(***************************************************************************)
(* What a worker has in hand where it works on an object.                  *)
(***************************************************************************)
LEMMA InHandType ==
  ASSUME TypeOK, NEW d \in Device, inHand[d] # NoObject
  PROVE  /\ PointInHand(d) \in Point
         /\ inHand[d].snapshot \in Snapshot
BY DEF TypeOK, PointInHand, Point, Object

(***************************************************************************)
(* The line of an object is a line of the cache file.                      *)
(***************************************************************************)
LEMMA DataLineType ==
  ASSUME NEW kind \in {"BUSINESS", "MEASURE"}, NEW p \in Point, NEW snap \in Snapshot
  PROVE  DataLine(kind, p, snap) \in Line
BY DEF DataLine, Line, Point, Snapshot

(***************************************************************************)
(* The line of an alarm event is a line of the cache file.                 *)
(***************************************************************************)
LEMMA AlarmLineType ==
  ASSUME NEW p \in Point, NEW event, event.rule \in Rules, event.raised \in BOOLEAN
  PROVE  AlarmLine(p, event) \in Line
BY DEF AlarmLine, Line, Point

(***************************************************************************)
(* A change of the link and the ends of a frame keep the types.            *)
(***************************************************************************)
LEMMA TypeLink ==
  ASSUME TypeOK, NEW d \in Device,
         \/ ConnectionChanged(d) \/ ReceiveFrame(d) \/ FrameRefused(d)
         \/ FrameAccepted(d) \/ FrameHandled(d) \/ WorkerEnds(d)
  PROVE  TypeOK'
<1> USE DEF TypeOK, process, link, handler, alarms, watch, memory, disk, time, Goto, WorkerStates
<1>1. CASE ConnectionChanged(d)
  BY <1>1 DEF ConnectionChanged
<1>2. CASE FrameAccepted(d)
  <2>1. objects' \in [Device -> 0..MaxObjects]
    <3>1. PICK n \in 1..MaxObjects : objects' = [objects EXCEPT ![d] = n]
      BY <1>2 DEF FrameAccepted
    <3>2. n \in 0..MaxObjects
      BY BoundsAssumption
    <3> QED BY <3>1, <3>2
  <2>2. /\ Goto(d, "frame")
        /\ UNCHANGED <<time, process, link, inHand, events, alarms, watch, memory, disk>>
    BY <1>2 DEF FrameAccepted
  <2> QED BY <2>1, <2>2
<1>3. CASE WorkerEnds(d)
  BY <1>3 DEF WorkerEnds
<1>4. CASE FrameHandled(d)
  BY <1>4 DEF FrameHandled
<1>5. CASE ReceiveFrame(d)
  BY <1>5 DEF ReceiveFrame
<1>6. CASE FrameRefused(d)
  BY <1>6 DEF FrameRefused
<1> QED BY <1>1, <1>2, <1>3, <1>4, <1>5, <1>6

(***************************************************************************)
(* The steps of onDataObject() keep the types; this needs that a worker in *)
(* the middle of it has an object in hand.                                 *)
(***************************************************************************)
LEMMA TypeHandle ==
  ASSUME TypeOK, HasObject, NEW d \in Device, Handle(d)
  PROVE  TypeOK'
<1> USE DEF process, link, handler, alarms, watch, memory, disk, time, Goto
<1> DEFINE p == PointInHand(d)
           snap == inHand[d].snapshot
<1>0. worker[d] \in Busy => p \in Point /\ snap \in Snapshot
  BY InHandType DEF HasObject
<1>1. CASE ReceiveObject(d)
  <2>1. PICK a \in Address, r \in Reading :
          inHand' = [inHand EXCEPT ![d] =
                       [address |-> a,
                        snapshot |-> [value |-> r.value, state |-> r.state,
                                      quality |-> r.quality, timestamp |-> clock]]]
    BY <1>1 DEF ReceiveObject
  <2>2. [value |-> r.value, state |-> r.state, quality |-> r.quality, timestamp |-> clock]
          \in Snapshot
    BY ReadingAssumption, BoundsAssumption DEF Snapshot, TypeOK
  <2>3. inHand' \in [Device -> Object \cup {NoObject}]
    BY <2>1, <2>2 DEF TypeOK, Object
  <2>4. objects' \in [Device -> 0..MaxObjects]
    BY <1>1, BoundsAssumption DEF ReceiveObject, TypeOK
  <2> QED BY <1>1, <2>3, <2>4 DEF ReceiveObject, TypeOK, WorkerStates
<1>2. CASE EvaluateObject(d)
  <2> DEFINE after == Evaluate(PointDefinitionFor(p), snap, active[p])
  <2>0. p \in Point /\ snap \in Snapshot
    BY <1>0, <1>2 DEF EvaluateObject, Busy
  <2>1. after \in SUBSET Rules
    BY <2>0, EvaluateType DEF TypeOK
  <2>2. Events(active[p], after) \in Seq([rule : Rules, raised : BOOLEAN])
    BY EventsType DEF Event
  <2>3. /\ snapshots' = [snapshots EXCEPT ![p] = snap]
        /\ active' = [active EXCEPT ![p] = after]
        /\ events' = [events EXCEPT ![d] = Events(active[p], after)]
        /\ worker' = [worker EXCEPT ![d] = "rememberBusiness"]
        /\ UNCHANGED <<time, process, link, objects, inHand, watch, memory, disk>>
    BY <1>2 DEF EvaluateObject
  <2> HIDE DEF p, snap, after
  <2> QED BY <2>0, <2>1, <2>2, <2>3 DEF TypeOK, WorkerStates
<1>3. CASE RememberBusiness(d)
  <2>0. p \in Point /\ snap \in Snapshot
    BY <1>0, <1>3 DEF RememberBusiness, Busy
  <2>1. RememberRecent(recent, DataLine("BUSINESS", p, snap)) \in Seq(Line)
    BY <2>0, DataLineType, RememberRecentType DEF TypeOK
  <2>2. latest' \in [Point -> Snapshot \cup {NoSnapshot}]
    BY <2>0, <1>3 DEF RememberBusiness, TypeOK
  <2> QED BY <1>3, <2>1, <2>2 DEF RememberBusiness, TypeOK, WorkerStates
<1>4. CASE AppendBusiness(d)
  <2>0. p \in Point /\ snap \in Snapshot
    BY <1>0, <1>4 DEF AppendBusiness, Busy
  <2>1. FileType'
    <3>1. DataLine("BUSINESS", p, snap) \in Line
      BY <2>0, DataLineType
    <3> QED BY <1>4, <3>1, WriteLeaves DEF TypeOK, FileType, Subjects, AppendBusiness
  <2> QED BY <1>4, <2>1 DEF AppendBusiness, TypeOK, FileType, Subjects, WorkerStates
<1>5. CASE RememberMeasurement(d)
  <2>0. p \in Point /\ snap \in Snapshot
    BY <1>0, <1>5 DEF RememberMeasurement, Busy
  <2>2. latest' \in [Point -> Snapshot \cup {NoSnapshot}]
    BY <2>0, <1>5 DEF RememberMeasurement, TypeOK
  <2> QED BY <1>5, <2>2 DEF RememberMeasurement, TypeOK, WorkerStates
<1>6. CASE AppendMeasurement(d)
  <2>0. p \in Point /\ snap \in Snapshot
    BY <1>0, <1>6 DEF AppendMeasurement, Busy
  <2>1. FileType'
    <3>1. DataLine("MEASURE", p, snap) \in Line
      BY <2>0, DataLineType
    <3> QED BY <1>6, <3>1, WriteLeaves DEF TypeOK, FileType, Subjects, AppendMeasurement
  <2> QED BY <1>6, <2>1 DEF AppendMeasurement, TypeOK, FileType, Subjects, WorkerStates
<1>7. CASE AppendAlarm(d)
  <2>0. p \in Point
    BY <1>0, <1>7 DEF AppendAlarm, Busy
  <2>1. /\ events[d] \in Seq([rule : Rules, raised : BOOLEAN])
        /\ events[d] # << >>
    BY <1>7 DEF AppendAlarm, TypeOK
  <2>2. /\ Head(events[d]) \in [rule : Rules, raised : BOOLEAN]
        /\ Tail(events[d]) \in Seq([rule : Rules, raised : BOOLEAN])
    BY <2>1, HeadTailProperties
  <2>3. FileType'
    <3>1. AlarmLine(p, Head(events[d])) \in Line
      BY <2>0, <2>2, AlarmLineType
    <3> QED BY <1>7, <3>1, WriteLeaves DEF TypeOK, FileType, Subjects, AppendAlarm
  <2>4. events' \in [Device -> Seq([rule : Rules, raised : BOOLEAN])]
    BY <1>7, <2>2 DEF AppendAlarm, TypeOK
  <2> QED BY <1>7, <2>3, <2>4 DEF AppendAlarm, TypeOK, FileType, Subjects
<1>8. CASE ObjectHandled(d)
  BY <1>8 DEF ObjectHandled, TypeOK, WorkerStates
<1>9. CASE FrameRefused(d) \/ FrameAccepted(d) \/ FrameHandled(d)
  BY <1>9, TypeLink
<1> QED BY <1>1, <1>2, <1>3, <1>4, <1>5, <1>6, <1>7, <1>8, <1>9 DEF Handle

(***************************************************************************)
(* The steps of the monitor keep the types.                                *)
(***************************************************************************)
LEMMA TypeMonitor ==
  ASSUME TypeOK, Monitor
  PROVE  TypeOK'
<1> USE DEF process, link, handler, alarms, watch, memory, disk, time
<1>1. CASE MonitorChecks
  BY <1>1 DEF MonitorChecks, TypeOK
<1>2. CASE MonitorWakes
  BY <1>2 DEF MonitorWakes, TypeOK
<1>3. CASE MonitorScans
  <2>1. active' \in [Point -> SUBSET Rules]
    BY <1>3 DEF MonitorScans, TypeOK, EvaluateStale, Rules
  <2> DEFINE event(p) == [point |-> p, rule |-> "STALE", raised |-> "STALE" \in active'[p]]
  <2>2. staleEvents' \subseteq [point : Point, rule : {"STALE"}, raised : BOOLEAN]
    <3>1. \A p \in Point : event(p) \in [point : Point, rule : {"STALE"}, raised : BOOLEAN]
      OBVIOUS
    <3>2. staleEvents' \subseteq {event(p) : p \in Point}
      BY <1>3 DEF MonitorScans
    <3> HIDE DEF event
    <3> QED BY <3>1, <3>2
  <2>3. /\ monitor' = "append"
        /\ UNCHANGED <<time, process, link, handler, snapshots, now, memory, disk>>
    BY <1>3 DEF MonitorScans
  <2> QED BY <2>1, <2>2, <2>3 DEF TypeOK
<1>4. CASE MonitorAppends
  <2>1. PICK event \in staleEvents : /\ Write(AlarmLine(event.point, event))
                                     /\ staleEvents' = staleEvents \ {event}
    BY <1>4 DEF MonitorAppends
  <2>2. /\ event.point \in Point
        /\ event.rule \in Rules
        /\ event.raised \in BOOLEAN
    BY DEF TypeOK, Rules
  <2>3. FileType'
    BY <2>1, <2>2, AlarmLineType, WriteLeaves DEF TypeOK, FileType, Subjects
  <2> QED BY <1>4, <2>1, <2>3 DEF MonitorAppends, TypeOK, FileType, Subjects
<1>5. CASE MonitorDone
  <2>1. 0 \in 0..MaxClock
    BY BoundsAssumption
  <2> QED BY <1>5, <2>1 DEF MonitorDone, TypeOK
<1> QED BY <1>1, <1>2, <1>3, <1>4, <1>5 DEF Monitor

(***************************************************************************)
(* Every step keeps the types.                                             *)
(***************************************************************************)
LEMMA TypeStep == TypeOK /\ HasObject /\ [Next]_vars => TypeOK'
<1> SUFFICES ASSUME TypeOK, HasObject, [Next]_vars PROVE TypeOK'
  OBVIOUS
<1>1. CASE Tick \/ Restart \/ Start \/ Stop \/ Stopping
  BY <1>1, TypeMain
<1>2. ASSUME NEW d \in Device,
             ConnectionChanged(d) \/ ReceiveFrame(d) \/ Handle(d) \/ WorkerEnds(d)
      PROVE  TypeOK'
  BY <1>2, TypeLink, TypeHandle
<1>3. CASE Monitor
  BY <1>3, TypeMonitor
<1>4. CASE UNCHANGED vars
  BY <1>4 DEF TypeOK, vars, process, link, handler, alarms, watch, memory, disk, time
<1> QED BY <1>1, <1>2, <1>3, <1>4 DEF Next

-----------------------------------------------------------------------------
(* Which steps touch what. *)

(***************************************************************************)
(* Only the two critical sections of the system mutex, and a restart,      *)
(* change the snapshots or the standing rules.                             *)
(***************************************************************************)
LEMMA AlarmsFrame ==
  ASSUME [Next]_vars
  PROVE  \/ UNCHANGED alarms
         \/ Restart
         \/ \E d \in Device : EvaluateObject(d)
         \/ MonitorScans
BY DEF Next, Tick, Start, Stop, Stopping, StopClient, JoinWorker, JoinMonitor,
       ConnectionChanged, ReceiveFrame, WorkerEnds, Handle, ReceiveObject,
       RememberBusiness, AppendBusiness, RememberMeasurement, AppendMeasurement,
       AppendAlarm, ObjectHandled, FrameHandled, FrameRefused, FrameAccepted, Monitor, MonitorChecks, MonitorWakes,
       MonitorAppends, MonitorDone, vars, alarms, Goto

(***************************************************************************)
(* Only time, the monitor's reading of it and a restart change the clocks. *)
(***************************************************************************)
LEMMA TimeFrame ==
  ASSUME [Next]_vars
  PROVE  \/ UNCHANGED <<clock, now>>
         \/ Tick
         \/ Restart
         \/ MonitorWakes
         \/ MonitorDone
BY DEF Next, Start, Stop, Stopping, StopClient, JoinWorker, JoinMonitor,
       ConnectionChanged, ReceiveFrame, WorkerEnds, Handle, ReceiveObject, EvaluateObject,
       RememberBusiness, AppendBusiness, RememberMeasurement, AppendMeasurement,
       AppendAlarm, ObjectHandled, FrameHandled, FrameRefused, FrameAccepted, Monitor, MonitorChecks, MonitorScans,
       MonitorAppends, vars, watch, time

(***************************************************************************)
(* Only the workers' and the monitor's appends change the file, and a      *)
(* restart while one of them appends.                                      *)
(***************************************************************************)
LEMMA FileFrame ==
  ASSUME [Next]_vars
  PROVE  \/ UNCHANGED file
         \/ Restart /\ Appending
         \/ \E d \in Device : AppendBusiness(d) \/ AppendMeasurement(d) \/ AppendAlarm(d)
         \/ MonitorAppends
BY DEF Next, Tick, Restart, Disk, Start, Stop, Stopping, StopClient, JoinWorker, JoinMonitor,
       ConnectionChanged, ReceiveFrame, WorkerEnds, Handle, ReceiveObject, EvaluateObject,
       RememberBusiness, RememberMeasurement, ObjectHandled, FrameHandled, FrameRefused, FrameAccepted,
       Monitor, MonitorChecks, MonitorWakes, MonitorScans, MonitorDone, vars, disk

-----------------------------------------------------------------------------
(* The alarms. *)

(***************************************************************************)
(* Every step keeps the alarms in line with the snapshots: EvaluateObject  *)
(* decides each rule that may stand, MonitorScans touches STALE only.      *)
(***************************************************************************)
LEMMA AlarmsStep ==
  ASSUME TypeOK, HasObject, AlarmsAgreeWithSnapshot, [Next]_vars
  PROVE  AlarmsAgreeWithSnapshot'
<1>1. CASE UNCHANGED alarms
  BY <1>1 DEF AlarmsAgreeWithSnapshot, alarms
<1>2. CASE Restart
  BY <1>2 DEF Restart, AlarmsAgreeWithSnapshot
<1>3. ASSUME NEW d \in Device, EvaluateObject(d)
      PROVE  AlarmsAgreeWithSnapshot'
  <2> DEFINE p == PointInHand(d)
             snap == inHand[d].snapshot
             def == PointDefinitionFor(p)
  <2>1. p \in Point /\ snap \in Snapshot
    BY <1>3, InHandType DEF EvaluateObject, HasObject, Busy
  <2>2. /\ snapshots' = [snapshots EXCEPT ![p] = snap]
        /\ active' = [active EXCEPT ![p] = Evaluate(def, snap, active[p])]
    BY <1>3 DEF EvaluateObject
  <2>3. snap # NoSnapshot
    BY <2>1, DistinctValues
  <2>4. active[p] \ {"STALE"} \subseteq Evaluated(def)
    BY <2>1, ConditionsType DEF AlarmsAgreeWithSnapshot
  <2>5. Evaluate(def, snap, active[p]) \ {"STALE"} = Conditions(def, snap)
    BY <2>4, ConditionsType, EvaluatedType DEF Evaluate
  <2> HIDE DEF p, snap, def
  <2>6. \A q \in Point : q # p =>
          active'[q] = active[q] /\ snapshots'[q] = snapshots[q]
    BY <2>2 DEF TypeOK
  <2>7. active'[p] = Evaluate(def, snap, active[p]) /\ snapshots'[p] = snap
    BY <2>1, <2>2 DEF TypeOK
  <2> QED BY <2>3, <2>5, <2>6, <2>7 DEF AlarmsAgreeWithSnapshot, def
<1>4. CASE MonitorScans
  <2>1. /\ snapshots' = snapshots
        /\ \A p \in Point : active'[p] \ {"STALE"} = active[p] \ {"STALE"}
    BY <1>4 DEF MonitorScans, EvaluateStale
  <2> QED BY <2>1 DEF AlarmsAgreeWithSnapshot
<1> QED BY <1>1, <1>2, <1>3, <1>4, AlarmsFrame

(***************************************************************************)
(* The monitor never holds a time that is yet to come.                     *)
(***************************************************************************)
LEMMA NowStep ==
  ASSUME TypeOK, NowIsPast, [Next]_vars
  PROVE  NowIsPast'
<1> USE DEF NowIsPast, TypeOK
<1>1. CASE UNCHANGED <<clock, now>>
  BY <1>1
<1>2. CASE Tick
  BY <1>2, BoundsAssumption DEF Tick, watch
<1>3. CASE Restart
  BY <1>3, BoundsAssumption DEF Restart
<1>4. CASE MonitorWakes
  BY <1>4, BoundsAssumption DEF MonitorWakes, time
<1>5. CASE MonitorDone
  BY <1>5, BoundsAssumption DEF MonitorDone, time
<1> QED BY <1>1, <1>2, <1>3, <1>4, <1>5, TimeFrame

(***************************************************************************)
(* The clock does not run backwards but for the restarted process, which   *)
(* has no snapshots.                                                       *)
(***************************************************************************)
LEMMA ClockStep ==
  ASSUME TypeOK, [Next]_vars
  PROVE  clock' \in Int /\ clock <= clock'
<1> USE BoundsAssumption DEF TypeOK
<1>1. CASE UNCHANGED <<clock, now>>
  BY <1>1
<1>2. CASE Tick
  BY <1>2 DEF Tick
<1>3. CASE Restart \/ MonitorWakes \/ MonitorDone
  BY <1>3 DEF Restart, MonitorWakes, MonitorDone, time
<1> QED BY <1>1, <1>2, <1>3, TimeFrame

(***************************************************************************)
(* Every step keeps the standing STALE alarms true: the monitor raises one *)
(* against the snapshot of its own critical section and a time that is     *)
(* past, EvaluateObject clears it, and the clock only grows.               *)
(***************************************************************************)
LEMMA StaleStep ==
  ASSUME TypeOK, HasObject, NowIsPast, StaleIsTrue, [Next]_vars
  PROVE  StaleIsTrue'
<1>0. /\ clock \in Int /\ now \in Int /\ now <= clock
      /\ clock' \in Int /\ clock <= clock'
  <2>1. clock \in Int /\ now \in Int
    BY BoundsAssumption DEF TypeOK
  <2> QED BY <2>1, ClockStep DEF NowIsPast
<1>1. \A p \in Point : snapshots[p] # NoSnapshot => snapshots[p].timestamp \in Int
  BY DEF TypeOK, Snapshot
<1>2. \A p \in DOMAIN PointTable : PointTable[p].staleSeconds \in Int
  BY PointTableAssumption DEF PointDefinition
<1>3. CASE UNCHANGED alarms
  BY <1>0, <1>1, <1>2, <1>3 DEF StaleIsTrue, alarms
<1>4. CASE Restart
  BY <1>4 DEF Restart, StaleIsTrue
<1>5. ASSUME NEW d \in Device, EvaluateObject(d)
      PROVE  StaleIsTrue'
  <2> DEFINE p == PointInHand(d)
             snap == inHand[d].snapshot
             after == Evaluate(PointDefinitionFor(p), snap, active[p])
  <2>1. p \in Point
    BY <1>5, InHandType DEF EvaluateObject, HasObject, Busy
  <2>2. /\ snapshots' = [snapshots EXCEPT ![p] = snap]
        /\ active' = [active EXCEPT ![p] = after]
        /\ clock' = clock
    BY <1>5 DEF EvaluateObject, time
  <2>3. "STALE" \notin after
    BY ConditionsType, EvaluatedType DEF Evaluate
  <2> HIDE DEF p, snap, after
  <2>4. \A q \in Point : q # p =>
          active'[q] = active[q] /\ snapshots'[q] = snapshots[q]
    BY <2>2 DEF TypeOK
  <2>5. active'[p] = after
    BY <2>1, <2>2 DEF TypeOK
  <2> QED BY <2>2, <2>3, <2>4, <2>5 DEF StaleIsTrue
<1>6. CASE MonitorScans
  <2>1. /\ snapshots' = snapshots
        /\ clock' = clock
        /\ \A p \in Point :
             "STALE" \in active'[p] =>
               \/ p \in DOMAIN PointTable /\ IsStale(p)
               \/ p \notin DOMAIN PointTable /\ "STALE" \in active[p]
    BY <1>6 DEF MonitorScans, EvaluateStale, time
  <2> QED BY <1>0, <1>1, <1>2, <2>1 DEF StaleIsTrue, IsStale
<1> QED BY <1>3, <1>4, <1>5, <1>6, AlarmsFrame

-----------------------------------------------------------------------------
(* The workers and what they have in hand. *)

(***************************************************************************)
(* Only start(), a restart and the steps of a worker change what           *)
(* LatestAgrees and the other invariants about workers speak of.           *)
(***************************************************************************)
LEMMA WorkerFrame ==
  ASSUME [Next]_vars
  PROVE  \/ UNCHANGED <<worker, inHand, events, snapshots, latest>>
         \/ Start
         \/ Restart
         \/ \E d \in Device : ReceiveFrame(d) \/ WorkerEnds(d) \/ Handle(d)
BY DEF Next, Tick, Stop, Stopping, StopClient, JoinWorker, JoinMonitor,
       ConnectionChanged, Monitor, MonitorChecks, MonitorWakes, MonitorScans,
       MonitorAppends, MonitorDone, vars, handler, alarms, memory

(***************************************************************************)
(* No worker runs before start().                                          *)
(***************************************************************************)
LEMMA NotStartedStep ==
  ASSUME TypeOK, NotStarted, [Next]_vars
  PROVE  NotStarted'
<1>1. CASE Restart
  BY <1>1 DEF Restart, NotStarted
<1>2. CASE ~Restart
  <2>1. main' = "down" => main = "down"
    BY <1>2 DEF Next, Tick, Start, Stop, Stopping, StopClient, JoinWorker, JoinMonitor,
       ConnectionChanged, ReceiveFrame, WorkerEnds, Handle, ReceiveObject, EvaluateObject,
       RememberBusiness, AppendBusiness, RememberMeasurement, AppendMeasurement,
       AppendAlarm, ObjectHandled, FrameHandled, FrameRefused, FrameAccepted, Monitor, MonitorChecks, MonitorWakes,
       MonitorScans, MonitorAppends, MonitorDone, vars, process
  <2>2. \A d \in Device : worker[d] = "off" => ~(ReceiveFrame(d) \/ WorkerEnds(d) \/ Handle(d))
    BY DEF ReceiveFrame, WorkerEnds, Handle, ReceiveObject, EvaluateObject,
       RememberBusiness, AppendBusiness, RememberMeasurement, AppendMeasurement,
       AppendAlarm, ObjectHandled, FrameHandled, FrameRefused, FrameAccepted
  <2>3. Start => main' # "down"
    BY DEF Start
  <2> QED BY <1>2, <2>1, <2>2, <2>3, WorkerFrame DEF NotStarted
<1> QED BY <1>1, <1>2

(***************************************************************************)
(* The invariants about workers, for one device.                           *)
(***************************************************************************)
HandOK(d) ==
    /\ worker[d] \in Busy => inHand[d] # NoObject
    /\ worker[d] \in Busy \ {"evaluate"} => snapshots[PointInHand(d)] = inHand[d].snapshot
    /\ events[d] # << >> => worker[d] \in Busy
    /\ \A a \in Address :
         \/ latest[<<d, a>>] = snapshots[<<d, a>>]
         \/ /\ worker[d] = "rememberBusiness"
            /\ inHand[d].address = a
            /\ inHand[d].snapshot = snapshots[<<d, a>>]

HandInv == HasObject /\ StoredInHand /\ EventsWhileBusy /\ LatestAgrees

(***************************************************************************)
(* The invariants about workers speak of each device by itself.            *)
(***************************************************************************)
LEMMA HandByDevice == HandInv <=> \A d \in Device : HandOK(d)
<1>1. LatestAgrees <=>
        \A d \in Device, a \in Address :
           \/ latest[<<d, a>>] = snapshots[<<d, a>>]
           \/ /\ worker[d] = "rememberBusiness"
              /\ inHand[d].address = a
              /\ inHand[d].snapshot = snapshots[<<d, a>>]
  BY DEF LatestAgrees, Point
<1> QED BY <1>1 DEF HandInv, HandOK, HasObject, StoredInHand, EventsWhileBusy

(***************************************************************************)
(* A step of one worker is nothing to the others.                          *)
(***************************************************************************)
LEMMA OtherHands ==
  ASSUME NEW d, NEW e \in Device, HandOK(e), e # d, TypeOK,
         worker'[e] = worker[e], inHand'[e] = inHand[e], events'[e] = events[e],
         \A a \in Address : snapshots'[<<e, a>>] = snapshots[<<e, a>>],
         \A a \in Address : latest'[<<e, a>>] = latest[<<e, a>>]
  PROVE  HandOK(e)'
<1>1. worker[e] \in Busy => inHand[e].address \in Address
  BY DEF HandOK, TypeOK, Object
<1> QED BY <1>1 DEF HandOK, PointInHand, Busy

(***************************************************************************)
(* Every step keeps the invariants about workers: a step of one worker by  *)
(* what it writes, the other devices because a worker writes only at its   *)
(* own points.                                                             *)
(***************************************************************************)
LEMMA HandStep ==
  ASSUME TypeOK, NotStarted, HandInv, [Next]_vars
  PROVE  HandInv'
<1>0. \A d \in Device : HandOK(d)
  BY HandByDevice
<1>5. (\A e \in Device : HandOK(e)') => HandInv'
  <2>1. (\A e \in Device : HandOK(e)') => LatestAgrees'
    BY DEF HandOK, LatestAgrees, Point
  <2> QED BY <2>1 DEF HandInv, HandOK, HasObject, StoredInHand, EventsWhileBusy
<1>1. ASSUME UNCHANGED <<worker, inHand, events, snapshots, latest>>
      PROVE  \A e \in Device : HandOK(e)'
  BY <1>0, <1>1 DEF HandOK, PointInHand
<1>2. ASSUME Restart PROVE \A e \in Device : HandOK(e)'
  BY <1>2 DEF Restart, HandOK, Busy, Point
<1>3. ASSUME Start PROVE \A e \in Device : HandOK(e)'
  <2> SUFFICES ASSUME NEW e \in Device PROVE HandOK(e)'
    OBVIOUS
  <2>1. worker[e] = "off" /\ worker'[e] = "loop"
    BY <1>3 DEF Start, NotStarted
  <2>2. UNCHANGED <<inHand, events, snapshots, latest>>
    BY <1>3 DEF Start, alarms, memory
  <2> QED BY <1>0, <2>1, <2>2 DEF HandOK, Busy
<1>4. ASSUME NEW d \in Device, ReceiveFrame(d) \/ WorkerEnds(d) \/ Handle(d)
      PROVE  \A e \in Device : HandOK(e)'
  <2> DEFINE p == PointInHand(d)
             snap == inHand[d].snapshot
  <2>0. HandOK(d)
    BY <1>0
  <2>1. worker[d] \in Busy => p \in Point /\ inHand[d].address \in Address /\ p = <<d, inHand[d].address>>
    BY <2>0, InHandType DEF HandOK, PointInHand, TypeOK, Object
  <2>2. \A e \in Device : e # d =>
          /\ worker'[e] = worker[e] /\ inHand'[e] = inHand[e] /\ events'[e] = events[e]
          /\ \A a \in Address : snapshots'[<<e, a>>] = snapshots[<<e, a>>]
          /\ \A a \in Address : latest'[<<e, a>>] = latest[<<e, a>>]
    <3> USE DEF TypeOK, Goto, alarms, memory, Point, PointInHand
    <3>1. CASE ReceiveFrame(d) \/ WorkerEnds(d) \/ FrameHandled(d)
      BY <3>1 DEF ReceiveFrame, WorkerEnds, FrameHandled
    <3>8. CASE FrameRefused(d) \/ FrameAccepted(d)
      BY <3>8 DEF FrameRefused, FrameAccepted
    <3>2. CASE ReceiveObject(d)
      BY <3>2 DEF ReceiveObject
    <3>3. CASE EvaluateObject(d)
      BY <3>3 DEF EvaluateObject
    <3>4. CASE RememberBusiness(d) \/ RememberMeasurement(d)
      BY <3>4 DEF RememberBusiness, RememberMeasurement
    <3>5. CASE AppendBusiness(d) \/ AppendMeasurement(d)
      BY <3>5 DEF AppendBusiness, AppendMeasurement
    <3>6. CASE AppendAlarm(d) \/ ObjectHandled(d)
      BY <3>6 DEF AppendAlarm, ObjectHandled
    <3> QED BY <1>4, <3>1, <3>2, <3>3, <3>4, <3>5, <3>6, <3>8 DEF Handle
  <2>3. \A e \in Device : e # d => HandOK(e)'
    BY <1>0, <2>2, OtherHands
  <2>4. HandOK(d)'
    <3> USE DEF TypeOK, Goto, alarms, memory, HandOK, Busy
    <3>1. CASE ReceiveFrame(d) \/ WorkerEnds(d) \/ FrameHandled(d)
      BY <2>0, <3>1 DEF ReceiveFrame, WorkerEnds, FrameHandled
    <3>8. CASE FrameRefused(d) \/ FrameAccepted(d)
      BY <2>0, <3>8 DEF FrameRefused, FrameAccepted
    <3>2. CASE ReceiveObject(d)
      <4>1. /\ worker[d] = "frame"
            /\ worker' = [worker EXCEPT ![d] = "evaluate"]
            /\ UNCHANGED <<events, snapshots, latest>>
        BY <3>2 DEF ReceiveObject
      <4>2. PICK object : object # NoObject /\ inHand' = [inHand EXCEPT ![d] = object]
        <5>1. PICK a \in Address, r \in Reading :
                inHand' = [inHand EXCEPT ![d] =
                             [address |-> a,
                              snapshot |-> [value |-> r.value, state |-> r.state,
                                            quality |-> r.quality, timestamp |-> clock]]]
          BY <3>2 DEF ReceiveObject
        <5>2. [address |-> a,
               snapshot |-> [value |-> r.value, state |-> r.state,
                             quality |-> r.quality, timestamp |-> clock]] \in Object
          BY ReadingAssumption, BoundsAssumption DEF Object, Snapshot
        <5> QED BY <5>1, <5>2, DistinctValues
      <4> QED BY <2>0, <4>1, <4>2
    <3>3. CASE EvaluateObject(d)
      <4>1. /\ snapshots' = [snapshots EXCEPT ![p] = snap]
            /\ worker[d] = "evaluate"
            /\ worker' = [worker EXCEPT ![d] = "rememberBusiness"]
            /\ UNCHANGED <<inHand, latest>>
        BY <3>3 DEF EvaluateObject
      <4>2. snapshots'[p] = snap /\ worker'[d] = "rememberBusiness"
        BY <2>1, <4>1
      <4>3. \A a \in Address : a # inHand[d].address => snapshots'[<<d, a>>] = snapshots[<<d, a>>]
        BY <2>1, <4>1 DEF PointInHand, Point
      <4> QED BY <2>0, <2>1, <4>1, <4>2, <4>3 DEF PointInHand
    <3>4. CASE RememberBusiness(d) \/ RememberMeasurement(d)
      <4>1. /\ worker[d] \in {"rememberBusiness", "rememberMeasure"}
            /\ worker'[d] \in {"appendBusiness", "appendMeasure"}
            /\ UNCHANGED <<inHand, events, snapshots>>
        BY <3>4 DEF RememberBusiness, RememberMeasurement
      <4>2. latest' = [latest EXCEPT ![p] = snap]
        BY <3>4 DEF RememberBusiness, RememberMeasurement
      <4>3. snapshots[p] = snap
        BY <2>0, <4>1
      <4>4. latest'[p] = snapshots'[p]
        BY <2>1, <4>1, <4>2, <4>3
      <4>5. \A a \in Address : a # inHand[d].address => latest'[<<d, a>>] = latest[<<d, a>>]
        BY <2>1, <4>1, <4>2 DEF PointInHand, Point
      <4> QED BY <2>0, <2>1, <4>1, <4>3, <4>4, <4>5 DEF PointInHand
    <3>5. CASE AppendBusiness(d) \/ AppendMeasurement(d)
      BY <2>0, <3>5 DEF AppendBusiness, AppendMeasurement, PointInHand
    <3>6. CASE AppendAlarm(d)
      BY <2>0, <3>6 DEF AppendAlarm, PointInHand
    <3>7. CASE ObjectHandled(d)
      BY <2>0, <3>7 DEF ObjectHandled
    <3> QED BY <1>4, <3>1, <3>2, <3>3, <3>4, <3>5, <3>6, <3>7, <3>8 DEF Handle
  <2> QED BY <2>3, <2>4
<1> QED BY <1>1, <1>2, <1>3, <1>4, <1>5, WorkerFrame

-----------------------------------------------------------------------------
(* stop(). *)

(***************************************************************************)
(* Only the main thread and a restart change how far stop() is.            *)
(***************************************************************************)
LEMMA StopFrame ==
  ASSUME [Next]_vars
  PROVE  \/ UNCHANGED <<main, toStop, joining>>
         \/ Start
         \/ Restart
         \/ Stop
         \/ Stopping
BY DEF Next, Tick, ConnectionChanged, ReceiveFrame, WorkerEnds, Handle, ReceiveObject,
       EvaluateObject, RememberBusiness, AppendBusiness, RememberMeasurement,
       AppendMeasurement, AppendAlarm, ObjectHandled, FrameHandled, FrameRefused, FrameAccepted, Monitor,
       MonitorChecks, MonitorWakes, MonitorScans, MonitorAppends, MonitorDone, vars, process

(***************************************************************************)
(* A thread that ended stays as it is, until the process is restarted.     *)
(***************************************************************************)
LEMMA DoneStays ==
  ASSUME TypeOK, NotStarted, [Next]_vars, ~Restart, NEW d \in Device, worker[d] = "done"
  PROVE  worker'[d] = "done" /\ (~connected[d] => ~connected'[d])
<1> USE DEF TypeOK
<1>1. CASE UNCHANGED <<worker, connected>>
  BY <1>1
<1>2. CASE Start
  BY <1>2 DEF Start, NotStarted
<1>3. ASSUME NEW e \in Device, JoinWorker(e)
      PROVE  worker'[d] = "done" /\ (~connected[d] => ~connected'[d])
  BY <1>3 DEF JoinWorker, handler
<1>4. ASSUME NEW e \in Device,
             ConnectionChanged(e) \/ ReceiveFrame(e) \/ WorkerEnds(e) \/ Handle(e)
      PROVE  worker'[d] = "done" /\ (~connected[d] => ~connected'[d])
  <2>1. worker[e] # "done"
    BY <1>4 DEF ConnectionChanged, ReceiveFrame, WorkerEnds, Handle, ReceiveObject,
       EvaluateObject, RememberBusiness, AppendBusiness, RememberMeasurement,
       AppendMeasurement, AppendAlarm, ObjectHandled, FrameHandled, FrameRefused, FrameAccepted
  <2>2. e # d
    BY <2>1
  <2>3. worker'[d] = worker[d] /\ connected'[d] = connected[d]
    BY <1>4, <2>2 DEF ConnectionChanged, ReceiveFrame, WorkerEnds, Handle, ReceiveObject,
       EvaluateObject, RememberBusiness, AppendBusiness, RememberMeasurement,
       AppendMeasurement, AppendAlarm, ObjectHandled, FrameHandled, FrameRefused, FrameAccepted, Goto, link, handler
  <2> QED BY <2>3
<1>5. \/ UNCHANGED <<worker, connected>>
      \/ Start
      \/ \E e \in Device : JoinWorker(e)
      \/ \E e \in Device :
           ConnectionChanged(e) \/ ReceiveFrame(e) \/ WorkerEnds(e) \/ Handle(e)
  BY DEF Next, Tick, Stop, Stopping, StopClient, JoinMonitor, Monitor, MonitorChecks,
     MonitorWakes, MonitorScans, MonitorAppends, MonitorDone, vars, handler, link
<1> QED BY <1>1, <1>2, <1>3, <1>4, <1>5

(***************************************************************************)
(* The monitor that ended does not come back, unless started again.        *)
(***************************************************************************)
LEMMA MonitorDoneStays ==
  ASSUME [Next]_vars, ~Restart, ~Start, monitor = "done"
  PROVE  monitor' = "done"
BY DEF Next, Tick, Stop, Stopping, StopClient, JoinWorker, JoinMonitor, ConnectionChanged,
       ReceiveFrame, WorkerEnds, Handle, ReceiveObject, EvaluateObject, RememberBusiness,
       AppendBusiness, RememberMeasurement, AppendMeasurement, AppendAlarm, ObjectHandled, FrameHandled,
       FrameRefused, FrameAccepted, Monitor, MonitorChecks, MonitorWakes, MonitorScans, MonitorAppends,
       MonitorDone, vars, watch

(***************************************************************************)
(* Every step keeps the account of the workers that stop() has joined.     *)
(***************************************************************************)
LEMMA JoinedStep ==
  ASSUME TypeOK, NotStarted, JoinedInTurn, [Next]_vars
  PROVE  JoinedInTurn'
<1> USE DEF JoinedInTurn
<1>1. CASE Restart
  BY <1>1 DEF Restart
<1>2. CASE Start
  BY <1>2 DEF Start
<1>3. CASE Stop
  BY <1>3 DEF Stop
<1>4. ASSUME NEW d \in Device, StopClient(d) PROVE JoinedInTurn'
  <2>1. /\ main = "stopping" /\ main' = main
        /\ joining = NoDevice /\ joining' = d
        /\ toStop' = toStop \ {d}
        /\ UNCHANGED <<worker, connected>>
    BY <1>4 DEF StopClient, handler
  <2>2. Device \ (toStop' \cup {joining'}) \subseteq Device \ (toStop \cup {joining})
    BY <2>1, DistinctValues
  <2> QED BY <2>1, <2>2
<1>5. ASSUME NEW d \in Device, JoinWorker(d) PROVE JoinedInTurn'
  BY <1>5, DistinctValues DEF JoinWorker, handler, TypeOK
<1>6. CASE JoinMonitor
  BY <1>6 DEF JoinMonitor, handler, link, watch
<1>7. CASE UNCHANGED <<main, toStop, joining>> /\ ~Restart /\ ~Start
  BY <1>7, DoneStays, MonitorDoneStays
<1> QED BY <1>1, <1>2, <1>3, <1>4, <1>5, <1>6, <1>7, StopFrame DEF Stopping

-----------------------------------------------------------------------------
(* The size of the cache. *)

(***************************************************************************)
(* Only appendBusinessData() and a restart change recentBusiness_.         *)
(***************************************************************************)
LEMMA RecentFrame ==
  ASSUME [Next]_vars
  PROVE  \/ UNCHANGED recent
         \/ Restart
         \/ \E d \in Device : RememberBusiness(d)
BY DEF Next, Tick, Start, Stop, Stopping, StopClient, JoinWorker, JoinMonitor,
       ConnectionChanged, ReceiveFrame, WorkerEnds, Handle, ReceiveObject, EvaluateObject,
       AppendBusiness, RememberMeasurement, AppendMeasurement, AppendAlarm, ObjectHandled, FrameHandled,
       FrameRefused, FrameAccepted, Monitor, MonitorChecks, MonitorWakes, MonitorScans, MonitorAppends,
       MonitorDone, vars, memory

-----------------------------------------------------------------------------
(* The inductive invariant, and what follows from it. *)

(***************************************************************************)
(* The inductive invariant holds at first.                                 *)
(***************************************************************************)
LEMMA InductiveInit == Init => IInv
<1> SUFFICES ASSUME Init PROVE IInv
  OBVIOUS
<1>1. TypeOK
  BY TypeInit
<1>2. NotStarted /\ HasObject /\ StoredInHand /\ EventsWhileBusy
  BY DEF Init, NotStarted, HasObject, StoredInHand, EventsWhileBusy, Busy
<1>3. NowIsPast /\ JoinedInTurn
  BY DEF Init, NowIsPast, JoinedInTurn
<1>4. AlarmsAgreeWithSnapshot /\ StaleIsTrue /\ LatestAgrees
  BY DEF Init, AlarmsAgreeWithSnapshot, StaleIsTrue, LatestAgrees
<1> QED BY <1>1, <1>2, <1>3, <1>4 DEF IInv

(***************************************************************************)
(* Every step keeps the inductive invariant.                               *)
(***************************************************************************)
LEMMA InductiveStep == IInv /\ [Next]_vars => IInv'
<1> SUFFICES ASSUME IInv, [Next]_vars PROVE IInv'
  OBVIOUS
<1>1. TypeOK' /\ NotStarted'
  BY TypeStep, NotStartedStep DEF IInv
<1>2. HandInv'
  BY HandStep DEF IInv, HandInv
<1>3. NowIsPast' /\ JoinedInTurn'
  BY NowStep, JoinedStep DEF IInv
<1>4. AlarmsAgreeWithSnapshot' /\ StaleIsTrue'
  BY AlarmsStep, StaleStep DEF IInv
<1> QED BY <1>1, <1>2, <1>3, <1>4 DEF IInv, HandInv

(***************************************************************************)
(* The inductive invariant holds of every run of the master station.       *)
(***************************************************************************)
THEOREM Inductive == Spec => []IInv
BY InductiveInit, InductiveStep, PTL DEF Spec

(***************************************************************************)
(* The variables keep their types: no thread handles an object it does not *)
(* have, and every line of the file is a line that replay() can read.      *)
(***************************************************************************)
THEOREM TypeCorrect == Spec => []TypeOK
<1>1. IInv => TypeOK
  BY DEF IInv
<1> QED BY <1>1, Inductive, PTL

(***************************************************************************)
(* Except for STALE, the standing alarms of every point are those that its *)
(* last snapshot calls for (onDataObject() and monitorLoop() share them).  *)
(***************************************************************************)
THEOREM AlarmsAgree == Spec => []AlarmsAgreeWithSnapshot
<1>1. IInv => AlarmsAgreeWithSnapshot
  BY DEF IInv
<1> QED BY <1>1, Inductive, PTL

(***************************************************************************)
(* No STALE alarm stands for a point whose data is fresh, though both      *)
(* threads read the clock before they take the mutex.                      *)
(***************************************************************************)
THEOREM StaleTrue == Spec => []StaleIsTrue
<1>1. IInv => StaleIsTrue
  BY DEF IInv
<1> QED BY <1>1, Inductive, PTL

(***************************************************************************)
(* latest_ of the cache differs from snapshots_ of the system only at the  *)
(* point that the worker of its device is about to remember.               *)
(***************************************************************************)
THEOREM LatestFollows == Spec => []LatestAgrees
<1>1. IInv => LatestAgrees
  BY DEF IInv
<1> QED BY <1>1, Inductive, PTL

(***************************************************************************)
(* When stop() has returned, every thread ended with nothing left to       *)
(* append, and every device is shown offline.                              *)
(***************************************************************************)
THEOREM Quiet == Spec => []StoppedIsQuiet
<1>1. IInv => StoppedIsQuiet
  BY DistinctValues DEF IInv, JoinedInTurn, EventsWhileBusy, StoppedIsQuiet, Busy, TypeOK
<1> QED BY <1>1, Inductive, PTL

(***************************************************************************)
(* When stop() has returned, no step changes the cache file.               *)
(***************************************************************************)
THEOREM FileRests == Spec => FileRestsWhenStopped
<1>1. IInv /\ [Next]_vars => (main = "stopped" => UNCHANGED file)
  <2> SUFFICES ASSUME IInv, [Next]_vars, main = "stopped" PROVE UNCHANGED file
    OBVIOUS
  <2>1. monitor = "done" /\ \A d \in Device : worker[d] = "done"
    BY DistinctValues DEF IInv, JoinedInTurn
  <2> QED BY <2>1, FileFrame
      DEF AppendBusiness, AppendMeasurement, AppendAlarm, MonitorAppends, Appending
<1> QED BY <1>1, Inductive, PTL DEF Spec, FileRestsWhenStopped

-----------------------------------------------------------------------------
(* The links: ScadaSystem uses the link of every device as DeviceLink      *)
(* allows.  Iec104ClientProofs shows the other side: the client implements *)
(* DeviceLink.                                                             *)

(***************************************************************************)
(* A client that was not started does not run, and one whose worker does   *)
(* not run is offline.                                                     *)
(***************************************************************************)
LinkInv ==
    \A d \in Device :
      /\ main = "down" => ~clientRunning[d]
      /\ worker[d] \in {"off", "done"} => ~connected[d]

(***************************************************************************)
(* Nothing of the link of a device changes.                                *)
(***************************************************************************)
LinkSame(d) ==
    /\ clientRunning'[d] = clientRunning[d] /\ connected'[d] = connected[d]
    /\ Thread(d)' = Thread(d) /\ objects'[d] = objects[d]

(***************************************************************************)
(* A step of the worker of a device, as DeviceLink sees it.                *)
(***************************************************************************)
LEMMA LinkOfWorker ==
  ASSUME TypeOK, LinkInv, NEW d \in Device,
         ConnectionChanged(d) \/ ReceiveFrame(d) \/ Handle(d) \/ WorkerEnds(d)
  PROVE  LinkSame(d) \/ Link(d)!Next
<1> USE DEF TypeOK, process, link, handler, alarms, watch, memory, disk, time, Goto
<1>1. CASE ConnectionChanged(d)
  BY <1>1 DEF ConnectionChanged, Thread, Link!Next, Link!Change
<1>2. CASE ReceiveFrame(d)
  BY <1>2 DEF ReceiveFrame, Thread, Link!Next, Link!Read
<1>3. CASE FrameRefused(d)
  BY <1>3 DEF FrameRefused, Thread, Link!Next, Link!Refuse
<1>4. CASE FrameAccepted(d)
  BY <1>4, BoundsAssumption DEF FrameAccepted, Thread, Link!Next, Link!Accept
<1>5. CASE ReceiveObject(d)
  BY <1>5 DEF ReceiveObject, Thread, Link!Next, Link!HandOver
<1>6. CASE \/ EvaluateObject(d) \/ RememberBusiness(d) \/ AppendBusiness(d)
           \/ RememberMeasurement(d) \/ AppendMeasurement(d) \/ AppendAlarm(d) \/ ObjectHandled(d)
  <2>1. UNCHANGED <<clientRunning, connected, objects>>
    BY <1>6 DEF EvaluateObject, RememberBusiness, AppendBusiness, RememberMeasurement,
                AppendMeasurement, AppendAlarm, ObjectHandled
  <2>2. worker[d] \in Busy /\ worker'[d] \in Busy \cup {"frame"}
    BY <1>6 DEF EvaluateObject, RememberBusiness, AppendBusiness, RememberMeasurement,
                AppendMeasurement, AppendAlarm, ObjectHandled, Busy
  <2>3. Thread(d) = "frame" /\ Thread(d)' = "frame"
    BY <2>2 DEF Thread, Busy
  <2> QED BY <2>1, <2>3 DEF LinkSame
<1>7. CASE FrameHandled(d)
  BY <1>7 DEF FrameHandled, Thread, Link!Next, Link!FrameDone
<1>8. CASE WorkerEnds(d)
  BY <1>8 DEF WorkerEnds, Thread, Link!Next, Link!End
<1> QED BY <1>1, <1>2, <1>3, <1>4, <1>5, <1>6, <1>7, <1>8 DEF Handle

(***************************************************************************)
(* A step of a worker leaves the links of the other devices alone.         *)
(***************************************************************************)
LEMMA LinkOfOthers ==
  ASSUME TypeOK, NEW d \in Device, NEW e \in Device, e # d,
         ConnectionChanged(e) \/ ReceiveFrame(e) \/ Handle(e) \/ WorkerEnds(e)
  PROVE  LinkSame(d)
BY DEF TypeOK, LinkSame, Thread, Goto, process, link, handler, ConnectionChanged, ReceiveFrame,
       WorkerEnds, Handle, FrameRefused, FrameAccepted, ReceiveObject, EvaluateObject,
       RememberBusiness, AppendBusiness, RememberMeasurement, AppendMeasurement,
       AppendAlarm, ObjectHandled, FrameHandled

(***************************************************************************)
(* The main thread starts and stops the client of a device as DeviceLink   *)
(* allows, and the end of the process is the end of every link.            *)
(***************************************************************************)
LEMMA LinkOfMain ==
  ASSUME TypeOK, NotStarted, LinkInv, NEW d \in Device,
         Restart \/ Start \/ Stop \/ Stopping
  PROVE  LinkSame(d) \/ Link(d)!Next
<1> USE DEF TypeOK, handler, link
<1>1. CASE Restart
  BY <1>1 DEF Restart, Thread, Link!Next, Link!Vanish
<1>2. CASE Start
  BY <1>2 DEF Start, NotStarted, LinkInv, Thread, Link!Next, Link!Start
<1>3. CASE Stop
  BY <1>3 DEF Stop, LinkSame, Thread
<1>4. ASSUME NEW e \in Device, StopClient(e)
      PROVE  LinkSame(d) \/ Link(d)!Next
  <2>1. CASE e = d /\ clientRunning[d]
    BY <1>4, <2>1 DEF StopClient, Thread, Link!Next, Link!Stop
  <2>2. CASE ~(e = d /\ clientRunning[d])
    BY <1>4, <2>2 DEF StopClient, LinkSame, Thread
  <2> QED BY <2>1, <2>2
<1>5. ASSUME NEW e \in Device, JoinWorker(e)
      PROVE  LinkSame(d)
  BY <1>5 DEF JoinWorker, LinkInv, LinkSame, Thread
<1>6. CASE JoinMonitor
  BY <1>6 DEF JoinMonitor, LinkSame, Thread
<1> QED BY <1>1, <1>2, <1>3, <1>4, <1>5, <1>6 DEF Stopping

(***************************************************************************)
(* The steps that no link has a part in.                                   *)
(***************************************************************************)
LEMMA LinkOfRest ==
  ASSUME NEW d \in Device, Tick \/ Monitor \/ UNCHANGED vars
  PROVE  LinkSame(d)
BY DEF LinkSame, Thread, Tick, Monitor, MonitorChecks, MonitorWakes, MonitorScans,
       MonitorAppends, MonitorDone, vars, link, handler

(***************************************************************************)
(* Every step of the system is, for every device, a step of its DeviceLink *)
(* or none.                                                                *)
(***************************************************************************)
LEMMA LinkStep ==
  ASSUME TypeOK, NotStarted, LinkInv, [Next]_vars, NEW d \in Device
  PROVE  [Link(d)!Next]_(Link(d)!vars)
<1>1. LinkSame(d) \/ Link(d)!Next
  BY LinkOfWorker, LinkOfOthers, LinkOfMain, LinkOfRest DEF Next
<1> QED BY <1>1 DEF LinkSame, Link!vars

(***************************************************************************)
(* Every step keeps LinkInv.                                               *)
(***************************************************************************)
LEMMA LinkInvStep ==
  ASSUME TypeOK, NotStarted, LinkInv, [Next]_vars
  PROVE  LinkInv'
<1> USE DEF TypeOK, LinkInv, NotStarted, handler, link, process
<1>1. CASE Restart
  BY <1>1 DEF Restart
<1>2. CASE Start
  BY <1>2 DEF Start
<1>3. CASE Stop
  BY <1>3 DEF Stop
<1>4. CASE \E d \in Device : StopClient(d)
  BY <1>4 DEF StopClient
<1>5. CASE \E d \in Device : JoinWorker(d)
  BY <1>5 DEF JoinWorker
<1>6. CASE JoinMonitor
  BY <1>6 DEF JoinMonitor
<1>7. ASSUME NEW d \in Device,
             ConnectionChanged(d) \/ ReceiveFrame(d) \/ Handle(d) \/ WorkerEnds(d)
      PROVE  LinkInv'
  <2>1. main' = main /\ clientRunning' = clientRunning
    BY <1>7 DEF ConnectionChanged, ReceiveFrame, WorkerEnds, Handle, FrameRefused, FrameAccepted,
       ReceiveObject, EvaluateObject, RememberBusiness, AppendBusiness, RememberMeasurement,
       AppendMeasurement, AppendAlarm, ObjectHandled, FrameHandled
  <2>2. \A e \in Device \ {d} : worker'[e] = worker[e] /\ connected'[e] = connected[e]
    BY <1>7 DEF Goto, ConnectionChanged, ReceiveFrame, WorkerEnds, Handle, FrameRefused,
       FrameAccepted, ReceiveObject, EvaluateObject, RememberBusiness, AppendBusiness,
       RememberMeasurement, AppendMeasurement, AppendAlarm, ObjectHandled, FrameHandled
  <2>3. worker'[d] \in {"off", "done"} => ~connected'[d]
    BY <1>7 DEF Goto, Busy, ConnectionChanged, ReceiveFrame, WorkerEnds, Handle, FrameRefused,
       FrameAccepted, ReceiveObject, EvaluateObject, RememberBusiness, AppendBusiness,
       RememberMeasurement, AppendMeasurement, AppendAlarm, ObjectHandled, FrameHandled
  <2> QED BY <2>1, <2>2, <2>3
<1>8. CASE Tick \/ Monitor \/ UNCHANGED vars
  BY <1>8 DEF Tick, Monitor, MonitorChecks, MonitorWakes, MonitorScans, MonitorAppends,
     MonitorDone, vars
<1> QED BY <1>1, <1>2, <1>3, <1>4, <1>5, <1>6, <1>7, <1>8 DEF Next, Stopping

(***************************************************************************)
(* start(), stop() and onDataObject() deal with the client of each device  *)
(* as DeviceLink allows: they start it when it does not run, stop it once, *)
(* and take every object of a frame before the next frame.                 *)
(***************************************************************************)
THEOREM SystemUsesDeviceLinks == Spec => LinksAreDeviceLinks
<1>1. Init => LinkInv
  BY DEF Init, LinkInv
<1>2. IInv /\ LinkInv /\ [Next]_vars => LinkInv'
  BY LinkInvStep DEF IInv
<1>3. Init => \A d \in Device : Link(d)!Init
  BY DEF Init, Thread, Link!Init
<1>4. IInv /\ LinkInv /\ [Next]_vars => \A d \in Device : [Link(d)!Next]_(Link(d)!vars)
  BY LinkStep DEF IInv
<1> QED BY <1>1, <1>2, <1>3, <1>4, Inductive, PTL DEF Spec, LinksAreDeviceLinks

=============================================================================
