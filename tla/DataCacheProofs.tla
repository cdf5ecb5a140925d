-------------------------- MODULE DataCacheProofs ---------------------------
(***************************************************************************)
(* Theorems about DataCache, for any number of threads and points, any     *)
(* limit of the cache, and any number of appends and faults.               *)
(***************************************************************************)
EXTENDS DataCache, SequenceTheorems, TLAPS

Line == Record \cup {Damaged}

-----------------------------------------------------------------------------
(* Sequences of lines. *)

(***************************************************************************)
(* Newest returns the end of a sequence that is too long.                  *)
(***************************************************************************)
LEMMA NewestIs ==
  ASSUME NEW S, NEW seq \in Seq(S), NEW n \in Nat
  PROVE  /\ Newest(seq, n) \in Seq(S)
         /\ Len(Newest(seq, n)) <= n
         /\ Len(seq) <= n => Newest(seq, n) = seq
         /\ Len(seq) > n => /\ Len(Newest(seq, n)) = n
                            /\ \A i \in 1..n : Newest(seq, n)[i] = seq[Len(seq) - n + i]
<1>1. CASE Len(seq) <= n
  BY <1>1, LenProperties DEF Newest
<1>2. CASE Len(seq) > n
  <2> DEFINE m == Len(seq) - n + 1
  <2>1. m = Len(seq) - n + 1 /\ m \in Int /\ Len(seq) \in Nat /\ m \in 1..Len(seq) + 1 /\ Len(seq) - m + 1 = n
    BY <1>2, LenProperties
  <2>2. \A i \in m..Len(seq) : seq[i] \in S
    BY <2>1, ElementOfSeq
  <2>3. Newest(seq, n) = SubSeq(seq, m, Len(seq))
    BY <1>2, <2>1 DEF Newest
  <2> HIDE DEF m
  <2>4. /\ SubSeq(seq, m, Len(seq)) \in Seq(S)
        /\ Len(SubSeq(seq, m, Len(seq))) = IF m <= Len(seq) THEN Len(seq) - m + 1 ELSE 0
        /\ \A i \in 1..n : SubSeq(seq, m, Len(seq))[i] = seq[m + i - 1]
    BY <2>1, <2>2, SubSeqProperties
  <2>5. \A i \in 1..n : m + i - 1 = Len(seq) - n + i
    BY <2>1
  <2> QED BY <1>2, <2>1, <2>3, <2>4, <2>5
<1> QED BY <1>1, <1>2, LenProperties

(***************************************************************************)
(* s is the beginning of t, perhaps with a damaged line behind it.         *)
(***************************************************************************)
IsCut(s, t) ==
    \E n \in 0..Len(t) :
      /\ Len(s) \in {n, n + 1}
      /\ \A i \in 1..n : s[i] = t[i]
      /\ Len(s) = n + 1 => s[n + 1] = Damaged

(***************************************************************************)
(* The lines of each thread are in order.                                  *)
(***************************************************************************)
Ordered(s) ==
    \A i, j \in 1..Len(s) :
      i < j /\ Damaged \notin {s[i], s[j]} /\ s[i].by = s[j].by => s[i].number < s[j].number

(***************************************************************************)
(* No line of s is later than the line with this thread and this number.   *)
(***************************************************************************)
AllBefore(s, by, number) ==
    \A i \in 1..Len(s) : s[i] # Damaged /\ s[i].by = by => s[i].number < number

(***************************************************************************)
(* A line that comes after all lines of its thread keeps the order.        *)
(***************************************************************************)
LEMMA OrderedAppend ==
  ASSUME NEW s \in Seq(Line), NEW line \in Record, Ordered(s),
         AllBefore(s, line.by, line.number)
  PROVE  Ordered(Append(s, line))
<1>1. /\ Len(s) \in Nat /\ Len(Append(s, line)) = Len(s) + 1
      /\ \A i \in 1..Len(s) : Append(s, line)[i] = s[i]
      /\ Append(s, line)[Len(s) + 1] = line
  BY DEF Line
<1> DEFINE longer == Append(s, line)
<1> SUFFICES ASSUME NEW i \in 1..Len(longer), NEW j \in 1..Len(longer), i < j,
                    Damaged \notin {longer[i], longer[j]}, longer[i].by = longer[j].by
             PROVE  longer[i].number < longer[j].number
  BY DEF Ordered
<1>2. i \in 1..Len(s) /\ longer[i] = s[i]
  BY <1>1
<1> HIDE DEF longer
<1>3. CASE j = Len(s) + 1
  <2>1. longer[j] = line
    BY <1>1, <1>3 DEF longer
  <2> QED BY <1>2, <2>1 DEF AllBefore
<1>4. CASE j # Len(s) + 1
  <2>1. j \in 1..Len(s) /\ longer[j] = s[j]
    BY <1>1, <1>4 DEF longer
  <2> QED BY <1>2, <2>1 DEF Ordered
<1> QED BY <1>3, <1>4

(***************************************************************************)
(* To drop the oldest lines keeps the order of the others.                 *)
(***************************************************************************)
LEMMA OrderedNewest ==
  ASSUME NEW s \in Seq(Line), NEW n \in Nat, Len(s) > n, Ordered(s)
  PROVE  /\ Ordered(Newest(s, n))
         /\ \A by, number : AllBefore(s, by, number) => AllBefore(Newest(s, n), by, number)
<1> DEFINE new == Newest(s, n)
<1>1. Len(s) \in Nat /\ Len(new) = n /\ \A i \in 1..n : new[i] = s[Len(s) - n + i]
  BY NewestIs, LenProperties
<1> HIDE DEF new
<1>2. \A i \in 1..n : Len(s) - n + i \in 1..Len(s)
  BY <1>1
<1>3. ASSUME NEW i \in 1..n, NEW j \in 1..n, i < j,
             Damaged \notin {new[i], new[j]}, new[i].by = new[j].by
      PROVE  new[i].number < new[j].number
  <2>1. Len(s) - n + i < Len(s) - n + j
    BY <1>1, <1>3
  <2> QED BY <1>1, <1>2, <1>3, <2>1 DEF Ordered
<1>4. Ordered(new)
  BY <1>1, <1>3 DEF Ordered
<1>5. ASSUME NEW by, NEW number, AllBefore(s, by, number) PROVE AllBefore(new, by, number)
  BY <1>1, <1>2, <1>5 DEF AllBefore
<1> QED BY <1>4, <1>5 DEF new

(***************************************************************************)
(* A file that was cut, with or without a damaged line at its end, is in   *)
(* order if the whole was.                                                 *)
(***************************************************************************)
LEMMA OrderedCut ==
  ASSUME NEW s \in Seq(Line), NEW t \in Seq(Line), IsCut(s, t), Ordered(t)
  PROVE  /\ Ordered(s)
         /\ \A by, number : AllBefore(t, by, number) => AllBefore(s, by, number)
<1>1. PICK n \in 0..Len(t) :
         /\ Len(s) \in {n, n + 1}
         /\ \A i \in 1..n : s[i] = t[i]
         /\ Len(s) = n + 1 => s[n + 1] = Damaged
  BY DEF IsCut
<1>2. Len(t) \in Nat /\ Len(s) \in Nat
  BY LenProperties
<1>3. \A i \in 1..Len(s) : s[i] # Damaged => i \in 1..n /\ i \in 1..Len(t) /\ s[i] = t[i]
  BY <1>1, <1>2
<1>4. Ordered(s)
  BY <1>3 DEF Ordered
<1>5. ASSUME NEW by, NEW number, AllBefore(t, by, number) PROVE AllBefore(s, by, number)
  BY <1>3, <1>5 DEF AllBefore
<1> QED BY <1>4, <1>5

-----------------------------------------------------------------------------
(* The inductive invariant. *)

Inside == {"open", "truncate", "rewrite", "flush"}

(***************************************************************************)
(* The mutex is held by the one thread that is in appendLine().            *)
(***************************************************************************)
MutexMatches == \A t \in Thread : pc[t] \in Inside <=> mutex = t

(***************************************************************************)
(* A thread that appends has a record of its own.                          *)
(***************************************************************************)
RecordMatches ==
    \A t \in Thread : pc[t] # "idle" =>
      record[t] \in Record /\ record[t].by = t /\ record[t].number <= appends

(***************************************************************************)
(* How long the file and the rest of the rewrite are, step by step.        *)
(***************************************************************************)
LinesMatch ==
    /\ lines # << >> => \E t \in Thread : pc[t] \in {"truncate", "rewrite"}
    /\ \A t \in Thread :
         /\ pc[t] = "truncate" => Len(file) > MaxRecords /\ lines = Newest(file, MaxRecords)
         /\ pc[t] = "rewrite" => Len(file) + Len(lines) <= MaxRecords /\ missed = 0
         /\ pc[t] = "flush" => Len(file) <= MaxRecords + missed

(***************************************************************************)
(* Nothing in the cache is later than what a thread is about to append.    *)
(***************************************************************************)
NothingLater ==
    /\ \A t \in Thread : AllBefore(Contents, t, appends + 1)
    /\ \A t \in Thread : pc[t] # "idle" => AllBefore(Contents, t, record[t].number)

(***************************************************************************)
(* end is the end of s.                                                    *)
(***************************************************************************)
IsEnd(end, s) ==
    /\ Len(end) <= Len(s)
    /\ \A i \in 1..Len(end) : end[i] = s[Len(s) - Len(end) + i]

(***************************************************************************)
(* What is kept is at most what a trim keeps, and the end of the contents. *)
(***************************************************************************)
KeptMatches == Len(kept) <= MaxRecords /\ IsEnd(kept, Contents)

(***************************************************************************)
(* Each trim that missed is a fault.                                       *)
(***************************************************************************)
MissedMatches == missed <= faults

IInv ==
    /\ TypeOK /\ MissedMatches /\ MutexMatches /\ RecordMatches /\ LinesMatch /\ CacheBounded
    /\ Ordered(Contents) /\ NothingLater
    /\ KeptMatches

-----------------------------------------------------------------------------
(* Types, and who is where. *)

Label == {"idle", "remember", "lock", "open", "truncate", "rewrite", "flush"}

(***************************************************************************)
(* What the assumptions say of the constants.                              *)
(***************************************************************************)
LEMMA Constants ==
  /\ MaxRecords \in Nat /\ MaxAppends \in Nat /\ MaxFaults \in Nat
  /\ NoThread \notin Thread
  /\ Damaged \notin Record /\ NoRecord \notin Record
<1>1. NoRecord.kind \notin Kinds
  BY DEF NoRecord, Kinds
<1>2. NoRecord \notin Record
  BY <1>1 DEF Record
<1> QED BY <1>2, MaxRecordsAssumption, MaxAppendsAssumption, MaxFaultsAssumption,
           ThreadAssumption, DamagedAssumption

(***************************************************************************)
(* Every step keeps the types.                                             *)
(***************************************************************************)
LEMMA TypeStep == IInv /\ [Next]_vars => TypeOK'
<1> SUFFICES ASSUME IInv, [Next]_vars PROVE TypeOK'
  OBVIOUS
<1> USE Constants DEF memory, disk, count, observed, Goto, Return, Label
<1>1. TypeOK
  BY DEF IInv
<1>2. CASE UNCHANGED vars
  BY <1>1, <1>2 DEF TypeOK, vars
<1>3. CASE Crash
  <2>1. lines' \in Seq(Record \cup {Damaged}) /\ recent' \in Seq(1..MaxAppends)
    BY <1>3 DEF Crash
  <2>2. file' \in Seq(Record \cup {Damaged}) /\ torn' \in BOOLEAN
    <3>1. CASE UNCHANGED disk
      BY <1>1, <3>1 DEF TypeOK
    <3>2. CASE file' = Append(file, Damaged) /\ torn' = TRUE
      BY <1>1, <3>2 DEF TypeOK
    <3> QED BY <1>3, <3>1, <3>2 DEF Crash
  <2>3. faults' \in 0..MaxFaults /\ appends' \in 0..MaxAppends
    BY <1>1, <1>3 DEF Crash, Fault, TypeOK
  <2>4. /\ pc' \in [Thread -> Label] /\ record' \in [Thread -> Record \cup {NoRecord}]
        /\ mutex' \in Thread \cup {NoThread} /\ latest' \in [Key -> 0..MaxAppends]
    BY <1>3 DEF Crash
  <2>5. missed' \in 0..MaxFaults /\ kept' \in Seq(Record \cup {Damaged})
    BY <1>1, <1>3 DEF Crash, TypeOK
  <2> QED BY <2>1, <2>2, <2>3, <2>4, <2>5 DEF TypeOK
<1>4. ASSUME NEW t \in Thread, Call(t) PROVE TypeOK'
  <2>1. appends' \in 0..MaxAppends /\ appends + 1 \in 1..MaxAppends
    BY <1>1, <1>4 DEF Call, TypeOK
  <2>2. PICK kind \in Kinds, key \in Key :
          /\ record' = [record EXCEPT ![t] =
                          [kind |-> kind, key |-> key, by |-> t, number |-> appends + 1]]
          /\ Goto(t, IF kind = "ALARM" THEN "lock" ELSE "remember")
    BY <1>4 DEF Call
  <2>3. [kind |-> kind, key |-> key, by |-> t, number |-> appends + 1] \in Record
    BY <2>1 DEF Record
  <2>4. record' \in [Thread -> Record \cup {NoRecord}]
    BY <1>1, <2>2, <2>3 DEF TypeOK
  <2>5. pc' \in [Thread -> Label]
    BY <1>1, <2>2 DEF TypeOK
  <2> QED BY <1>1, <1>4, <2>1, <2>4, <2>5 DEF Call, TypeOK
<1>5. ASSUME NEW t \in Thread, Remember(t) PROVE TypeOK'
  <2>1. record[t] \in Record
    BY <1>5 DEF IInv, RecordMatches, Remember
  <2>2. record[t].number \in 1..MaxAppends /\ record[t].key \in Key
    BY <2>1 DEF Record
  <2>3. latest' \in [Key -> 0..MaxAppends]
    BY <1>1, <1>5, <2>2 DEF Remember, TypeOK
  <2>4. recent' \in Seq(1..MaxAppends)
    <3>1. Append(recent, record[t].number) \in Seq(1..MaxAppends)
      BY <1>1, <2>2 DEF TypeOK
    <3> QED BY <1>1, <1>5, <3>1, NewestIs DEF Remember, RememberRecent, TypeOK
  <2> QED BY <1>1, <1>5, <2>3, <2>4 DEF Remember, TypeOK
<1>6. ASSUME NEW t \in Thread, Lock(t) \/ Truncate(t) \/ CloseRewrite(t) PROVE TypeOK'
  <2>0. missed' \in 0..MaxFaults
    BY <1>1, <1>6 DEF Lock, Truncate, CloseRewrite, TypeOK
  <2>1. file' \in Seq(Record \cup {Damaged}) /\ torn' \in BOOLEAN
    <3>1. CASE UNCHANGED disk
      BY <1>1, <3>1 DEF TypeOK
    <3>2. CASE file' = << >> /\ torn' = FALSE
      <4>1. << >> \in Seq(Record \cup {Damaged})
        OBVIOUS
      <4> QED BY <3>2, <4>1, Zenon
    <3> QED BY <1>6, <3>1, <3>2 DEF Lock, Truncate, CloseRewrite
  <2> QED BY <1>1, <1>6, <2>0, <2>1 DEF Lock, Truncate, CloseRewrite, TypeOK
<1>7. ASSUME NEW t \in Thread, OpenFails(t) PROVE TypeOK'
  <2>1. faults' \in 0..MaxFaults
    BY <1>1, <1>7 DEF OpenFails, Fault, TypeOK
  <2> QED BY <1>1, <1>7, <2>1 DEF OpenFails, TypeOK
<1>8. ASSUME NEW t \in Thread, ReadFile(t) PROVE TypeOK'
  <2>1. lines' \in Seq(Record \cup {Damaged})
    <3>1. Newest(file, MaxRecords) \in Seq(Record \cup {Damaged})
      BY <1>1, NewestIs DEF TypeOK
    <3>2. << >> \in Seq(Record \cup {Damaged})
      OBVIOUS
    <3> QED BY <1>8, <3>1, <3>2 DEF ReadFile
  <2>2. pc' \in [Thread -> Label]
    BY <1>1, <1>8 DEF ReadFile, TypeOK
  <2>3. missed' \in 0..MaxFaults
    BY <1>1, <1>8 DEF ReadFile, TypeOK
  <2> QED BY <1>1, <1>8, <2>1, <2>2, <2>3 DEF ReadFile, TypeOK
<1>13. ASSUME NEW t \in Thread, ReadFails(t) \/ TruncateFails(t) PROVE TypeOK'
  <2>1. faults' \in 0..MaxFaults /\ missed' \in 0..MaxFaults
    BY <1>1, <1>13 DEF ReadFails, TruncateFails, Fault, TypeOK, IInv, MissedMatches
  <2>2. lines' \in Seq(Record \cup {Damaged})
    <3>1. << >> \in Seq(Record \cup {Damaged})
      OBVIOUS
    <3> QED BY <1>1, <1>13, <3>1 DEF ReadFails, TruncateFails, TypeOK
  <2> QED BY <1>1, <1>13, <2>1, <2>2 DEF ReadFails, TruncateFails, TypeOK
<1>9. ASSUME NEW t \in Thread, Rewrite(t) PROVE TypeOK'
  <2>1. file' \in Seq(Record \cup {Damaged}) /\ lines' \in Seq(Record \cup {Damaged})
    BY <1>1, <1>9 DEF Rewrite, TypeOK
  <2> QED BY <1>1, <1>9, <2>1 DEF Rewrite, TypeOK
<1>10. ASSUME NEW t \in Thread, RewriteFails(t) PROVE TypeOK'
  <2>1. file' \in Seq(Record \cup {Damaged}) /\ lines' \in Seq(Record \cup {Damaged})
        /\ torn' \in BOOLEAN
    BY <1>1, <1>10 DEF RewriteFails, TypeOK
  <2>2. faults' \in 0..MaxFaults
    BY <1>1, <1>10 DEF RewriteFails, Fault, TypeOK
  <2>3. kept' \in Seq(Record \cup {Damaged})
    BY <1>10 DEF RewriteFails
  <2> QED BY <1>1, <1>10, <2>1, <2>2, <2>3 DEF RewriteFails, TypeOK
<1>11. ASSUME NEW t \in Thread, Flush(t) PROVE TypeOK'
  <2>1. record[t] \in Record
    BY <1>11 DEF IInv, RecordMatches, Flush
  <2>2. file' \in Seq(Record \cup {Damaged})
    BY <1>1, <1>11, <2>1 DEF Flush, TypeOK
  <2>3. Newest(Append(kept, record[t]), MaxRecords) \in Seq(Record \cup {Damaged})
    <3>1. Append(kept, record[t]) \in Seq(Record \cup {Damaged})
      BY <1>1, <2>1 DEF TypeOK
    <3> QED BY <3>1, NewestIs
  <2>4. kept' \in Seq(Record \cup {Damaged})
    BY <1>1, <1>11, <2>3 DEF Flush, TypeOK
  <2> QED BY <1>1, <1>11, <2>2, <2>4 DEF Flush, TypeOK
<1>12. ASSUME NEW t \in Thread, FlushFails(t) PROVE TypeOK'
  <2>1. file' \in Seq(Record \cup {Damaged})
    BY <1>1, <1>12 DEF FlushFails, TypeOK
  <2>2. torn' \in BOOLEAN
    BY <1>1, <1>12, Zenon DEF FlushFails, TypeOK
  <2>3. faults' \in 0..MaxFaults
    BY <1>1, <1>12 DEF FlushFails, Fault, TypeOK
  <2>4. Newest(Append(kept, Damaged), MaxRecords) \in Seq(Record \cup {Damaged})
    <3>1. Append(kept, Damaged) \in Seq(Record \cup {Damaged})
      BY <1>1 DEF TypeOK
    <3> QED BY <3>1, NewestIs
  <2>5. kept' \in Seq(Record \cup {Damaged})
    BY <1>1, <1>12, <2>4 DEF FlushFails, TypeOK
  <2> QED BY <1>1, <1>12, <2>1, <2>2, <2>3, <2>5 DEF FlushFails, TypeOK
<1> QED BY <1>2, <1>3, <1>4, <1>5, <1>6, <1>7, <1>8, <1>9, <1>10, <1>11, <1>12, <1>13 DEF Next, Step

(***************************************************************************)
(* A step of a thread that is in appendLine() leaves the others outside.   *)
(***************************************************************************)
LEMMA Alone ==
  ASSUME IInv, NEW t \in Thread, pc[t] \in Inside
  PROVE  mutex = t /\ \A u \in Thread \ {t} : pc[u] \notin Inside
BY DEF IInv, MutexMatches

(***************************************************************************)
(* Every step keeps count of the trims that missed.                        *)
(***************************************************************************)
LEMMA MissedStep == IInv /\ [Next]_vars => MissedMatches'
<1> SUFFICES ASSUME IInv, [Next]_vars PROVE MissedMatches'
  OBVIOUS
<1> USE DEF count, observed
<1>1. missed \in Nat /\ faults \in Nat /\ missed <= faults
  BY Constants DEF IInv, TypeOK, MissedMatches
<1>2. CASE UNCHANGED vars
  BY <1>1, <1>2 DEF vars, MissedMatches
<1>3. CASE Crash
  BY <1>1, <1>3 DEF Crash, Fault, MissedMatches
<1>4. ASSUME NEW t \in Thread, Step(t)
      PROVE  \/ missed' \in {0, missed} /\ faults' \in {faults, faults + 1}
             \/ missed' = missed + 1 /\ faults' = faults + 1
  BY <1>4 DEF Step, Call, Remember, Lock, OpenFails, ReadFile, ReadFails, Truncate, TruncateFails,
              Rewrite, CloseRewrite, RewriteFails, Flush, FlushFails, Fault
<1>5. ASSUME NEW t \in Thread, Step(t) PROVE MissedMatches'
  BY <1>1, <1>4, <1>5 DEF MissedMatches
<1> QED BY <1>2, <1>3, <1>5 DEF Next

(***************************************************************************)
(* Every step keeps the mutex with the thread that is inside.              *)
(***************************************************************************)
LEMMA MutexStep == IInv /\ [Next]_vars => MutexMatches'
<1> SUFFICES ASSUME IInv, [Next]_vars PROVE MutexMatches'
  OBVIOUS
<1> USE Constants DEF memory, disk, count, observed, Goto, Return, Inside
<1>1. /\ MutexMatches /\ mutex \in Thread \cup {NoThread}
      /\ pc \in [Thread -> Label]
  BY DEF IInv, TypeOK, Label
<1>2. CASE UNCHANGED vars
  BY <1>1, <1>2 DEF MutexMatches, vars
<1>3. CASE Crash
  BY <1>3 DEF Crash, MutexMatches
<1>4. ASSUME NEW t \in Thread, Call(t) \/ Remember(t) PROVE MutexMatches'
  <2>1. UNCHANGED mutex /\ pc[t] \notin Inside
        /\ \E l \in {"lock", "remember"} : pc' = [pc EXCEPT ![t] = l]
    BY <1>4 DEF Call, Remember
  <2> QED BY <1>1, <2>1 DEF MutexMatches
<1>5. ASSUME NEW t \in Thread, Lock(t) PROVE MutexMatches'
  BY <1>1, <1>5 DEF Lock, MutexMatches
<1>6. ASSUME NEW t \in Thread,
             \/ ReadFile(t) \/ ReadFails(t) \/ Truncate(t) \/ TruncateFails(t)
             \/ Rewrite(t) \/ CloseRewrite(t) \/ RewriteFails(t)
      PROVE  MutexMatches'
  <2>1. UNCHANGED mutex /\ pc[t] \in Inside
        /\ \/ pc' = pc
           \/ \E l \in Inside : pc' = [pc EXCEPT ![t] = l]
    BY <1>6 DEF ReadFile, ReadFails, Truncate, TruncateFails, Rewrite, CloseRewrite, RewriteFails
  <2> QED BY <1>1, <2>1 DEF MutexMatches
<1>7. ASSUME NEW t \in Thread, OpenFails(t) \/ Flush(t) \/ FlushFails(t) PROVE MutexMatches'
  <2>1. pc[t] \in Inside /\ mutex' = NoThread /\ pc' = [pc EXCEPT ![t] = "idle"]
    BY <1>7 DEF OpenFails, Flush, FlushFails
  <2> QED BY <1>1, <2>1, Alone DEF MutexMatches
<1> QED BY <1>2, <1>3, <1>4, <1>5, <1>6, <1>7 DEF Next, Step

(***************************************************************************)
(* Only a call gives a thread a record, with the next number.              *)
(***************************************************************************)
Called(t) ==
    /\ pc[t] = "idle"
    /\ UNCHANGED <<lines, file, faults>>
    /\ appends' = appends + 1
    /\ \E label \in {"lock", "remember"} : pc' = [pc EXCEPT ![t] = label]
    /\ record'[t] \in Record /\ record'[t].by = t /\ record'[t].number = appends + 1
    /\ \A u \in Thread \ {t} : record'[u] = record[u]

(***************************************************************************)
(* A call changes nothing but the thread that makes it and the count of    *)
(* the calls.                                                              *)
(***************************************************************************)
LEMMA CallIs ==
  ASSUME IInv, TypeOK', NEW t \in Thread, Call(t)
  PROVE  Called(t)
<1> USE DEF Goto, disk
<1>1. PICK kind \in Kinds, key \in Key :
        /\ record' = [record EXCEPT ![t] =
                        [kind |-> kind, key |-> key, by |-> t, number |-> appends + 1]]
        /\ pc' = [pc EXCEPT ![t] = IF kind = "ALARM" THEN "lock" ELSE "remember"]
  BY DEF Call
<1>2. appends + 1 \in 1..MaxAppends
  BY Constants DEF Call, IInv, TypeOK
<1>3. [kind |-> kind, key |-> key, by |-> t, number |-> appends + 1] \in Record
  BY <1>2 DEF Record
<1>4. record \in [Thread -> Record \cup {NoRecord}]
  BY DEF IInv, TypeOK
<1> QED BY <1>1, <1>3, <1>4 DEF Call, Called

(***************************************************************************)
(* The other steps leave the records of the threads that go on alone.      *)
(***************************************************************************)
LEMMA RecordKept ==
  ASSUME IInv, [Next]_vars, \A t \in Thread : ~Call(t)
  PROVE  /\ appends' = appends
         /\ \A u \in Thread : pc'[u] # "idle" => pc[u] # "idle" /\ record'[u] = record[u]
<1> USE DEF memory, disk, count, observed, Goto, Return
<1>1. pc \in [Thread -> Label] /\ record \in [Thread -> Record \cup {NoRecord}]
  BY DEF IInv, TypeOK, Label
<1>2. CASE UNCHANGED vars
  BY <1>2 DEF vars
<1>3. CASE Crash
  BY <1>3 DEF Crash
<1>4. ASSUME NEW t \in Thread, Step(t)
      PROVE  /\ appends' = appends /\ pc[t] # "idle"
             /\ \/ record' = record
                \/ record' = [record EXCEPT ![t] = NoRecord] /\ pc' = [pc EXCEPT ![t] = "idle"]
             /\ \/ pc' = pc
                \/ \E label \in Label : pc' = [pc EXCEPT ![t] = label]
  BY <1>4 DEF Step, Remember, Lock, OpenFails, ReadFile, ReadFails, Truncate, TruncateFails, Rewrite,
              CloseRewrite, RewriteFails, Flush, FlushFails, Label
<1>5. ASSUME NEW t \in Thread, Step(t), NEW u \in Thread, pc'[u] # "idle"
      PROVE  pc[u] # "idle" /\ record'[u] = record[u]
  BY <1>1, <1>4, <1>5
<1> QED BY <1>2, <1>3, <1>4, <1>5 DEF Next

(***************************************************************************)
(* Every step keeps the record of a thread that appends.                   *)
(***************************************************************************)
LEMMA RecordStep == IInv /\ [Next]_vars => RecordMatches'
<1> SUFFICES ASSUME IInv, [Next]_vars PROVE RecordMatches'
  OBVIOUS
<1>1. appends \in Nat /\ pc \in [Thread -> Label]
  BY Constants DEF IInv, TypeOK, Label
<1>2. ASSUME NEW t \in Thread, Call(t) PROVE RecordMatches'
  <2>1. Called(t)
    BY <1>2, CallIs, TypeStep
  <2>2. SUFFICES ASSUME NEW u \in Thread, pc'[u] # "idle"
                 PROVE  record'[u] \in Record /\ record'[u].by = u /\ record'[u].number <= appends'
    BY DEF RecordMatches
  <2>3. CASE u = t
    BY <1>1, <2>1, <2>3 DEF Called
  <2>4. CASE u # t
    <3>1. pc[u] # "idle" /\ record'[u] = record[u]
      BY <1>1, <2>1, <2>2, <2>4 DEF Called
    <3>2. record[u] \in Record /\ record[u].by = u /\ record[u].number <= appends
      BY <3>1 DEF IInv, RecordMatches
    <3>3. record[u].number \in Nat
      BY <3>2, Constants DEF Record
    <3> QED BY <1>1, <2>1, <3>1, <3>2, <3>3 DEF Called
  <2> QED BY <2>3, <2>4
<1>3. CASE \A t \in Thread : ~Call(t)
  BY <1>3, RecordKept DEF IInv, RecordMatches
<1> QED BY <1>2, <1>3

-----------------------------------------------------------------------------
(* The lengths. *)

(***************************************************************************)
(* Every step keeps the lines that are read back within the limit, and the *)
(* file within its own.                                                    *)
(***************************************************************************)
LEMMA LinesStep == IInv /\ [Next]_vars => LinesMatch' /\ CacheBounded'
<1> SUFFICES ASSUME IInv, [Next]_vars PROVE LinesMatch' /\ CacheBounded'
  OBVIOUS
<1> USE Constants DEF memory, disk, count, observed, Goto, Return
<1>1. /\ pc \in [Thread -> Label] /\ file \in Seq(Line) /\ lines \in Seq(Line)
      /\ recent \in Seq(1..MaxAppends)
      /\ Len(file) \in Nat /\ Len(lines) \in Nat /\ missed \in Nat
  BY LenProperties DEF IInv, TypeOK, Label, Line
<1>2. LinesMatch /\ CacheBounded
  BY DEF IInv
<1>3. CASE UNCHANGED vars
  BY <1>2, <1>3 DEF LinesMatch, CacheBounded, vars
<1>4. CASE Crash
  <2>1. LinesMatch'
    BY <1>4 DEF Crash, LinesMatch
  <2>2. Len(file') <= MaxRecords + 1 + missed'
    <3>1. CASE UNCHANGED disk
      BY <1>2, <1>4, <3>1 DEF CacheBounded, Crash
    <3>2. CASE file' = Append(file, Damaged) /\ \E t \in Thread : pc[t] = "rewrite"
      <4>1. Len(file) <= MaxRecords
        BY <1>1, <1>2, <3>2 DEF LinesMatch
      <4>2. Len(file') = Len(file) + 1
        BY <1>1, <3>2
      <4> QED BY <1>1, <1>4, <4>1, <4>2 DEF Crash
    <3> QED BY <1>4, <3>1, <3>2 DEF Crash
  <2>3. Len(recent') <= MaxRecords
    BY <1>4 DEF Crash
  <2> QED BY <2>1, <2>2, <2>3 DEF CacheBounded
<1>5. ASSUME NEW t \in Thread, Remember(t) PROVE LinesMatch' /\ CacheBounded'
  <2>1. LinesMatch'
    BY <1>1, <1>2, <1>5 DEF Remember, LinesMatch
  <2>2. Len(recent') <= MaxRecords
    <3>1. record[t].number \in 1..MaxAppends
      BY <1>5 DEF Remember, IInv, RecordMatches, Record
    <3>2. Append(recent, record[t].number) \in Seq(1..MaxAppends)
      BY <1>1, <3>1
    <3>3. Len(Newest(Append(recent, record[t].number), MaxRecords)) <= MaxRecords
      BY <3>2, NewestIs
    <3> QED BY <1>2, <1>5, <3>3 DEF Remember, RememberRecent, CacheBounded
  <2> QED BY <1>2, <1>5, <2>1, <2>2 DEF Remember, CacheBounded
<1>6. ASSUME NEW t \in Thread, Call(t) \/ Lock(t) PROVE LinesMatch' /\ CacheBounded'
  <2>1. /\ UNCHANGED <<lines, file, recent, missed>> /\ pc[t] \notin {"truncate", "rewrite"}
        /\ \E label \in {"remember", "lock", "open"} : pc' = [pc EXCEPT ![t] = label]
    BY <1>6 DEF Call, Lock
  <2> QED BY <1>1, <1>2, <2>1 DEF LinesMatch, CacheBounded
<1>7. ASSUME NEW t \in Thread, OpenFails(t) PROVE LinesMatch' /\ CacheBounded'
  BY <1>1, <1>2, <1>7 DEF OpenFails, LinesMatch, CacheBounded
<1>8. ASSUME NEW t \in Thread, ReadFile(t) PROVE LinesMatch' /\ CacheBounded'
  <2>1. \A u \in Thread \ {t} : pc'[u] = pc[u] /\ pc[u] \notin Inside
    BY <1>1, <1>8, Alone DEF ReadFile, Inside
  <2>2. UNCHANGED <<file, recent>>
    BY <1>8 DEF ReadFile
  <2>3. CASE Len(file) <= MaxRecords
    <3>1. pc'[t] = "flush" /\ lines' = << >> /\ missed' = 0
      BY <1>1, <1>8, <2>3 DEF ReadFile
    <3> QED BY <1>1, <1>2, <2>1, <2>2, <2>3, <3>1 DEF LinesMatch, CacheBounded, Inside
  <2>4. CASE ~(Len(file) <= MaxRecords)
    <3>1. pc'[t] = "truncate" /\ lines' = Newest(file, MaxRecords) /\ Len(file) > MaxRecords
          /\ missed' = missed
      BY <1>1, <1>8, <2>4 DEF ReadFile
    <3> QED BY <1>2, <2>1, <2>2, <2>4, <3>1 DEF LinesMatch, CacheBounded, Inside
  <2> QED BY <2>3, <2>4
<1>9. ASSUME NEW t \in Thread, Truncate(t) PROVE LinesMatch' /\ CacheBounded'
  <2>1. \A u \in Thread \ {t} : pc'[u] = pc[u] /\ pc[u] \notin Inside
    BY <1>1, <1>9, Alone DEF Truncate, Inside
  <2>2. /\ pc'[t] = "rewrite" /\ file' = << >> /\ lines' = Newest(file, MaxRecords)
        /\ recent' = recent /\ missed' = 0
    BY <1>1, <1>2, <1>9 DEF Truncate, LinesMatch
  <2>3. Len(file') = 0 /\ Len(lines') <= MaxRecords /\ Len(lines') \in Nat
    BY <1>1, <2>2, NewestIs, LenProperties
  <2> QED BY <1>2, <2>1, <2>2, <2>3 DEF LinesMatch, CacheBounded, Inside
<1>10. ASSUME NEW t \in Thread, Rewrite(t) PROVE LinesMatch' /\ CacheBounded'
  <2>1. \A u \in Thread \ {t} : pc[u] \notin Inside
    BY <1>10, Alone DEF Rewrite, Inside
  <2>2. Len(file') = Len(file) + 1 /\ Len(lines') = Len(lines) - 1 /\ Len(lines) # 0
    BY <1>1, <1>10 DEF Rewrite
  <2>3. pc[t] = "rewrite" /\ UNCHANGED <<pc, recent, missed>>
    BY <1>10 DEF Rewrite
  <2> QED BY <1>1, <1>2, <2>1, <2>2, <2>3 DEF LinesMatch, CacheBounded, Inside
<1>11. ASSUME NEW t \in Thread, CloseRewrite(t) PROVE LinesMatch' /\ CacheBounded'
  <2>1. \A u \in Thread \ {t} : pc'[u] = pc[u] /\ pc[u] \notin Inside
    BY <1>1, <1>11, Alone DEF CloseRewrite, Inside
  <2> QED BY <1>1, <1>2, <1>11, <2>1 DEF CloseRewrite, LinesMatch, CacheBounded, Inside
<1>12. ASSUME NEW t \in Thread, RewriteFails(t) PROVE LinesMatch' /\ CacheBounded'
  <2>1. \A u \in Thread \ {t} : pc'[u] = pc[u] /\ pc[u] \notin Inside
    BY <1>1, <1>12, Alone DEF RewriteFails, Inside
  <2>2. /\ pc[t] = "rewrite" /\ pc'[t] = "flush" /\ lines' = << >> /\ Len(lines) # 0
        /\ UNCHANGED <<recent, missed>> /\ Len(file') \in {Len(file), Len(file) + 1}
    BY <1>1, <1>12 DEF RewriteFails
  <2> QED BY <1>1, <1>2, <2>1, <2>2 DEF LinesMatch, CacheBounded, Inside
<1>13. ASSUME NEW t \in Thread, Flush(t) \/ FlushFails(t) PROVE LinesMatch' /\ CacheBounded'
  <2>1. /\ pc[t] = "flush" /\ pc'[t] = "idle" /\ UNCHANGED <<lines, recent, missed>>
        /\ Len(file') \in {Len(file), Len(file) + 1}
    BY <1>1, <1>13 DEF Flush, FlushFails
  <2>2. \A u \in Thread \ {t} : pc'[u] = pc[u] /\ pc[u] \notin Inside
    BY <1>1, <1>13, Alone DEF Flush, FlushFails, Inside
  <2> QED BY <1>1, <1>2, <2>1, <2>2 DEF LinesMatch, CacheBounded, Inside
<1>14. ASSUME NEW t \in Thread, ReadFails(t) \/ TruncateFails(t) PROVE LinesMatch' /\ CacheBounded'
  <2>1. /\ pc[t] \in {"open", "truncate"} /\ pc' = [pc EXCEPT ![t] = "flush"]
        /\ UNCHANGED <<file, recent>> /\ missed' = missed + 1
        /\ \/ lines' = << >>
           \/ lines' = lines /\ pc[t] = "open"
    BY <1>14 DEF ReadFails, TruncateFails
  <2>2. pc'[t] = "flush" /\ \A u \in Thread \ {t} : pc'[u] = pc[u] /\ pc[u] \notin Inside
    BY <1>1, <2>1, Alone DEF Inside
  <2>3. lines' = << >>
    BY <1>2, <2>1, <2>2 DEF LinesMatch, Inside
  <2>4. LinesMatch'
    <3>1. \A u \in Thread : pc'[u] \notin {"truncate", "rewrite"}
      BY <2>2 DEF Inside
    <3>2. Len(file') <= MaxRecords + missed'
      BY <1>1, <1>2, <2>1 DEF CacheBounded
    <3> QED BY <2>3, <3>1, <3>2 DEF LinesMatch
  <2> QED BY <1>1, <1>2, <2>1, <2>4 DEF CacheBounded
<1> QED BY <1>3, <1>4, <1>5, <1>6, <1>7, <1>8, <1>9, <1>10, <1>11, <1>12, <1>13, <1>14 DEF Next, Step

-----------------------------------------------------------------------------
(* What a step does to the contents of the cache. *)

ContentsOf(where, onDisk, rest) ==
    IF \E t \in Thread : where[t] = "truncate" THEN onDisk ELSE onDisk \o rest

Same ==
    /\ Contents' = Contents /\ kept' = kept
    /\ \/ missed' = missed
       \/ missed' = 0 /\ Len(Contents) <= MaxRecords
       \/ missed' = missed + 1 /\ faults' # faults
Added(t) ==
    /\ pc[t] = "flush" /\ pc' = [pc EXCEPT ![t] = "idle"] /\ missed' = missed
    /\ Len(Contents) <= MaxRecords + missed
    /\ Contents' = Append(Contents, record[t])
    /\ kept' = Newest(Append(kept, record[t]), MaxRecords)
Trimmed ==
    /\ Len(Contents) > MaxRecords /\ Contents' = Newest(Contents, MaxRecords)
    /\ missed' = 0 /\ kept' = kept
Lost ==
    /\ faults' # faults /\ missed' = missed /\ IsCut(Contents', Contents)
    /\ Contents' = Contents \/ Len(Contents) <= MaxRecords + missed
    /\ \/ kept' = << >>
       \/ Contents' = Contents /\ kept' = kept
       \/ /\ Contents' = Append(Contents, Damaged)
          /\ kept' = Newest(Append(kept, Damaged), MaxRecords)

(***************************************************************************)
(* The contents are the file wherever nothing is left to be rewritten.     *)
(***************************************************************************)
LEMMA ContentsAre ==
  ASSUME NEW where, NEW onDisk \in Seq(Line), NEW rest \in Seq(Line)
  PROVE  /\ ContentsOf(where, onDisk, rest) \in Seq(Line)
         /\ rest = << >> => ContentsOf(where, onDisk, rest) = onDisk
         /\ (\E t \in Thread : where[t] = "truncate") => ContentsOf(where, onDisk, rest) = onDisk
         /\ (\A t \in Thread : where[t] # "truncate") =>
               ContentsOf(where, onDisk, rest) = onDisk \o rest
BY ConcatProperties, ConcatEmptySeq DEF ContentsOf

(***************************************************************************)
(* A line more of the rewrite moves it from the rest to the file.          *)
(***************************************************************************)
LEMMA MoveLine ==
  ASSUME NEW onDisk \in Seq(Line), NEW rest \in Seq(Line), rest # << >>
  PROVE  Append(onDisk, Head(rest)) \o Tail(rest) = onDisk \o rest
<1>1. Head(rest) \in Line /\ Tail(rest) \in Seq(Line) /\ <<Head(rest)>> \in Seq(Line)
  OBVIOUS
<1>2. rest = <<Head(rest)>> \o Tail(rest)
  <2>1. Len(rest) \in Nat \ {0} /\ Len(Tail(rest)) = Len(rest) - 1
        /\ \A i \in 1..Len(Tail(rest)) : Tail(rest)[i] = rest[i + 1]
        /\ Head(rest) = rest[1]
    OBVIOUS
  <2> DEFINE whole == <<Head(rest)>> \o Tail(rest)
  <2>2. /\ whole \in Seq(Line) /\ Len(whole) = 1 + Len(Tail(rest))
        /\ \A i \in 1..1 + Len(Tail(rest)) :
             whole[i] = IF i <= 1 THEN <<Head(rest)>>[i] ELSE Tail(rest)[i - 1]
    BY <1>1, ConcatProperties
  <2> HIDE DEF whole
  <2>3. ASSUME NEW i \in 1..Len(rest) PROVE rest[i] = whole[i]
    <3>1. CASE i = 1
      BY <2>1, <2>2, <3>1
    <3>2. CASE i # 1
      <4>1. i - 1 \in 1..Len(Tail(rest)) /\ (i - 1) + 1 = i /\ ~(i <= 1)
        BY <2>1, <3>2
      <4> QED BY <2>1, <2>2, <4>1
    <3> QED BY <3>1, <3>2
  <2>4. rest = whole
    BY <2>1, <2>2, <2>3, SeqEqual
  <2> QED BY <2>4 DEF whole
<1>3. Append(onDisk, Head(rest)) = onDisk \o <<Head(rest)>>
  BY <1>1, AppendIsConcat
<1> QED BY <1>1, <1>2, <1>3, ConcatAssociative

(***************************************************************************)
(* The file without the rest, and with a damaged line behind it.           *)
(***************************************************************************)
LEMMA CutIs ==
  ASSUME NEW onDisk \in Seq(Line), NEW rest \in Seq(Line)
  PROVE  IsCut(onDisk, onDisk \o rest) /\ IsCut(Append(onDisk, Damaged), onDisk \o rest)
<1>1. /\ Len(onDisk) \in Nat /\ Len(rest) \in Nat
      /\ Len(onDisk \o rest) = Len(onDisk) + Len(rest)
      /\ \A i \in 1..Len(onDisk) : (onDisk \o rest)[i] = onDisk[i]
  BY ConcatProperties, LenProperties
<1>2. /\ Len(Append(onDisk, Damaged)) = Len(onDisk) + 1
      /\ \A i \in 1..Len(onDisk) : Append(onDisk, Damaged)[i] = onDisk[i]
      /\ Append(onDisk, Damaged)[Len(onDisk) + 1] = Damaged
  BY DEF Line
<1>3. Len(onDisk) \in 0..Len(onDisk \o rest) /\ Len(onDisk) # Len(onDisk) + 1
  BY <1>1
<1>4. IsCut(onDisk, onDisk \o rest)
  BY <1>1, <1>3 DEF IsCut
<1>5. IsCut(Append(onDisk, Damaged), onDisk \o rest)
  BY <1>1, <1>2, <1>3 DEF IsCut
<1> QED BY <1>4, <1>5

(***************************************************************************)
(* The contents are lines, before a step and after it.                     *)
(***************************************************************************)
LEMMA ContentsType ==
  ASSUME IInv, [Next]_vars
  PROVE  /\ file \in Seq(Line) /\ lines \in Seq(Line)
         /\ file' \in Seq(Line) /\ lines' \in Seq(Line)
         /\ Contents = ContentsOf(pc, file, lines)
         /\ Contents' = ContentsOf(pc', file', lines')
         /\ Contents \in Seq(Line) /\ Contents' \in Seq(Line)
<1>1. /\ file \in Seq(Line) /\ lines \in Seq(Line)
      /\ file' \in Seq(Line) /\ lines' \in Seq(Line)
  BY TypeStep DEF IInv, TypeOK, Line
<1>2. /\ Contents = ContentsOf(pc, file, lines)
      /\ Contents' = ContentsOf(pc', file', lines')
  BY DEF Contents, ContentsOf
<1>3. ContentsOf(pc, file, lines) \in Seq(Line) /\ ContentsOf(pc', file', lines') \in Seq(Line)
  BY <1>1, ContentsAre
<1> QED BY <1>1, <1>2, <1>3

(***************************************************************************)
(* At the flush the contents are the file, which has room.                 *)
(***************************************************************************)
LEMMA AtFlush ==
  ASSUME IInv, [Next]_vars, NEW t \in Thread, pc[t] = "flush", lines' = lines
  PROVE  Contents = file /\ Contents' = file' /\ Len(file) <= MaxRecords + missed
<1>1. \A u \in Thread : pc[u] \notin {"truncate", "rewrite"}
  BY Alone DEF Inside
<1>2. lines = << >> /\ lines' = << >> /\ Len(file) <= MaxRecords + missed
  BY <1>1 DEF IInv, LinesMatch
<1>3. Contents = file
  BY <1>2, ContentsType, ContentsAre
<1>4. Contents' = file'
  BY <1>2, ContentsType, ContentsAre
<1> QED BY <1>2, <1>3, <1>4

(***************************************************************************)
(* The destructor of the stream adds the line that was buffered, unless    *)
(* the disk refused it.                                                    *)
(***************************************************************************)
LEMMA FlushIs ==
  ASSUME IInv, [Next]_vars, NEW t \in Thread, Flush(t)
  PROVE  IF torn THEN Same ELSE Added(t)
<1>1. /\ pc[t] = "flush" /\ lines' = lines /\ pc' = [pc EXCEPT ![t] = "idle"] /\ missed' = missed
      /\ kept' = IF torn THEN kept ELSE Newest(Append(kept, record[t]), MaxRecords)
  BY DEF Flush, Return, Goto
<1>2. Contents = file /\ Contents' = file' /\ Len(file) <= MaxRecords + missed
  BY <1>1, AtFlush
<1>3. file' = IF torn THEN file ELSE Append(file, record[t])
  BY DEF Flush
<1>4. torn => Same
  BY <1>1, <1>2, <1>3, Zenon DEF Same
<1>5. ~torn => Contents' = Append(Contents, record[t])
  BY <1>2, <1>3, Zenon
<1> QED BY <1>1, <1>2, <1>4, <1>5 DEF Added

(***************************************************************************)
(* Every step leaves the contents alone, adds the line of a thread, drops  *)
(* the oldest lines, or is a fault that cuts the contents off.             *)
(***************************************************************************)
LEMMA ContentsStep ==
  ASSUME IInv, [Next]_vars
  PROVE  Same \/ (\E t \in Thread : Added(t)) \/ Trimmed \/ Lost
<1> USE DEF memory, disk, count, observed, Goto, Return
<1>1. /\ pc \in [Thread -> Label] /\ file \in Seq(Line) /\ lines \in Seq(Line)
      /\ file' \in Seq(Line) /\ lines' \in Seq(Line)
      /\ Contents = ContentsOf(pc, file, lines)
      /\ Contents' = ContentsOf(pc', file', lines')
  BY ContentsType DEF IInv, TypeOK, Label
<1>2. CASE UNCHANGED vars
  BY <1>2 DEF vars, Same, Contents
<1>3. CASE Crash
  <2>1. lines' = << >> /\ faults' = faults + 1 /\ missed' = missed
    BY <1>3 DEF Crash, Fault
  <2>2. Contents' = file'
    BY <1>1, <2>1, ContentsAre
  <2>3. faults' # faults
    BY <2>1, Constants DEF IInv, TypeOK
  <2>4. CASE \E t \in Thread : pc[t] = "rewrite"
    <3>1. /\ \A u \in Thread : pc[u] # "truncate"
          /\ Len(file) + Len(lines) <= MaxRecords /\ missed = 0
      BY <2>4, Alone DEF Inside, IInv, LinesMatch
    <3>2. Contents = file \o lines
      BY <1>1, <3>1, ContentsAre
    <3>3. file' = file \/ file' = Append(file, Damaged)
      BY <1>3 DEF Crash
    <3>4. Len(Contents) <= MaxRecords + missed
      BY <1>1, <3>1, <3>2, ConcatProperties, LenProperties, Constants
    <3>5. kept' = << >>
      BY <1>3, <2>4 DEF Crash
    <3>6. IsCut(Contents', Contents)
      BY <1>1, <2>2, <3>2, <3>3, CutIs
    <3> QED BY <2>1, <2>3, <3>4, <3>5, <3>6 DEF Lost
  <2>5. CASE ~\E t \in Thread : pc[t] = "rewrite"
    <3>1. file' = file /\ kept' = kept
      BY <1>3, <2>5 DEF Crash
    <3>2. Contents = file
      <4>1. lines = << >> \/ \E t \in Thread : pc[t] = "truncate"
        BY <2>5 DEF IInv, LinesMatch
      <4> QED BY <1>1, <4>1, ContentsAre
    <3>3. file = file \o << >> /\ << >> \in Seq(Line)
      BY <1>1, ConcatEmptySeq
    <3>4. IsCut(Contents', Contents)
      BY <1>1, <2>2, <3>1, <3>2, <3>3, CutIs
    <3> QED BY <2>1, <2>2, <2>3, <3>1, <3>2, <3>4 DEF Lost
  <2> QED BY <2>4, <2>5
<1>4. ASSUME NEW t \in Thread, Call(t) \/ Remember(t) \/ Lock(t) \/ OpenFails(t) PROVE Same
  <2>1. /\ UNCHANGED <<lines, file, missed, kept>> /\ pc[t] # "truncate"
        /\ \E label \in Label \ {"truncate"} : pc' = [pc EXCEPT ![t] = label]
    BY <1>4 DEF Call, Remember, Lock, OpenFails, Label
  <2>2. \A u \in Thread : pc'[u] = "truncate" <=> pc[u] = "truncate"
    BY <1>1, <2>1
  <2> QED BY <1>1, <2>1, <2>2 DEF Same, ContentsOf
<1>5. ASSUME NEW t \in Thread, ReadFile(t) PROVE Same
  <2>1. \A u \in Thread : pc[u] \notin {"truncate", "rewrite"}
    BY <1>5, Alone DEF ReadFile, Inside
  <2>2. lines = << >>
    BY <2>1 DEF IInv, LinesMatch
  <2>3. Contents = file /\ file' = file
    BY <1>1, <1>5, <2>2, ContentsAre DEF ReadFile
  <2>4. lines' = << >> \/ pc'[t] = "truncate"
    BY <1>1, <1>5 DEF ReadFile
  <2>5. Contents' = file'
    BY <1>1, <2>4, ContentsAre
  <2>6. /\ kept' = kept
        /\ \/ missed' = missed
           \/ missed' = 0 /\ Len(Contents) <= MaxRecords
    BY <1>5, <2>3 DEF ReadFile
  <2> QED BY <2>3, <2>5, <2>6 DEF Same
<1>12. ASSUME NEW t \in Thread, ReadFails(t) \/ TruncateFails(t) PROVE Same
  <2>1. /\ pc[t] \in {"open", "truncate"} /\ pc' = [pc EXCEPT ![t] = "flush"]
        /\ UNCHANGED <<file, kept>> /\ missed' = missed + 1 /\ faults' = faults + 1
        /\ \/ lines' = << >>
           \/ lines' = lines /\ pc[t] = "open"
    BY <1>12 DEF ReadFails, TruncateFails, Fault
  <2>2. \A u \in Thread \ {t} : pc[u] \notin {"truncate", "rewrite"}
    BY <2>1, Alone DEF Inside
  <2>3. pc[t] = "open" => lines = << >>
    BY <2>2 DEF IInv, LinesMatch
  <2>4. Contents = file
    BY <1>1, <2>1, <2>3, ContentsAre
  <2>5. Contents' = file'
    BY <1>1, <2>1, <2>3, ContentsAre
  <2>6. faults' # faults
    BY <2>1, Constants DEF IInv, TypeOK
  <2> QED BY <2>1, <2>4, <2>5, <2>6 DEF Same
<1>6. ASSUME NEW t \in Thread, Truncate(t) PROVE Trimmed
  <2>1. Contents = file
    BY <1>1, <1>6, ContentsAre DEF Truncate
  <2>2. Len(file) > MaxRecords /\ lines = Newest(file, MaxRecords)
    BY <1>6 DEF Truncate, IInv, LinesMatch
  <2>3. \A u \in Thread : pc'[u] # "truncate"
    BY <1>1, <1>6, Alone DEF Truncate, Inside
  <2>4. Contents' = << >> \o lines
    <3>1. Contents' = file' \o lines'
      BY <1>1, <2>3, ContentsAre
    <3> QED BY <1>6, <3>1 DEF Truncate
  <2>5. Contents' = lines
    BY <1>1, <2>4, ConcatEmptySeq
  <2>6. missed' = 0 /\ kept' = kept
    BY <1>6 DEF Truncate
  <2> QED BY <2>1, <2>2, <2>5, <2>6 DEF Trimmed
<1>7. ASSUME NEW t \in Thread, Rewrite(t) PROVE Same
  <2>1. \A u \in Thread : pc[u] # "truncate"
    BY <1>7, Alone DEF Rewrite, Inside
  <2>2. Contents = file \o lines
    BY <1>1, <2>1, ContentsAre
  <2>3. Contents' = Append(file, Head(lines)) \o Tail(lines)
    <3>1. /\ pc' = pc /\ lines # << >>
          /\ file' = Append(file, Head(lines)) /\ lines' = Tail(lines)
      BY <1>7 DEF Rewrite
    <3>2. \A u \in Thread : pc'[u] # "truncate"
      BY <2>1, <3>1
    <3>3. Contents' = file' \o lines'
      BY <1>1, <3>2, ContentsAre
    <3> QED BY <3>1, <3>3
  <2>4. Append(file, Head(lines)) \o Tail(lines) = file \o lines
    BY <1>1, <1>7, MoveLine DEF Rewrite
  <2>5. UNCHANGED observed
    BY <1>7 DEF Rewrite
  <2> QED BY <2>2, <2>3, <2>4, <2>5, Zenon DEF Same
<1>8. ASSUME NEW t \in Thread, CloseRewrite(t) PROVE Same
  <2>1. lines = << >> /\ lines' = << >> /\ file' = file /\ missed' = missed /\ kept' = kept
    BY <1>8 DEF CloseRewrite
  <2>2. Contents = file
    BY <1>1, <2>1, ContentsAre
  <2>3. Contents' = file'
    BY <1>1, <2>1, ContentsAre
  <2> QED BY <2>1, <2>2, <2>3, Zenon DEF Same
<1>9. ASSUME NEW t \in Thread, RewriteFails(t) PROVE Lost
  <2>1. \A u \in Thread : pc[u] # "truncate"
    BY <1>9, Alone DEF RewriteFails, Inside
  <2>2. Contents = file \o lines
    BY <1>1, <2>1, ContentsAre
  <2>3. /\ lines' = << >> /\ faults' = faults + 1 /\ missed' = missed /\ kept' = << >>
        /\ file' = file \/ file' = Append(file, Damaged)
    BY <1>9 DEF RewriteFails, Fault
  <2>4. Contents' = file'
    BY <1>1, <2>3, ContentsAre
  <2>5. faults' # faults
    BY <2>3, Constants DEF IInv, TypeOK
  <2>6. Len(file) + Len(lines) <= MaxRecords /\ missed = 0
    BY <1>9 DEF RewriteFails, IInv, LinesMatch
  <2>7. Len(Contents) <= MaxRecords + missed
    BY <1>1, <2>2, <2>6, ConcatProperties, LenProperties, Constants
  <2>8. IsCut(Contents', Contents)
    BY <1>1, <2>2, <2>3, <2>4, CutIs
  <2> QED BY <2>3, <2>5, <2>7, <2>8 DEF Lost
<1>10. ASSUME NEW t \in Thread, Flush(t) PROVE Added(t) \/ Same
  BY <1>10, FlushIs
<1>11. ASSUME NEW t \in Thread, FlushFails(t) PROVE Lost
  <2>1. pc[t] = "flush" /\ lines' = lines
    BY <1>11 DEF FlushFails
  <2>2. Contents = file /\ Contents' = file' /\ Len(Contents) <= MaxRecords + missed
    BY <2>1, AtFlush
  <2>3. \/ file' = file /\ kept' = kept
        \/ /\ file' = Append(file, Damaged)
           /\ kept' = Newest(Append(kept, Damaged), MaxRecords)
    BY <1>11 DEF FlushFails
  <2>4. faults' # faults /\ missed' = missed
    BY <1>11, Constants DEF FlushFails, Fault, IInv, TypeOK
  <2>5. file = file \o << >> /\ << >> \in Seq(Line)
    BY <1>1, ConcatEmptySeq
  <2>6. IsCut(Contents', Contents)
    BY <1>1, <2>2, <2>3, <2>5, CutIs
  <2> QED BY <2>2, <2>3, <2>4, <2>6 DEF Lost
<1> QED BY <1>2, <1>3, <1>4, <1>5, <1>6, <1>7, <1>8, <1>9, <1>10, <1>11, <1>12 DEF Next, Step

-----------------------------------------------------------------------------
(* The order of the lines. *)

(***************************************************************************)
(* What comes before a number comes before a later one.                    *)
(***************************************************************************)
LEMMA BeforeLater ==
  ASSUME NEW s \in Seq(Line), NEW by, NEW n \in Nat, NEW m \in Nat, n <= m, AllBefore(s, by, n)
  PROVE  AllBefore(s, by, m)
<1>1. ASSUME NEW i \in 1..Len(s), s[i] # Damaged PROVE s[i].number \in Nat
  <2>1. s[i] \in Record
    BY <1>1, ElementOfSeq DEF Line
  <2> QED BY <2>1, Constants DEF Record
<1> QED BY <1>1 DEF AllBefore

(***************************************************************************)
(* To append a line of an earlier number keeps all lines before the        *)
(* number.                                                                 *)
(***************************************************************************)
LEMMA BeforeAppend ==
  ASSUME NEW s \in Seq(Line), NEW line \in Line, NEW by, NEW n, AllBefore(s, by, n),
         line # Damaged /\ line.by = by => line.number < n
  PROVE  AllBefore(Append(s, line), by, n)
<1>1. /\ Len(s) \in Nat /\ Len(Append(s, line)) = Len(s) + 1
      /\ \A i \in 1..Len(s) : Append(s, line)[i] = s[i]
      /\ Append(s, line)[Len(s) + 1] = line
  OBVIOUS
<1> DEFINE longer == Append(s, line)
<1>2. ASSUME NEW i \in 1..Len(longer), longer[i] # Damaged, longer[i].by = by
      PROVE  longer[i].number < n
  <2> HIDE DEF longer
  <2>1. CASE i = Len(s) + 1
    BY <1>1, <1>2, <2>1 DEF longer
  <2>2. CASE i # Len(s) + 1
    <3>1. i \in 1..Len(s) /\ longer[i] = s[i]
      BY <1>1, <2>2 DEF longer
    <3> QED BY <1>2, <3>1 DEF AllBefore
  <2> QED BY <2>1, <2>2
<1> QED BY <1>2 DEF AllBefore

(***************************************************************************)
(* The record of a thread is new, or was its record before.                *)
(***************************************************************************)
LEMMA RecordIs ==
  ASSUME IInv, [Next]_vars
  PROVE  /\ appends' \in {appends, appends + 1}
         /\ \A u \in Thread : pc'[u] # "idle" =>
              \/ pc[u] # "idle" /\ record'[u] = record[u]
              \/ record'[u].number = appends + 1
<1>1. ASSUME NEW t \in Thread, Call(t)
      PROVE  /\ appends' = appends + 1
             /\ \A u \in Thread : pc'[u] # "idle" =>
                  \/ pc[u] # "idle" /\ record'[u] = record[u]
                  \/ record'[u].number = appends + 1
  <2>1. Called(t)
    BY <1>1, CallIs, TypeStep
  <2>2. pc \in [Thread -> Label]
    BY DEF IInv, TypeOK, Label
  <2> QED BY <2>1, <2>2 DEF Called
<1>2. CASE \A t \in Thread : ~Call(t)
  BY <1>2, RecordKept
<1> QED BY <1>1, <1>2

(***************************************************************************)
(* The lines stay before a number if what a step adds does.                *)
(***************************************************************************)
LEMMA BeforeStep ==
  ASSUME IInv, [Next]_vars, NEW by \in Thread, NEW n, AllBefore(Contents, by, n),
         \A t \in Thread : Added(t) /\ t = by => record[t].number < n
  PROVE  AllBefore(Contents', by, n)
<1>1. CASE Same
  BY <1>1 DEF Same
<1>2. ASSUME NEW t \in Thread, Added(t) PROVE AllBefore(Contents', by, n)
  <2>1. record[t] \in Line /\ record[t].by = t
    BY <1>2 DEF Added, IInv, RecordMatches, Line
  <2>2. AllBefore(Append(Contents, record[t]), by, n)
    BY <1>2, <2>1, BeforeAppend, ContentsType
  <2> QED BY <1>2, <2>2 DEF Added
<1>3. CASE Trimmed
  BY <1>3, OrderedNewest, ContentsType, Constants DEF Trimmed, IInv
<1>4. CASE Lost
  BY <1>4, OrderedCut, ContentsType DEF Lost, IInv
<1> QED BY <1>1, <1>2, <1>3, <1>4, ContentsStep

(***************************************************************************)
(* Every step keeps the order of the contents, and the records to come     *)
(* after them.                                                             *)
(***************************************************************************)
LEMMA OrderStep == IInv /\ [Next]_vars => Ordered(Contents)' /\ NothingLater'
<1> SUFFICES ASSUME IInv, [Next]_vars PROVE Ordered(Contents') /\ NothingLater'
  OBVIOUS
<1>1. Ordered(Contents')
  <2>1. CASE Same
    BY <2>1 DEF Same, IInv
  <2>2. ASSUME NEW t \in Thread, Added(t) PROVE Ordered(Contents')
    <3>1. record[t] \in Record /\ record[t].by = t
      BY <2>2 DEF Added, IInv, RecordMatches
    <3>2. AllBefore(Contents, record[t].by, record[t].number)
      BY <2>2, <3>1 DEF Added, IInv, NothingLater
    <3>3. Ordered(Append(Contents, record[t]))
      BY <3>1, <3>2, OrderedAppend, ContentsType DEF IInv
    <3> QED BY <2>2, <3>3 DEF Added
  <2>3. CASE Trimmed
    BY <2>3, OrderedNewest, ContentsType, Constants DEF Trimmed, IInv
  <2>4. CASE Lost
    BY <2>4, OrderedCut, ContentsType DEF Lost, IInv
  <2> QED BY <2>1, <2>2, <2>3, <2>4, ContentsStep
<1>2. \A t \in Thread : pc[t] # "idle" => record[t].number \in Nat /\ record[t].number < appends + 1
  BY Constants DEF IInv, RecordMatches, Record, TypeOK
<1>3. appends \in Nat /\ appends' \in {appends, appends + 1}
  BY RecordIs, Constants DEF IInv, TypeOK
<1>4. ASSUME NEW u \in Thread PROVE AllBefore(Contents', u, appends + 1)
  <2>1. AllBefore(Contents, u, appends + 1)
    BY DEF IInv, NothingLater
  <2>2. \A t \in Thread : Added(t) => record[t].number < appends + 1
    BY <1>2 DEF Added
  <2> QED BY <2>1, <2>2, BeforeStep
<1>5. ASSUME NEW u \in Thread PROVE AllBefore(Contents', u, appends' + 1)
  BY <1>3, <1>4, BeforeLater, ContentsType
<1>6. ASSUME NEW u \in Thread, pc'[u] # "idle" PROVE AllBefore(Contents', u, record'[u].number)
  <2>1. CASE record'[u].number = appends + 1
    BY <1>4, <2>1
  <2>2. CASE pc[u] # "idle" /\ record'[u] = record[u]
    <3>1. AllBefore(Contents, u, record[u].number)
      BY <2>2 DEF IInv, NothingLater
    <3>2. ~Added(u)
      BY <1>6 DEF Added, IInv, TypeOK
    <3> QED BY <2>2, <3>1, <3>2, BeforeStep
  <2> QED BY <1>6, <2>1, <2>2, RecordIs
<1> QED BY <1>1, <1>5, <1>6 DEF NothingLater

-----------------------------------------------------------------------------
(* The newest lines. *)

(***************************************************************************)
(* The end of a sequence is what Newest returns for its length.            *)
(***************************************************************************)
LEMMA EndIsNewest ==
  ASSUME NEW end \in Seq(Line), NEW s \in Seq(Line), IsEnd(end, s)
  PROVE  Newest(s, Len(end)) = end
<1> DEFINE new == Newest(s, Len(end))
<1>1. Len(end) \in Nat /\ Len(s) \in Nat /\ Len(end) <= Len(s)
  BY LenProperties DEF IsEnd
<1>2. /\ new \in Seq(Line) /\ Len(new) = Len(end)
      /\ \A i \in 1..Len(end) : new[i] = s[Len(s) - Len(end) + i]
  <2>1. CASE Len(s) <= Len(end)
    <3>1. new = s /\ Len(s) = Len(end)
      BY <1>1, <2>1, NewestIs
    <3> QED BY <1>1, <3>1
  <2>2. CASE Len(s) > Len(end)
    BY <1>1, <2>2, NewestIs
  <2> QED BY <1>1, <2>1, <2>2
<1> HIDE DEF new
<1>3. \A i \in 1..Len(end) : new[i] = end[i]
  BY <1>2 DEF IsEnd
<1>4. new = end
  BY <1>2, <1>3, SeqEqual
<1> QED BY <1>4 DEF new

(***************************************************************************)
(* The end of the end is an end, and what Newest returns is one.           *)
(***************************************************************************)
LEMMA EndOfEnd ==
  ASSUME NEW r \in Seq(Line), NEW s \in Seq(Line), NEW t \in Seq(Line), IsEnd(r, s), IsEnd(s, t)
  PROVE  IsEnd(r, t)
<1>1. Len(r) \in Nat /\ Len(s) \in Nat /\ Len(t) \in Nat /\ Len(r) <= Len(s) /\ Len(s) <= Len(t)
  BY LenProperties DEF IsEnd
<1>2. ASSUME NEW i \in 1..Len(r) PROVE r[i] = t[Len(t) - Len(r) + i]
  <2> DEFINE k == Len(s) - Len(r) + i
  <2>1. k \in 1..Len(s) /\ Len(t) - Len(s) + k = Len(t) - Len(r) + i
    BY <1>1
  <2>2. r[i] = s[k]
    BY DEF IsEnd
  <2>3. s[k] = t[Len(t) - Len(s) + k]
    BY <2>1 DEF IsEnd
  <2> QED BY <2>1, <2>2, <2>3
<1> QED BY <1>1, <1>2 DEF IsEnd

LEMMA NewestIsEnd ==
  ASSUME NEW s \in Seq(Line), NEW n \in Nat
  PROVE  IsEnd(Newest(s, n), s)
<1> DEFINE new == Newest(s, n)
<1>1. /\ Len(s) \in Nat
      /\ Len(s) <= n => new = s
      /\ Len(s) > n => Len(new) = n /\ \A i \in 1..n : new[i] = s[Len(s) - n + i]
  BY NewestIs, LenProperties
<1> HIDE DEF new
<1>2. CASE Len(s) <= n
  BY <1>1, <1>2 DEF IsEnd, new
<1>3. CASE Len(s) > n
  <2>1. IsEnd(new, s)
    BY <1>1, <1>3 DEF IsEnd
  <2> QED BY <2>1 DEF new
<1> QED BY <1>1, <1>2, <1>3

(***************************************************************************)
(* A line that joins both keeps the end an end, and so does a trim that    *)
(* leaves as many lines.                                                   *)
(***************************************************************************)
LEMMA EndAppend ==
  ASSUME NEW end \in Seq(Line), NEW s \in Seq(Line), NEW line \in Line, NEW n \in Nat, IsEnd(end, s)
  PROVE  /\ Len(Newest(Append(end, line), n)) <= n
         /\ IsEnd(Newest(Append(end, line), n), Append(s, line))
<1> DEFINE e == Append(end, line)
           a == Append(s, line)
<1>1. /\ e \in Seq(Line) /\ a \in Seq(Line)
      /\ Len(end) \in Nat /\ Len(s) \in Nat /\ Len(end) <= Len(s)
      /\ Len(e) = Len(end) + 1 /\ Len(a) = Len(s) + 1
      /\ e[Len(end) + 1] = line /\ a[Len(s) + 1] = line
      /\ \A i \in 1..Len(end) : e[i] = end[i]
      /\ \A i \in 1..Len(s) : a[i] = s[i]
  BY LenProperties DEF IsEnd
<1> HIDE DEF e, a
<1>2. ASSUME NEW i \in 1..Len(e) PROVE e[i] = a[Len(a) - Len(e) + i]
  <2>1. CASE i = Len(end) + 1
    BY <1>1, <2>1
  <2>2. CASE i # Len(end) + 1
    <3> DEFINE k == Len(s) - Len(end) + i
    <3>1. i \in 1..Len(end) /\ k \in 1..Len(s) /\ Len(a) - Len(e) + i = k
      BY <1>1, <2>2
    <3>2. end[i] = s[k]
      BY <3>1 DEF IsEnd
    <3> QED BY <1>1, <3>1, <3>2
  <2> QED BY <2>1, <2>2
<1>3. IsEnd(e, a)
  BY <1>1, <1>2 DEF IsEnd
<1>4. IsEnd(Newest(e, n), e) /\ Newest(e, n) \in Seq(Line) /\ Len(Newest(e, n)) <= n
  BY <1>1, NewestIsEnd, NewestIs
<1>5. IsEnd(Newest(e, n), a)
  BY <1>1, <1>3, <1>4, EndOfEnd
<1> QED BY <1>4, <1>5 DEF e, a

LEMMA EndNewest ==
  ASSUME NEW end \in Seq(Line), NEW s \in Seq(Line), NEW n \in Nat, IsEnd(end, s), Len(end) <= n,
         Len(s) > n
  PROVE  IsEnd(end, Newest(s, n))
<1>1. /\ Len(s) \in Nat /\ Len(end) \in Nat /\ Len(Newest(s, n)) = n
      /\ \A i \in 1..n : Newest(s, n)[i] = s[Len(s) - n + i]
  BY NewestIs, LenProperties
<1>2. ASSUME NEW i \in 1..Len(end) PROVE end[i] = Newest(s, n)[n - Len(end) + i]
  <2> DEFINE k == n - Len(end) + i
  <2>1. k \in 1..n /\ Len(s) - n + k = Len(s) - Len(end) + i
    BY <1>1
  <2>2. Newest(s, n)[k] = s[Len(s) - n + k]
    BY <1>1, <2>1
  <2> QED BY <2>1, <2>2 DEF IsEnd
<1> QED BY <1>1, <1>2 DEF IsEnd

(***************************************************************************)
(* Every step keeps the newest lines at the end of the contents.           *)
(***************************************************************************)
LEMMA KeptStep == IInv /\ [Next]_vars => KeptMatches'
<1> SUFFICES ASSUME IInv, [Next]_vars PROVE Len(kept') <= MaxRecords /\ IsEnd(kept', Contents')
  BY DEF KeptMatches
<1>1. /\ kept \in Seq(Line) /\ Contents \in Seq(Line) /\ Contents' \in Seq(Line)
      /\ Len(kept) <= MaxRecords /\ IsEnd(kept, Contents) /\ MaxRecords \in Nat
  BY ContentsType, Constants DEF IInv, KeptMatches, TypeOK, Line
<1>2. CASE Same
  BY <1>1, <1>2 DEF Same
<1>3. ASSUME NEW line \in Line, Contents' = Append(Contents, line),
             kept' = Newest(Append(kept, line), MaxRecords)
      PROVE  Len(kept') <= MaxRecords /\ IsEnd(kept', Contents')
  BY <1>1, <1>3, EndAppend
<1>4. ASSUME NEW t \in Thread, Added(t) PROVE Len(kept') <= MaxRecords /\ IsEnd(kept', Contents')
  <2>1. record[t] \in Line
    BY <1>4 DEF Added, IInv, RecordMatches, Line
  <2> QED BY <1>3, <1>4, <2>1 DEF Added
<1>5. CASE Trimmed
  BY <1>1, <1>5, EndNewest DEF Trimmed
<1>6. CASE Lost
  <2>1. CASE kept' = << >>
    BY <1>1, <2>1, LenProperties DEF IsEnd
  <2>2. CASE kept' # << >>
    BY <1>1, <1>3, <1>6, <2>2 DEF Lost, Line
  <2> QED BY <2>1, <2>2
<1> QED BY <1>2, <1>4, <1>5, <1>6, ContentsStep

-----------------------------------------------------------------------------
(* The theorems. *)

(***************************************************************************)
(* The invariant holds at first: nobody appends, and there is no file.     *)
(***************************************************************************)
LEMMA InitHolds == Init => IInv
<1> SUFFICES ASSUME Init PROVE IInv
  OBVIOUS
<1> USE Constants DEF Init
<1>1. TypeOK
  <2>1. << >> \in Seq(Record \cup {Damaged}) /\ << >> \in Seq(1..MaxAppends)
    OBVIOUS
  <2>2. 0 \in 0..MaxAppends /\ 0 \in 0..MaxFaults
    OBVIOUS
  <2> QED BY <2>1, <2>2 DEF TypeOK
<1>2. MissedMatches /\ MutexMatches /\ RecordMatches /\ LinesMatch
  BY DEF MissedMatches, MutexMatches, RecordMatches, LinesMatch, Inside
<1>3. CacheBounded
  BY DEF CacheBounded
<1>4. Contents = << >>
  <2>1. << >> \in Seq(Line)
    OBVIOUS
  <2> QED BY <2>1, ConcatEmptySeq DEF Contents
<1>5. Ordered(Contents) /\ NothingLater
  BY <1>4 DEF Ordered, NothingLater, AllBefore
<1>6. KeptMatches
  BY <1>4 DEF KeptMatches, IsEnd
<1> QED BY <1>1, <1>2, <1>3, <1>5, <1>6 DEF IInv

(***************************************************************************)
(* The invariant of appendLine() and trimIfNeeded() holds at any time, for *)
(* any number of threads, appends and faults: the mutex covers the stretch *)
(* from the stream that is opened to the one that is closed, so that the   *)
(* file and the lines a trim has yet to write back are together a journal  *)
(* in order.                                                               *)
(***************************************************************************)
THEOREM Inductive == Spec => []IInv
<1>1. IInv /\ [Next]_vars => IInv'
  BY TypeStep, MissedStep, MutexStep, RecordStep, LinesStep, OrderStep, KeptStep DEF IInv
<1> QED BY InitHolds, <1>1, PTL DEF Spec

(***************************************************************************)
(* The variables keep their types.                                         *)
(***************************************************************************)
THEOREM CacheTypeCorrect == Spec => []TypeOK
<1>1. IInv => TypeOK
  BY DEF IInv
<1> QED BY <1>1, Inductive, PTL

(***************************************************************************)
(* The file and recentBusiness_ stay at their limits, but for one line of  *)
(* the file for each trim in a row that could not open it.                 *)
(***************************************************************************)
THEOREM CacheStaysBounded == Spec => []CacheBounded
<1>1. IInv => CacheBounded
  BY DEF IInv
<1> QED BY <1>1, Inductive, PTL

(***************************************************************************)
(* The newest cache_max_records lines that reached the file stay at its    *)
(* end, in their order, until a rewrite is cut short.                      *)
(***************************************************************************)
THEOREM CacheKeepsMaxRecords == Spec => []KeepsMaxRecords
<1>1. IInv => KeepsMaxRecords
  <2>1. IInv => kept \in Seq(Line) /\ Contents \in Seq(Line)
    BY ContentsAre DEF IInv, TypeOK, Line, Contents, ContentsOf
  <2> QED BY <2>1, EndIsNewest DEF IInv, KeptMatches, KeepsMaxRecords
<1> QED BY <1>1, Inductive, PTL

(***************************************************************************)
(* The lines of a thread stay in their order, each at most once.           *)
(***************************************************************************)
THEOREM CacheKeepsOrder == Spec => []LinesInOrder
<1>1. IInv => LinesInOrder
  BY DEF IInv, Ordered, LinesInOrder
<1> QED BY <1>1, Inductive, PTL

(***************************************************************************)
(* What is cut off keeps the order of what it was cut from.                *)
(***************************************************************************)
LEMMA CutKeepsOrder ==
  ASSUME NEW s \in Seq(Line), NEW t \in Seq(Line), IsCut(s, t)
  PROVE  AbstractJournal!KeepsOrder(s, t) /\ Len(s) <= Len(t) + 1
<1>1. PICK n \in 0..Len(t) :
         /\ Len(s) \in {n, n + 1}
         /\ \A i \in 1..n : s[i] = t[i]
         /\ Len(s) = n + 1 => s[n + 1] = Damaged
  BY DEF IsCut
<1>2. Len(t) \in Nat /\ Len(s) \in Nat
  BY LenProperties
<1> DEFINE intact == {i \in 1..Len(s) : s[i] # Damaged}
           at == [i \in intact |-> i]
<1>3. \A i \in intact : i \in 1..n /\ i \in 1..Len(t) /\ s[i] = t[i]
  BY <1>1, <1>2
<1>4. at \in [intact -> 1..Len(t)]
  BY <1>3
<1>5. (\A i \in intact : s[i] = t[at[i]]) /\ \A i, j \in intact : i < j => at[i] < at[j]
  BY <1>3
<1>6. AbstractJournal!KeepsOrder(s, t)
  BY <1>4, <1>5 DEF AbstractJournal!KeepsOrder, AbstractJournal!Intact
<1> QED BY <1>1, <1>2, <1>6

(***************************************************************************)
(* appendLine() is atomic: the cache implements the journal, whatever the  *)
(* threads, the trims and the faults.                                      *)
(***************************************************************************)
THEOREM CacheIsJournal == Spec => IsJournal
<1>1. Init => AbstractJournal!Init
  <2>1. << >> \in Seq(Line)
    OBVIOUS
  <2> QED BY <2>1, ConcatEmptySeq DEF Init, AbstractJournal!Init, Contents
<1>2. IInv /\ [Next]_vars => [AbstractJournal!Next]_<<Contents, missed>>
  <2> SUFFICES ASSUME IInv, [Next]_vars PROVE [AbstractJournal!Next]_<<Contents, missed>>
    OBVIOUS
  <2>1. CASE Same
    <3>1. CASE missed' = 0 /\ Len(Contents) <= MaxRecords
      BY <2>1, <3>1 DEF Same, AbstractJournal!Next, AbstractJournal!Trim, AbstractJournal!Newest
    <3>2. CASE missed' = missed + 1 /\ faults' # faults
      BY <2>1, <3>2 DEF Same, AbstractJournal!Next, AbstractJournal!Miss
    <3> QED BY <2>1, <3>1, <3>2 DEF Same
  <2>2. ASSUME NEW t \in Thread, Added(t) PROVE AbstractJournal!Next
    <3>1. record[t] \in Record
      BY <2>2 DEF Added, IInv, RecordMatches
    <3> QED BY <2>2, <3>1 DEF Added, AbstractJournal!Next, AbstractJournal!Add, AbstractJournal!Room
  <2>3. CASE Trimmed
    BY <2>3 DEF Trimmed, AbstractJournal!Next, AbstractJournal!Trim, AbstractJournal!Newest, Newest
  <2>4. CASE Lost
    <3>1. AbstractJournal!KeepsOrder(Contents', Contents) /\ Len(Contents') <= Len(Contents) + 1
      BY <2>4, CutKeepsOrder, ContentsType DEF Lost
    <3>2. Contents' = Contents \/ AbstractJournal!Room
      BY <2>4 DEF Lost, AbstractJournal!Room
    <3>3. Len(Contents') <= Len(Contents) + (IF AbstractJournal!Room THEN 1 ELSE 0)
      BY <3>1, <3>2, ContentsType, LenProperties
    <3> QED BY <2>4, <3>1, <3>3 DEF Lost, AbstractJournal!Next, AbstractJournal!Lose
  <2> QED BY <2>1, <2>2, <2>3, <2>4, ContentsStep
<1> QED BY <1>1, <1>2, Inductive, PTL DEF Spec, IsJournal, AbstractJournal!Spec

=============================================================================
