----------------------------- MODULE DataCache ------------------------------
(***************************************************************************)
(* The cache (src/src/scada/DataCache.cpp) with several threads calling    *)
(* its append operations, and appendLine() down to what reaches the disk.  *)
(*                                                                         *)
(* Each operation that stores a point first updates latest_ (and, for      *)
(* business data, recentBusiness_) in a critical section of its own, lets  *)
(* go of the mutex, and takes it again to append the line.  The line is    *)
(* buffered, the old file is read, a file with more than maxRecords_ lines *)
(* is truncated and written again, and only then the buffer is flushed.    *)
(*                                                                         *)
(* The process can be killed between any two of those steps, each of the   *)
(* three streams can fail to open, and the disk can refuse a line of the   *)
(* rewrite or the flush: only the first stream is checked.                 *)
(***************************************************************************)
EXTENDS DataCacheOps

CONSTANTS
    Thread,      \* the threads that append
    Key,         \* the points: device id and address
    MaxAppends,  \* bound: the append operations that start
    Damaged,     \* a line that was cut, or glued to its successor
    NoThread,    \* the mutex is free
    MaxFaults    \* bound: the crashes, refused writes and failures to open

ASSUME MaxAppendsAssumption == MaxAppends \in Nat
ASSUME MaxFaultsAssumption == MaxFaults \in Nat
ASSUME ThreadAssumption == NoThread \notin Thread

VARIABLES
    pc,       \* where each thread is in its append operation
    record,   \* the record a thread appends
    lines,    \* the lines that the thread in appendLine() has yet to rewrite
    mutex,    \* mutex_: the thread that holds it
    latest,   \* latest_: the last record of each point, or 0
    recent,   \* recentBusiness_
    file,     \* the lines on disk
    torn,     \* the last line on disk lacks its end
    appends,  \* the number of append operations that started
    faults,   \* the number of faults
    missed,   \* observer: the trims in a row that could not open the file
    kept      \* observer: the newest lines of the file that nothing excuses losing

vars == <<pc, record, lines, mutex, latest, recent, file, torn, appends, faults, missed, kept>>
count == <<appends, faults>>
disk == <<file, torn>>
observed == <<missed, kept>>
memory == <<latest, recent>>

Kinds == {"BUSINESS", "MEASURE", "ALARM"}

(***************************************************************************)
(* Each record has a number of its own, so that a line that is repeated or *)
(* out of its place is seen.                                               *)
(***************************************************************************)
Record == [kind : Kinds, key : Key, by : Thread, number : 1..MaxAppends]
NoRecord == [kind |-> "NONE"]

ASSUME DamagedAssumption == Damaged \notin Record

Init ==
    /\ pc = [t \in Thread |-> "idle"]
    /\ record = [t \in Thread |-> NoRecord]
    /\ lines = << >>
    /\ mutex = NoThread
    /\ latest = [k \in Key |-> 0]
    /\ recent = << >>
    /\ file = << >>
    /\ torn = FALSE
    /\ appends = 0
    /\ faults = 0
    /\ missed = 0
    /\ kept = << >>

Goto(t, label) == pc' = [pc EXCEPT ![t] = label]

Fault == faults < MaxFaults /\ faults' = faults + 1

(***************************************************************************)
(* A thread calls appendBusinessData, appendMeasurement or appendAlarm.    *)
(* An alarm goes straight to appendLine.                                   *)
(***************************************************************************)
Call(t) ==
    /\ pc[t] = "idle"
    /\ appends < MaxAppends
    /\ appends' = appends + 1
    /\ \E kind \in Kinds, key \in Key :
         /\ record' = [record EXCEPT ![t] =
                         [kind |-> kind, key |-> key, by |-> t, number |-> appends + 1]]
         /\ Goto(t, IF kind = "ALARM" THEN "lock" ELSE "remember")
    /\ UNCHANGED <<lines, mutex, memory, disk, faults, observed>>

(***************************************************************************)
(* The critical section over the memory.                                   *)
(***************************************************************************)
Remember(t) ==
    /\ pc[t] = "remember"
    /\ mutex = NoThread
    /\ latest' = [latest EXCEPT ![record[t].key] = record[t].number]
    /\ recent' = IF record[t].kind = "BUSINESS"
                 THEN RememberRecent(recent, record[t].number) ELSE recent
    /\ Goto(t, "lock")
    /\ UNCHANGED <<record, lines, mutex, disk, count, observed>>

(***************************************************************************)
(* A mutant: appendLine without the mutex.                                 *)
(***************************************************************************)
LockAnyway(t) ==
    /\ pc[t] = "lock"
    /\ mutex' = t
    /\ Goto(t, "open")
    /\ UNCHANGED <<record, lines, memory, disk, count, observed>>

(***************************************************************************)
(* appendLine: the mutex is held until the streams are destroyed.          *)
(***************************************************************************)
Lock(t) ==
    /\ pc[t] = "lock"
    /\ mutex = NoThread
    /\ mutex' = t
    /\ Goto(t, "open")
    /\ UNCHANGED <<record, lines, memory, disk, count, observed>>

(***************************************************************************)
(* The directory cannot be made or the file cannot be opened: appendLine   *)
(* returns false, which no caller looks at.                                *)
(***************************************************************************)
OpenFails(t) ==
    /\ Fault
    /\ pc[t] = "open"
    /\ mutex' = NoThread
    /\ Goto(t, "idle")
    /\ record' = [record EXCEPT ![t] = NoRecord]
    /\ UNCHANGED <<lines, memory, disk, appends, observed>>

(***************************************************************************)
(* Mutants: the trim starts one line too late, or keeps the oldest lines.  *)
(***************************************************************************)
ReadFileOneMore(t) ==
    /\ pc[t] = "open"
    /\ IF Len(file) <= MaxRecords + 1
       THEN Goto(t, "flush") /\ lines' = << >> /\ missed' = 0
       ELSE Goto(t, "truncate") /\ lines' = Newest(file, MaxRecords) /\ UNCHANGED missed
    /\ UNCHANGED <<record, mutex, memory, disk, count, kept>>

ReadFileOldest(t) ==
    /\ pc[t] = "open"
    /\ IF Len(file) <= MaxRecords
       THEN Goto(t, "flush") /\ lines' = << >> /\ missed' = 0
       ELSE Goto(t, "truncate") /\ lines' = SubSeq(file, 1, MaxRecords) /\ UNCHANGED missed
    /\ UNCHANGED <<record, mutex, memory, disk, count, kept>>

(***************************************************************************)
(* trimIfNeeded reads the file, which does not hold the new line yet.      *)
(***************************************************************************)
ReadFile(t) ==
    /\ pc[t] = "open"
    /\ IF Len(file) <= MaxRecords
       THEN Goto(t, "flush") /\ lines' = << >> /\ missed' = 0
       ELSE Goto(t, "truncate") /\ lines' = Newest(file, MaxRecords) /\ UNCHANGED missed
    /\ UNCHANGED <<record, mutex, memory, disk, count, kept>>

(***************************************************************************)
(* The file cannot be opened a second time, for reading: trimIfNeeded      *)
(* returns, and the new line goes out all the same.                        *)
(***************************************************************************)
ReadFails(t) ==
    /\ Fault
    /\ pc[t] = "open"
    /\ missed' = missed + 1
    /\ Goto(t, "flush")
    /\ UNCHANGED <<record, lines, mutex, memory, disk, appends, kept>>

(***************************************************************************)
(* A mutant: the rewrite appends to the old file.                          *)
(***************************************************************************)
TruncateKeeps(t) ==
    /\ pc[t] = "truncate"
    /\ missed' = 0
    /\ Goto(t, "rewrite")
    /\ UNCHANGED <<record, lines, mutex, memory, disk, count, kept>>

Truncate(t) ==
    /\ pc[t] = "truncate"
    /\ file' = << >>
    /\ torn' = FALSE
    /\ missed' = 0
    /\ Goto(t, "rewrite")
    /\ UNCHANGED <<record, lines, mutex, memory, count, kept>>

(***************************************************************************)
(* The file cannot be opened a third time: it stays as it is, and the      *)
(* rewrite goes nowhere.                                                   *)
(***************************************************************************)
TruncateFails(t) ==
    /\ Fault
    /\ pc[t] = "truncate"
    /\ lines' = << >>
    /\ missed' = missed + 1
    /\ Goto(t, "flush")
    /\ UNCHANGED <<record, mutex, memory, disk, appends, kept>>

(***************************************************************************)
(* A line of the rewrite reaches the disk.                                 *)
(***************************************************************************)
Rewrite(t) ==
    /\ pc[t] = "rewrite"
    /\ lines # << >>
    /\ file' = Append(file, Head(lines))
    /\ lines' = Tail(lines)
    /\ UNCHANGED <<pc, record, mutex, memory, torn, count, observed>>

CloseRewrite(t) ==
    /\ pc[t] = "rewrite"
    /\ lines = << >>
    /\ Goto(t, "flush")
    /\ UNCHANGED <<record, lines, mutex, memory, disk, count, observed>>

(***************************************************************************)
(* The disk refuses the rest of the rewrite, part of a line included.      *)
(***************************************************************************)
RewriteFails(t) ==
    /\ Fault
    /\ pc[t] = "rewrite"
    /\ lines # << >>
    /\ \E part \in BOOLEAN :
         /\ torn' = part
         /\ file' = IF part THEN Append(file, Damaged) ELSE file
    /\ lines' = << >>
    /\ kept' = << >>
    /\ Goto(t, "flush")
    /\ UNCHANGED <<record, mutex, memory, appends, missed>>

Return(t) ==
    /\ mutex' = NoThread
    /\ Goto(t, "idle")
    /\ record' = [record EXCEPT ![t] = NoRecord]

(***************************************************************************)
(* A mutant: the record is gone when the line is written.                  *)
(***************************************************************************)
FlushMoved(t) ==
    /\ pc[t] = "flush"
    /\ file' = IF torn THEN file ELSE Append(file, NoRecord)
    /\ torn' = FALSE
    /\ kept' = IF torn THEN kept ELSE Newest(Append(kept, record[t]), MaxRecords)
    /\ Return(t)
    /\ UNCHANGED <<lines, memory, count, missed>>

(***************************************************************************)
(* The streams are destroyed and the mutex is released: the buffered line  *)
(* reaches the end of the file.  Behind a line that lacks its end, the new *)
(* one is glued to it.                                                     *)
(***************************************************************************)
Flush(t) ==
    /\ pc[t] = "flush"
    /\ file' = IF torn THEN file ELSE Append(file, record[t])
    /\ torn' = FALSE
    /\ kept' = IF torn THEN kept ELSE Newest(Append(kept, record[t]), MaxRecords)
    /\ Return(t)
    /\ UNCHANGED <<lines, memory, count, missed>>

(***************************************************************************)
(* The disk refuses the line, or the rest of it.  appendLine returns true  *)
(* all the same.                                                           *)
(***************************************************************************)
FlushFails(t) ==
    /\ Fault
    /\ pc[t] = "flush"
    /\ \E part \in BOOLEAN :
         /\ torn' = (torn \/ part)
         /\ file' = IF part /\ ~torn THEN Append(file, Damaged) ELSE file
         /\ kept' = IF part /\ ~torn THEN Newest(Append(kept, Damaged), MaxRecords) ELSE kept
    /\ Return(t)
    /\ UNCHANGED <<lines, memory, appends, missed>>

(***************************************************************************)
(* The process is killed and started again.  What it had rewritten may end *)
(* in a part of a line.                                                    *)
(***************************************************************************)
Crash ==
    /\ Fault
    /\ \E t \in Thread : pc[t] # "idle"
    /\ \/ UNCHANGED disk
       \/ /\ lines # << >>
          /\ \E t \in Thread : pc[t] = "rewrite"
          /\ file' = Append(file, Damaged)
          /\ torn' = TRUE
    /\ pc' = [t \in Thread |-> "idle"]
    /\ record' = [t \in Thread |-> NoRecord]
    /\ lines' = << >>
    /\ mutex' = NoThread
    /\ latest' = [k \in Key |-> 0]
    /\ recent' = << >>
    /\ kept' = IF \E t \in Thread : pc[t] = "rewrite" THEN << >> ELSE kept
    /\ UNCHANGED <<appends, missed>>

Step(t) ==
    \/ Call(t) \/ Remember(t) \/ Lock(t) \/ OpenFails(t) \/ ReadFile(t) \/ ReadFails(t)
    \/ Truncate(t) \/ TruncateFails(t) \/ Rewrite(t) \/ CloseRewrite(t) \/ RewriteFails(t)
    \/ Flush(t) \/ FlushFails(t)

Next == (\E t \in Thread : Step(t)) \/ Crash

Spec == Init /\ [][Next]_vars

-----------------------------------------------------------------------------

(***************************************************************************)
(* What the cache holds for whoever waits for the mutex: while a thread    *)
(* rewrites the file, the lines it has still to write are part of it.      *)
(***************************************************************************)
Contents ==
    IF \E t \in Thread : pc[t] = "truncate" THEN file ELSE file \o lines

(***************************************************************************)
(* Types of the variables.                                                 *)
(***************************************************************************)
TypeOK ==
    /\ pc \in [Thread -> {"idle", "remember", "lock", "open", "truncate", "rewrite", "flush"}]
    /\ record \in [Thread -> Record \cup {NoRecord}]
    /\ lines \in Seq(Record \cup {Damaged})
    /\ mutex \in Thread \cup {NoThread}
    /\ latest \in [Key -> 0..MaxAppends]
    /\ recent \in Seq(1..MaxAppends)
    /\ file \in Seq(Record \cup {Damaged})
    /\ torn \in BOOLEAN
    /\ appends \in 0..MaxAppends
    /\ faults \in 0..MaxFaults
    /\ missed \in 0..MaxFaults
    /\ kept \in Seq(Record \cup {Damaged})

(***************************************************************************)
(* The cache stays at its limit: recentBusiness_ has at most               *)
(* cache_max_records entries, and the file has one line more, plus one for *)
(* each trim since the last good one that could not open the file;         *)
(* wherever a rewrite was cut short, and whichever threads race for the    *)
(* trim.  One good trim takes all the excess away.                         *)
(***************************************************************************)
CacheBounded == Len(file) <= MaxRecords + 1 + missed /\ Len(recent) <= MaxRecords

(***************************************************************************)
(* And it makes use of it: the newest cache_max_records lines that reached *)
(* the end of the file are there to the last one, in their order, even     *)
(* while another thread rewrites the file.  Only a rewrite that is cut     *)
(* short, by a kill or by a disk that refuses it, loses any of them.       *)
(***************************************************************************)
KeepsMaxRecords == Newest(Contents, Len(kept)) = kept

(***************************************************************************)
(* The lines of one thread appear in the file in the order in which it     *)
(* appended them, each at most once, after any rewrite, crash or disk      *)
(* fault: the report replays the file from the front, and a CLEARED line   *)
(* that moved before its RAISED line would leave the alarm standing.       *)
(***************************************************************************)
LinesInOrder ==
    \A i, j \in 1..Len(Contents) :
      i < j /\ Damaged \notin {Contents[i], Contents[j]} /\ Contents[i].by = Contents[j].by
        => Contents[i].number < Contents[j].number

(***************************************************************************)
(* appendLine is atomic: however the threads interleave, the file is a     *)
(* journal that lines join one by one and that drops its oldest lines      *)
(* only, all above the limit unless the trim missed; with faults it still  *)
(* never invents, repeats or moves a line.                                 *)
(***************************************************************************)
AbstractJournal ==
    INSTANCE Journal WITH log <- Contents, Line <- Record

IsJournal == AbstractJournal!Spec

=============================================================================
