------------------------------ MODULE CacheDisk -----------------------------
(***************************************************************************)
(* appendLine() as its callers see it: one step, since it holds the mutex  *)
(* of the cache to its end, from the file it finds to the file it leaves.  *)
(* DataCache.tla has the system calls between the two; here they are       *)
(* folded into the outcomes of one append, the failed ones included, to    *)
(* which no caller pays attention.                                         *)
(*                                                                         *)
(* A disk is a record of the lines of the file, whether the last of them   *)
(* lacks its end (torn), and what the file has not got (missing): the      *)
(* subjects whose last line was given to the cache and did not get to the  *)
(* file, or was lost with the end of it.  The program knows nothing of     *)
(* the last; it says where the file can be relied upon.                    *)
(***************************************************************************)
EXTENDS DataCacheOps

(***************************************************************************)
(* A line that was cut, or two that were glued together.                   *)
(***************************************************************************)
Damaged == [kind |-> "DAMAGED"]

(***************************************************************************)
(* What a reader of the file learns from a line: the measurement of a      *)
(* point, or how a rule of it stands.                                      *)
(***************************************************************************)
Subject(line) ==
    CASE line.kind = "MEASURE" -> {<<line.device, line.address, "MEASURE">>}
      [] line.kind = "ALARM" -> {<<line.device, line.address, line.rule>>}
      [] OTHER -> {}

(***************************************************************************)
(* trimIfNeeded(): it counts the old lines only, as the new one is still   *)
(* in the buffer of the output stream.  A line it writes again has an end. *)
(***************************************************************************)
Trim(disk) ==
    IF Len(disk.file) <= MaxRecords THEN disk
    ELSE [disk EXCEPT !.file = Newest(@, MaxRecords), !.torn = FALSE]

(***************************************************************************)
(* The trims that stop within the rewrite, because the disk refuses the    *)
(* rest or the process is killed: some of the kept lines are there, and    *)
(* possibly a part of the next.                                            *)
(***************************************************************************)
CutShort(disk) ==
    LET kept == Newest(disk.file, MaxRecords)
        Cut(n, part) ==
          [file |-> SubSeq(kept, 1, n) \o part,
           torn |-> part # << >>,
           missing |-> disk.missing \cup
                         UNION {Subject(kept[i]) : i \in (n + 1)..Len(kept)}]
    IN  IF Len(disk.file) <= MaxRecords THEN {}
        ELSE {Cut(n, part) : n \in 0..(Len(kept) - 1), part \in {<< >>, <<Damaged>>}}

(***************************************************************************)
(* The line gets to the disk.  Behind a line that lacks its end, it is     *)
(* glued to that one.                                                      *)
(***************************************************************************)
Flush(disk, line) ==
    IF disk.torn
    THEN [disk EXCEPT !.torn = FALSE, !.missing = @ \cup Subject(line)]
    ELSE [disk EXCEPT !.file = Append(@, line), !.missing = @ \ Subject(line)]

(***************************************************************************)
(* The disk refuses the line (or the file was not opened at all), or all   *)
(* but a part of it.                                                       *)
(***************************************************************************)
FlushFails(disk, line) ==
    LET lost == disk.missing \cup Subject(line)
    IN  {[disk EXCEPT !.missing = lost],
         [file |-> IF disk.torn THEN disk.file ELSE Append(disk.file, Damaged),
          torn |-> TRUE, missing |-> lost]}

(***************************************************************************)
(* appendLine(): the file is trimmed, and the line joins it.               *)
(***************************************************************************)
AppendLine(disk, line) == Flush(Trim(disk), line)

(***************************************************************************)
(* The outcomes of an append of which some part fails: the trim that       *)
(* cannot open the file leaves it as it is, the rewrite stops short, and   *)
(* the line is written all the same, or not.                               *)
(***************************************************************************)
FailedAppends(disk, line) ==
    LET untrimmed == {disk} \cup CutShort(disk)
    IN  {Flush(d, line) : d \in untrimmed}
          \cup UNION {FlushFails(d, line) : d \in untrimmed \cup {Trim(disk)}}

=============================================================================
