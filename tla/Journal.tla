------------------------------ MODULE Journal -------------------------------
(***************************************************************************)
(* What the cache file promises to those who append to it: lines are added *)
(* one at a time, only the oldest are ever dropped, and before each line   *)
(* the file is cut to MaxRecords unless the trim missed.  A fault (the     *)
(* process is killed or the disk is full while the file is written) may    *)
(* lose lines and damage one, but none is invented, repeated or moved.     *)
(***************************************************************************)
EXTENDS DataCacheOps

CONSTANTS
    Line,    \* the lines that may be appended
    Damaged  \* a line that was cut, or glued to its successor

VARIABLES
    log,    \* the lines
    missed, \* the trims in a row that missed
    faults  \* counts the faults

(***************************************************************************)
(* The lines of s that are not damaged are lines of t, in their order.     *)
(***************************************************************************)
Intact(s) == {i \in 1..Len(s) : s[i] # Damaged}

KeepsOrder(s, t) ==
    \E at \in [Intact(s) -> 1..Len(t)] :
      /\ \A i \in Intact(s) : s[i] = t[at[i]]
      /\ \A i, j \in Intact(s) : i < j => at[i] < at[j]

Init == log = << >> /\ missed = 0

Room == Len(log) <= MaxRecords + missed

Add(line) ==
    /\ Room
    /\ log' = Append(log, line)
    /\ UNCHANGED missed

Trim ==
    /\ log' = Newest(log, MaxRecords)
    /\ missed' = 0

Miss ==
    /\ faults' # faults
    /\ missed' = missed + 1
    /\ UNCHANGED log

Lose ==
    /\ faults' # faults
    /\ Len(log') <= Len(log) + (IF Room THEN 1 ELSE 0)
    /\ KeepsOrder(log', log)
    /\ UNCHANGED missed

Next == (\E line \in Line : Add(line)) \/ Trim \/ Miss \/ Lose

Spec == Init /\ [][Next]_<<log, missed>>

=============================================================================
