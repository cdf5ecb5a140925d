---------------------------- MODULE DataCacheOps ----------------------------
(***************************************************************************)
(* What the operations of DataCache (src/src/scada/DataCache.cpp) compute, *)
(* each seen as one atomic step.  DataCache.tla builds appendLine of the   *)
(* system calls it makes, CacheDisk.tla tells what comes of them all.      *)
(***************************************************************************)
EXTENDS Integers, Sequences

CONSTANT MaxRecords  \* maxRecords_

(***************************************************************************)
(* configure() replaces a configured 0 by 10000, so that maxRecords_ is    *)
(* positive.                                                               *)
(***************************************************************************)
ASSUME MaxRecordsAssumption == MaxRecords \in Nat \ {0}

(***************************************************************************)
(* The last n elements of a sequence, or all of a shorter one.             *)
(***************************************************************************)
Newest(seq, n) ==
    IF Len(seq) <= n THEN seq ELSE SubSeq(seq, Len(seq) - n + 1, Len(seq))

(***************************************************************************)
(* recentBusiness_ is trimmed after the new record joined it.              *)
(***************************************************************************)
RememberRecent(recent, record) == Newest(Append(recent, record), MaxRecords)

=============================================================================
