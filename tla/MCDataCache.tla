---------------------------- MODULE MCDataCache -----------------------------
(***************************************************************************)
(* Instances of DataCache for TLC.  Any thread may stand for any other.    *)
(***************************************************************************)
EXTENDS DataCache, TLC

Symmetry == Permutations(Thread)

=============================================================================
