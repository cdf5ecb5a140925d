------------------------- MODULE MCMockIec104Server -------------------------
(***************************************************************************)
(* MockIec104Server as the model checker runs it.                          *)
(***************************************************************************)
EXTENDS MockIec104Server

(***************************************************************************)
(* Links that drop, links that last, and the scenario "stale".             *)
(***************************************************************************)
MCOptions ==
    {[dropEvery |-> 2, quietAfter |-> Never],
     [dropEvery |-> Never, quietAfter |-> Never],
     [dropEvery |-> Never, quietAfter |-> 1]}

=============================================================================
