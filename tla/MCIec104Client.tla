--------------------------- MODULE MCIec104Client ---------------------------
(***************************************************************************)
(* Iec104Client as the model checker runs it: the constants come from the  *)
(* configurations.                                                         *)
(***************************************************************************)
EXTENDS Iec104Client
=============================================================================
