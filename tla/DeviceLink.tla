----------------------------- MODULE DeviceLink -----------------------------
(***************************************************************************)
(* What the master station may rely on of the link of one device, and all  *)
(* that it knows of it: the abstract specification of an Iec104Client.     *)
(*                                                                         *)
(*   - A link comes up and goes down.  It may still come up when the       *)
(*     client was stopped, but not when its thread ended.                  *)
(*   - Objects are handed over only while the link is shown as connected,  *)
(*     frame by frame and each frame to its last object.  No frame is read *)
(*     any more once the client was stopped, but for the one at hand.      *)
(*   - A thread that ended leaves the link shown as down.                  *)
(*                                                                         *)
(* Iec104Client implements this module, and ScadaSystem drives each of its *)
(* devices by it: the two meet here.                                       *)
(***************************************************************************)
EXTENDS Naturals

VARIABLES
    running,    \* the client is started
    connected,  \* the link is shown as connected
    thread,     \* the worker: off, loop, read, frame or done
    objects     \* the objects of the frame that are yet to be handed over

vars == <<running, connected, thread, objects>>

Init ==
    /\ running = FALSE
    /\ connected = FALSE
    /\ thread = "off"
    /\ objects = 0

Start ==
    /\ ~running
    /\ thread \in {"off", "done"}
    /\ ~connected
    /\ running' = TRUE
    /\ thread' = "loop"
    /\ UNCHANGED <<connected, objects>>

Stop ==
    /\ running
    /\ running' = FALSE
    /\ UNCHANGED <<connected, thread, objects>>

Change ==
    /\ thread = "loop"
    /\ connected' = ~connected
    /\ UNCHANGED <<running, thread, objects>>

Read ==
    /\ thread = "loop"
    /\ running
    /\ connected
    /\ thread' = "read"
    /\ UNCHANGED <<running, connected, objects>>

Refuse ==
    /\ thread = "read"
    /\ thread' = "loop"
    /\ connected' \in {connected, FALSE}
    /\ UNCHANGED <<running, objects>>

Accept ==
    /\ thread = "read"
    /\ thread' = "frame"
    /\ objects' \in Nat
    /\ UNCHANGED <<running, connected>>

HandOver ==
    /\ thread = "frame"
    /\ objects > 0
    /\ objects' = objects - 1
    /\ UNCHANGED <<running, connected, thread>>

FrameDone ==
    /\ thread = "frame"
    /\ objects = 0
    /\ thread' = "loop"
    /\ UNCHANGED <<running, connected, objects>>

End ==
    /\ thread = "loop"
    /\ ~running
    /\ thread' = "done"
    /\ connected' = FALSE
    /\ UNCHANGED <<running, objects>>

(***************************************************************************)
(* The process ends.                                                       *)
(***************************************************************************)
Vanish ==
    /\ running' = FALSE
    /\ connected' = FALSE
    /\ thread' = "off"
    /\ objects' = 0

Next ==
    \/ Start \/ Stop \/ Change \/ Read \/ Refuse \/ Accept
    \/ HandOver \/ FrameDone \/ End \/ Vanish

Spec == Init /\ [][Next]_vars

=============================================================================
