---------------------------- MODULE RunLifecycle ----------------------------
(***************************************************************************)
(* What the store says of one run, without seats, leases or crashes: its   *)
(* durable status moves along the transitions of the reducer               *)
(* (src/lifecycle/reducer.ts).  "queued" and "stopping" are states of a    *)
(* seat's memory; in the store an attempt under way is "active".  Two      *)
(* moves are the store's own: a run recorded but never started is found    *)
(* cleanup-blocked, and an interrupted run waits there while it is being   *)
(* abandoned.                                                              *)
(***************************************************************************)
EXTENDS RunStatus

VARIABLE status   \* "none" before the first attempt

Init == status = "none"

Launch == status = "none" /\ status' = "active"

\* retry and resume are one durable step: the reducer's "queued" is skipped
Relaunch ==
  /\ status # "none"
  /\ "queued" \in Transition(status)
  /\ status' = "active"

Settle ==
  /\ status = "active"
  /\ status' \in (Transition("active") \cup Transition("stopping"))
                   \ {"stopping"}

Reconcile ==
  /\ status = "cleanup-blocked"
  /\ status' \in Transition("cleanup-blocked")

Abandon ==
  /\ status = "interrupted"
  /\ status' \in {"cleanup-blocked", "abandoned"}

LoseLaunch == status = "none" /\ status' = "cleanup-blocked"

Next == Launch \/ Relaunch \/ Settle \/ Reconcile \/ Abandon \/ LoseLaunch

Spec == Init /\ [][Next]_status
==============================================================================
