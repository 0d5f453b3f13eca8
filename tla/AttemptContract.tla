--------------------------- MODULE AttemptContract ---------------------------
(***************************************************************************)
(* What one attempt promises the run that started it, without saying how:  *)
(* it boots at most one VM, it settles at most once, it claims completion  *)
(* only over a closed VM and any other outcome but cleanup-blocked only    *)
(* when no VM of it is left running, and it boots nothing after it has     *)
(* settled.                                                                *)
(***************************************************************************)

VARIABLES
  vm,             \* "none", "running", "closed"
  outcome         \* status of the attempt's result, "none" until it settles

vars == <<vm, outcome>>

Init == vm = "none" /\ outcome = "none"

Boot ==
  /\ outcome = "none"
  /\ vm = "none"
  /\ vm' = "running"
  /\ UNCHANGED outcome

Close ==
  /\ vm = "running"
  /\ vm' = "closed"
  /\ UNCHANGED outcome

Settle ==
  /\ outcome = "none"
  /\ \/ vm = "closed" /\ outcome' = "completed"
     \/ vm # "running" /\ outcome' \in {"failed", "cancelled", "interrupted"}
     \/ outcome' = "cleanup-blocked"
  /\ UNCHANGED vm

Next == Boot \/ Close \/ Settle

Spec == Init /\ [][Next]_vars
==============================================================================
