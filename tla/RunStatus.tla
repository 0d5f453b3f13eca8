------------------------------ MODULE RunStatus ------------------------------
(***************************************************************************)
(* The vocabulary the other modules share: statuses, cleanup outcomes,     *)
(* failure dispositions, what makes a result valid (src/contracts.ts), and *)
(* the relation of the status reducer (src/lifecycle/reducer.ts).          *)
(***************************************************************************)
EXTENDS Naturals

ResultStatuses == {"completed", "failed", "cancelled", "abandoned",
                   "interrupted", "cleanup-blocked"}
Statuses == ResultStatuses \cup {"queued", "active", "stopping"}

Cleanups == {"proved", "not-needed", "retained", "blocked", "unknown"}

\* what a failure permits next; "none" is the failure a completed result lacks
Retries == {"never", "manual", "backoff", "resume", "reconcile"}

Results == [status : ResultStatuses, retry : Retries \cup {"none"},
            sandbox : Cleanups, workspace : Cleanups]

\* cleanupProved / cleanupIsProved
Proved(sandbox, workspace) ==
  {sandbox, workspace} \subseteq {"proved", "not-needed"}

\* isRunResult, for the parts of a result kept here
IsRunResult(r) ==
  /\ r \in Results
  /\ (r.status = "completed") = (r.retry = "none")
  /\ r.status = "completed" => Proved(r.sandbox, r.workspace)
  /\ r.status = "cleanup-blocked" => ~Proved(r.sandbox, r.workspace)
  /\ r.status = "abandoned" =>
       Proved(r.sandbox, r.workspace) /\ r.retry = "never"

\* transitionRunStatus as a relation: the statuses one event may lead to
Transition(current) ==
  CASE current = "queued"    -> {"active"}
    [] current = "active"    -> {"stopping", "completed", "failed",
                                 "interrupted", "cleanup-blocked"}
    [] current = "stopping"  -> {"cancelled", "cleanup-blocked"}
    [] current \in {"failed", "completed", "cancelled"} -> {"queued"}
    [] current = "interrupted" -> {"queued", "abandoned"}
    [] current = "cleanup-blocked" ->
         {"completed", "failed", "cancelled", "abandoned", "interrupted",
          "cleanup-blocked"}
    [] current = "abandoned" -> {}
==============================================================================
