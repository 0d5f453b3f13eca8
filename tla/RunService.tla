----------------------------- MODULE RunService -----------------------------
(***************************************************************************)
(* One run in the store that several seats share (src/service.ts): launch, *)
(* retry, resume, abandon, release, reconcile, interrupt, shutdown, the    *)
(* settlement of an attempt, the death of a seat and the recovery of a     *)
(* seat that opens the store.                                              *)
(*                                                                         *)
(* Durable state (the run record, attempt records, journal, snapshot,      *)
(* worktrees) and guests belong to nobody; a seat's memory of the run, the *)
(* exclusive operation it is in (runExclusive), its reconcile, which is    *)
(* not exclusive, and the attempt it executes are lost when it dies.  The  *)
(* lease is RunLease's: who holds it, and through which object.  The       *)
(* attempt is AttemptContract's, with the journal entries others read.     *)
(*                                                                         *)
(* Left out: read-only snapshots, resume at a hand-off, exports, budgets,  *)
(* and the repository checks before an operation takes the lease.          *)
(* Bounds: MaxAttempts attempts, MaxCrashes deaths.                        *)
(***************************************************************************)
EXTENDS Naturals, Sequences, RunStatus

CONSTANTS
  Seats,
  NoSeat,
  Writing,          \* the run has a worktree; else it reads the live checkout
  MaxAttempts,
  MaxCrashes,
  Adversities,      \* the values of adverse a behaviour may have
  ReleaseUnproved   \* operators release before the sandbox is proved gone

ASSUME SeatsAssumption == NoSeat \notin Seats
ASSUME GuestsAssumption == Seats \cap {"none", "gone", "orphan"} = {}
ASSUME BoundsAssumption == MaxAttempts \in Nat \ {0} /\ MaxCrashes \in Nat
ASSUME EnvironmentAssumption ==
  /\ Adversities \subseteq BOOLEAN
  /\ {Writing, ReleaseUnproved} \subseteq BOOLEAN

VARIABLES
  adverse,        \* rigid: guests may outlive their seat or be lost by a failed
                  \* start although no event records them, a seat may stay
                  \* between its checks and the lease while another starts an
                  \* attempt, and operators may abandon or release at a seat
                  \* that knows an older attempt; else only recorded guests
                  \* outlive their seat
  holder,         \* the lease: [seat, handle], handle names the object
  recorded,       \* the run record exists
  attempts,       \* attempt records, by ordinal: [kind, tree]
  journal,        \* the events read back: [type, attempt]
  snapshot,       \* [result, session, at] or NoSnapshot
  trees,          \* worktree of each ordinal
  guests,         \* VM of each ordinal: "none", "gone", "orphan" or its seat
  seat,           \* "down", "read", "leased" (opening the store), "up"
  latest,         \* the attempt a seat opening the store found to be latest
  mem,            \* the run in a seat's memory, or NoRun
  op,             \* the exclusive operation a seat is in, or Idle
  rec,            \* the reconcile a seat is in, or Idle
  exec,           \* the attempt a seat executes, or Idle
  crashes

store == <<recorded, attempts, journal, snapshot, trees>>
opening == <<seat, latest>>
vars == <<adverse, holder, store, guests, opening, mem, op, rec, exec, crashes>>

Ordinals == 1..MaxAttempts
Free == [seat |-> NoSeat, handle |-> "none"]
Idle == [at |-> "idle"]
NoRun == [status |-> "none"]
NoSnapshot == [at |-> 0]
Executions == [result : Results, session : BOOLEAN]
NoExecution == [session |-> FALSE]

EventTypes == {"attempt-starting", "sandbox-started", "session-started",
               "run-abandoning", "run-abandoned"}
Starting == {"launch", "retry", "resume"}

TypeOK ==
  /\ adverse \in Adversities
  /\ holder \in {Free} \cup [seat : Seats, handle : {"run", "op", "rec", "boot"}]
  /\ recorded \in BOOLEAN
  /\ attempts \in Seq([kind : Starting, tree : 0..MaxAttempts])
  /\ Len(attempts) <= MaxAttempts
  /\ journal \in Seq([type : EventTypes, attempt : Ordinals])
  /\ snapshot \in {NoSnapshot}
                    \cup [result : Results, session : BOOLEAN, at : Nat]
  /\ trees \in [Ordinals -> {"none", "reserved", "kept", "handed", "released"}]
  /\ guests \in [Ordinals -> Seats \cup {"none", "gone", "orphan"}]
  /\ seat \in [Seats -> {"down", "read", "leased", "up"}]
  /\ latest \in [Seats -> 0..MaxAttempts]
  /\ mem \in [Seats -> {NoRun} \cup
       [status : ResultStatuses \cup {"active", "stopping"},
        attempt : Ordinals, ended : Executions \cup {NoExecution},
        leased : BOOLEAN]]
  /\ op \in [Seats -> {Idle} \cup
       [kind : Starting \cup {"abandon", "release"},
        at : {"checked", "leased", "prepared", "recorded", "abandoning",
              "released"},
        ordinal : 0..MaxAttempts, tree : 0..MaxAttempts,
        prior : {"none", "failed", "interrupted"},
        via : {"none", "op", "run", "lost"}]]
  /\ rec \in [Seats -> {Idle} \cup
       [at : {"leased"}, via : {"rec", "run", "lost"}] \cup
       [at : {"observed"}, via : {"rec", "run", "lost"},
        sandbox : Cleanups, workspace : Cleanups, pending : BOOLEAN,
        session : {"absent", "valid", "unknown"}]]
  /\ exec \in [Seats -> {Idle} \cup
       [at : {"entered", "started", "booted", "recorded", "session"},
        attempt : Ordinals, signal : {"none", "operator", "seat-shutdown"}] \cup
       [at : {"settled"}, attempt : Ordinals, ended : Executions]]
  /\ crashes \in 0..MaxCrashes

Init ==
  /\ adverse \in Adversities
  /\ holder = Free
  /\ recorded = FALSE
  /\ attempts = <<>>
  /\ journal = <<>>
  /\ snapshot = NoSnapshot
  /\ trees = [n \in Ordinals |-> "none"]
  /\ guests = [n \in Ordinals |-> "none"]
  /\ seat = [s \in Seats |-> "up"]
  /\ latest = [s \in Seats |-> 0]
  /\ mem = [s \in Seats |-> NoRun]
  /\ op = [s \in Seats |-> Idle]
  /\ rec = [s \in Seats |-> Idle]
  /\ exec = [s \in Seats |-> Idle]
  /\ crashes = 0

------------------------------------------------------------------------------
(* What the store says.                                                    *)

Event(type, n) == [type |-> type, attempt |-> n]

Positions(type) == {i \in DOMAIN journal : journal[i].type = type}
Has(type) == Positions(type) # {}
After(i, S) == \A j \in S : j < i

\* hasPendingAbandonment
Pending ==
  \E i \in Positions("run-abandoning") : After(i, Positions("run-abandoned"))

\* the snapshot holds a result; one isRunResult rejects is as good as none
Persisted == snapshot # NoSnapshot /\ IsRunResult(snapshot.result)

\* assertDurableStatus
DurableStatus ==
  IF Has("run-abandoned") THEN "abandoned"
  ELSE IF Pending THEN "cleanup-blocked"
  ELSE IF ~Persisted THEN "unavailable"
  ELSE snapshot.result.status

\* observeSessionEvidence: the latest session of the journal, if its file is
\* still there and is the one recorded
SessionEvidence ==
  IF Has("session-started") THEN {"valid", "absent", "unknown"} ELSE {"absent"}

Running(n) == guests[n] \in Seats \cup {"orphan"}

\* (slip) forgets that a run without a live checkout may leave one
UnprovedTreeForgotten == "not-needed"

\* what is known of the workspace before it is looked at, and once released
UnprovedTree == IF Writing THEN "unknown" ELSE "not-needed"
ReleasedTree == IF Writing THEN "proved" ELSE "not-needed"

Result(status, retry, sandbox, workspace) ==
  [status |-> status, retry |-> retry, sandbox |-> sandbox,
   workspace |-> workspace]

Execution(result, session) == [result |-> result, session |-> session]

Save(e) == snapshot' = [result |-> e.result, session |-> e.session,
                        at |-> Len(journal')]
Write(type, n) == journal' = Append(journal, Event(type, n))

\* the worktrees of the run, in the order they are released
RunTrees == {attempts[i].tree : i \in DOMAIN attempts} \ {0}

\* releaseRunWorktrees, to the end: the checkouts are removed and the
\* branches released
AllReleased ==
  trees' = [n \in Ordinals |-> IF n \in RunTrees THEN "released" ELSE trees[n]]

\* ... or stopped at one that is dirty or cannot be identified
SomeReleased ==
  /\ Writing
  /\ \E done \in SUBSET RunTrees :
       /\ done # RunTrees \/ RunTrees = {}
       /\ trees' = [n \in Ordinals |-> IF n \in done THEN "released"
                                                      ELSE trees[n]]

CanRelease == Writing => RunTrees # {}

------------------------------------------------------------------------------
(* The lease, and the life of an exclusive operation.                      *)

Up(s) == seat[s] = "up"
Loaded(s) == Up(s) /\ mem[s] # NoRun
Hold(s, handle) == holder' = [seat |-> s, handle |-> handle]

\* the operation or reconcile is over: a lease of its own is released, a
\* lease that is the run's stays with the run
Done(s, via) ==
  holder' = IF via \in {"op", "rec"} THEN Free ELSE holder

Begin(s, kind, ordinal, tree, prior) ==
  /\ Up(s) /\ op[s] = Idle
  /\ op' = [op EXCEPT ![s] = [kind |-> kind, at |-> "checked",
                              ordinal |-> ordinal, tree |-> tree,
                              prior |-> prior, via |-> "none"]]
  /\ UNCHANGED <<holder, store, guests, opening, mem, rec, exec, crashes>>

At(s, kinds, place) ==
  op[s] # Idle /\ op[s].kind \in kinds /\ op[s].at = place

Goto(s, place) == op' = [op EXCEPT ![s].at = place]

\* an operation throws, wherever it is
Throw(s) == op' = [op EXCEPT ![s] = Idle] /\ Done(s, op[s].via)

\* launch: not in memory; the operation is claimed for this run
CheckLaunch(s) ==
  /\ mem[s] = NoRun
  /\ Begin(s, "launch", 1, 0, "none")

\* retry: failed, the failure permits it, no newer attempt (a hand-off, which
\* also forbids it, is not told from a captured worktree without changes)
CheckRetry(s) ==
  /\ Loaded(s)
  /\ LET run == mem[s] IN
     /\ run.status = "failed" /\ run.ended.result.retry \in {"manual", "backoff"}
     /\ Len(attempts) = run.attempt /\ run.attempt < MaxAttempts
     /\ Begin(s, "retry", run.attempt + 1, 0, "failed")

\* resume: interrupted, a session of the run, and its worktree still there
CheckResume(s) ==
  /\ Loaded(s)
  /\ LET run == mem[s] IN
     /\ run.status = "interrupted" /\ run.ended.result.retry = "resume"
     /\ run.ended.session /\ "valid" \in SessionEvidence
     /\ Len(attempts) = run.attempt /\ run.attempt < MaxAttempts
     /\ LET tree == attempts[run.attempt].tree IN
        /\ Writing => trees[tree] = "kept"
        /\ Begin(s, "resume", run.attempt + 1, tree, "interrupted")

\* operators abandon and release where the latest attempt is known
Informed(s) == adverse \/ Len(attempts) = mem[s].attempt

CheckAbandon(s) ==
  /\ Loaded(s) /\ Informed(s)
  /\ mem[s].status = "interrupted"
  /\ mem[s].ended.result.sandbox \in {"proved", "not-needed"}
  /\ Begin(s, "abandon", 0, 0, "interrupted")

CheckRelease(s) ==
  /\ Loaded(s) /\ Informed(s)
  /\ mem[s].status \notin {"active", "stopping", "interrupted"}
  /\ ~ReleaseUnproved =>
       /\ mem[s].ended # NoExecution
       /\ mem[s].ended.result.sandbox \in {"proved", "not-needed"}
  /\ Begin(s, "release", 0, 0, "none")

\* acquireRunLease, or for a release the lease the run holds (holdRunLease)
Acquire(s) ==
  /\ op[s] # Idle /\ op[s].at = "checked"
  /\ \/ /\ op[s].kind = "release" /\ mem[s].leased
        /\ op' = [op EXCEPT ![s].at = "leased", ![s].via = "run"]
        /\ UNCHANGED holder
     \/ /\ ~(op[s].kind = "release" /\ mem[s].leased)
        /\ IF holder = Free
           THEN /\ Hold(s, "op")
                /\ op' = [op EXCEPT ![s].at = "leased", ![s].via = "op"]
           ELSE Throw(s)
  /\ UNCHANGED <<store, guests, opening, mem, rec, exec, crashes>>

\* a step under a lease that has been released throws at its next check
Fenced(s) ==
  /\ op[s] # Idle /\ op[s].via = "lost"
  /\ Throw(s)
  /\ UNCHANGED <<store, guests, opening, mem, rec, exec, crashes>>

Owns(s) == op[s] # Idle /\ op[s].via \in {"op", "run"}

------------------------------------------------------------------------------
(* startAttempt.                                                           *)

\* (slip) takes a worktree that is already there for its own
PrepareReusing(s) ==
  /\ At(s, Starting, "leased") /\ Owns(s)
  /\ recorded' = TRUE
  /\ LET add == Writing /\ op[s].tree = 0 IN
     /\ trees' = IF add THEN [trees EXCEPT ![op[s].ordinal] = "kept"] ELSE trees
     /\ op' = [op EXCEPT ![s].at = "prepared",
                         ![s].tree = IF add THEN op[s].ordinal ELSE @]
  /\ UNCHANGED <<holder, attempts, journal, snapshot, guests, opening, mem, rec,
                 exec, crashes>>

\* the durable status is still the one the operation was checked against;
\* the run record; the worktree, reserved under the attempt's name
Prepare(s) ==
  /\ At(s, Starting, "leased") /\ Owns(s)
  /\ LET o == op[s]
         stale == o.prior # "none" /\ DurableStatus # o.prior
         add == Writing /\ o.tree = 0
     IN
     \/ stale /\ Throw(s) /\ UNCHANGED <<recorded, trees>>
     \/ /\ ~stale
        /\ recorded' = TRUE
        /\ \/ ~add /\ Goto(s, "prepared") /\ UNCHANGED <<holder, trees>>
           \/ /\ add /\ trees[o.ordinal] = "none"
              /\ trees' = [trees EXCEPT ![o.ordinal] = "kept"]
              /\ op' = [op EXCEPT ![s].at = "prepared", ![s].tree = o.ordinal]
              /\ UNCHANGED holder
           \/ /\ add
              /\ trees' = [trees EXCEPT ![o.ordinal] =
                             IF @ = "none" THEN "reserved" ELSE @]
              /\ Throw(s)
  /\ UNCHANGED <<attempts, journal, snapshot, guests, opening, mem, rec, exec,
                 crashes>>

\* attemptRecords.create: the record is there with the same identity, or the
\* attempt is the next of its lineage
RecordAttempt(s) ==
  /\ At(s, Starting, "prepared") /\ Owns(s)
  /\ adverse \/ \A t \in Seats \ {s} :
       seat[t] # "read" /\ ~(op[t] # Idle /\ op[t].at = "checked")
  /\ LET o == op[s]
         record == [kind |-> o.kind, tree |-> o.tree]
     IN
     \/ /\ o.ordinal \in DOMAIN attempts /\ attempts[o.ordinal] = record
        /\ Goto(s, "recorded") /\ UNCHANGED <<holder, attempts>>
     \/ /\ o.ordinal \in DOMAIN attempts /\ attempts[o.ordinal] # record
        /\ Throw(s) /\ UNCHANGED attempts
     \/ /\ o.ordinal \notin DOMAIN attempts /\ o.ordinal # Len(attempts) + 1
        /\ Throw(s) /\ UNCHANGED attempts
     \/ /\ o.ordinal = Len(attempts) + 1
        /\ attempts' = Append(attempts, record)
        /\ Goto(s, "recorded") /\ UNCHANGED holder
  /\ UNCHANGED <<recorded, journal, snapshot, trees, guests, opening, mem, rec,
                 exec, crashes>>

\* (slip) releases the lease when the launch returns
ExecuteAndRelease(s) ==
  /\ At(s, Starting, "recorded") /\ Owns(s)
  /\ Throw(s)
  /\ exec' = [exec EXCEPT ![s] = [at |-> "entered",
       attempt |-> op[s].ordinal, signal |-> "none"]]
  /\ mem' = [mem EXCEPT ![s] = [status |-> "active",
       attempt |-> op[s].ordinal, ended |-> NoExecution, leased |-> FALSE]]
  /\ UNCHANGED <<store, guests, opening, rec, crashes>>

\* executeAttempt: the lease passes to the run, which is now in memory; or the
\* execution dependencies cannot be loaded
Execute(s) ==
  /\ At(s, Starting, "recorded") /\ Owns(s)
  /\ \/ /\ Hold(s, "run")
        /\ exec' = [exec EXCEPT ![s] = [at |-> "entered",
             attempt |-> op[s].ordinal, signal |-> "none"]]
        /\ mem' = [mem EXCEPT ![s] = [status |-> "active",
             attempt |-> op[s].ordinal, ended |-> NoExecution, leased |-> TRUE]]
        /\ op' = [op EXCEPT ![s] = Idle]
     \/ Throw(s) /\ UNCHANGED <<exec, mem>>
  /\ UNCHANGED <<store, guests, opening, rec, crashes>>

------------------------------------------------------------------------------
(* The attempt, as its run and the next one see it.                        *)

Executing(s, places) == exec[s] # Idle /\ exec[s].at \in places

Reach(s, place) == exec' = [exec EXCEPT ![s].at = place]

EnterAttempt(s) ==
  /\ Executing(s, {"entered"})
  /\ Write("attempt-starting", exec[s].attempt)
  /\ Reach(s, "started")
  /\ UNCHANGED <<holder, recorded, attempts, snapshot, trees, guests, opening,
                 mem, op, rec, crashes>>

\* a sandbox is started only in a directory that is there
BootVm(s) ==
  /\ Executing(s, {"started"})
  /\ Writing => trees[attempts[exec[s].attempt].tree] = "kept"
  /\ guests' = [guests EXCEPT ![exec[s].attempt] = s]
  /\ Reach(s, "booted")
  /\ UNCHANGED <<holder, store, opening, mem, op, rec, crashes>>

RecordVm(s) ==
  /\ Executing(s, {"booted"})
  /\ Write("sandbox-started", exec[s].attempt)
  /\ Reach(s, "recorded")
  /\ UNCHANGED <<holder, recorded, attempts, snapshot, trees, guests, opening,
                 mem, op, rec, crashes>>

RecordSession(s) ==
  /\ Executing(s, {"recorded"})
  /\ Write("session-started", exec[s].attempt)
  /\ Reach(s, "session")
  /\ UNCHANGED <<holder, recorded, attempts, snapshot, trees, guests, opening,
                 mem, op, rec, crashes>>

\* the attempt has written its terminal event and its snapshot
Settle(s, result) ==
  LET e == Execution(result, exec[s].at = "session") IN
  /\ UNCHANGED <<holder, recorded, attempts, journal, opening, mem, op, rec,
                 crashes>>
  /\ Save(e)
  /\ exec' = [exec EXCEPT ![s] = [at |-> "settled", attempt |-> exec[s].attempt,
                                  ended |-> e]]

Gone(n) == guests' = [guests EXCEPT ![n] = IF @ = "none" THEN @ ELSE "gone"]

\* (slip) captures the worktree and reports completion over a running VM
CompleteUnclosed(s) ==
  /\ Executing(s, {"session"})
  /\ Settle(s, Result("completed", "none", "proved", ReleasedTree))
  /\ trees' = IF ~Writing THEN trees
              ELSE [trees EXCEPT ![attempts[exec[s].attempt].tree] = "handed"]
  /\ UNCHANGED guests

Complete(s) ==
  /\ Executing(s, {"session"})
  /\ Settle(s, Result("completed", "none", "proved", ReleasedTree))
  /\ Gone(exec[s].attempt)
  /\ trees' = IF ~Writing THEN trees
              ELSE [trees EXCEPT ![attempts[exec[s].attempt].tree] = "handed"]

\* failed, cancelled or interrupted: the guest is gone; the worktree is kept,
\* or the attempt ended after its capture
EndCleanly(s) ==
  /\ Executing(s, {"started", "booted", "recorded", "session"})
  /\ LET x == exec[s]
         sandbox == IF x.at \in {"recorded", "session"} THEN "proved"
                                                        ELSE "not-needed"
         workspaces == IF ~Writing THEN {"not-needed"}
                       ELSE IF x.at = "session" THEN {"retained", "proved"}
                       ELSE {"retained"}
         tree == attempts[x.attempt].tree
     IN
     \E workspace \in workspaces :
       /\ \/ /\ x.signal = "none"
             /\ \E retry \in {"manual", "never", "reconcile"} :
                  Settle(s, Result("failed", retry, sandbox, workspace))
          \/ /\ x.signal = "operator"
             /\ Settle(s, Result("cancelled", "never", sandbox, workspace))
          \/ /\ x.signal = "seat-shutdown"
             /\ Settle(s, Result("interrupted", "resume", sandbox, workspace))
       /\ trees' = IF workspace = "proved"
                   THEN [trees EXCEPT ![tree] = "handed"] ELSE trees
  /\ Gone(exec[s].attempt)

\* the guests whose end a live seat may fail to prove
Unproved(at) ==
  \/ at \in {"recorded", "session"}
  \/ at = "booted" /\ adverse

\* the close of the VM is not proved, or the capture of the worktree failed
EndBlocked(s) ==
  /\ \/ /\ exec[s] # Idle /\ Unproved(exec[s].at)
        /\ Settle(s, Result("cleanup-blocked", "reconcile", "blocked",
                            IF Writing THEN "retained" ELSE "not-needed"))
        /\ Gone(exec[s].attempt) \/ UNCHANGED guests
     \/ /\ Executing(s, {"session"}) /\ Writing
        /\ Settle(s, Result("cleanup-blocked", "reconcile", "proved",
                            "blocked"))
        /\ Gone(exec[s].attempt)
  /\ UNCHANGED trees

\* a start that fails without proving its cleanup is reported as no start
EndLeaked(s) ==
  /\ Executing(s, {"booted"}) /\ adverse
  /\ Settle(s, Result("failed", "manual", "not-needed",
                      IF Writing THEN "retained" ELSE "not-needed"))
  /\ UNCHANGED <<guests, trees>>

\* a journal write fails and the attempt throws: no result, lease kept
EndThrown(s) ==
  /\ Executing(s, {"entered", "started", "booted", "recorded", "session"})
  /\ \/ Gone(exec[s].attempt)
     \/ Unproved(exec[s].at) /\ UNCHANGED guests
  /\ mem' = [mem EXCEPT ![s].status = "cleanup-blocked"]
  /\ exec' = [exec EXCEPT ![s] = Idle]
  /\ UNCHANGED <<holder, store, opening, op, rec, crashes>>

\* the continuation of the attempt's promise: the snapshot again, the memory,
\* the lease unless cleanup is blocked; without the snapshot no result
Finalize(s) ==
  /\ Executing(s, {"settled"})
  /\ UNCHANGED <<recorded, attempts, journal, trees, guests, opening, op, rec,
                 crashes>>
  /\ exec' = [exec EXCEPT ![s] = Idle]
  /\ LET e == exec[s].ended
         blocked == e.result.status = "cleanup-blocked" IN
     \/ /\ Save(e)
        /\ mem' = [mem EXCEPT ![s].status = e.result.status, ![s].ended = e,
                              ![s].leased = blocked]
        /\ holder' = IF blocked THEN holder ELSE Free
     \/ /\ mem' = [mem EXCEPT ![s].status = "cleanup-blocked"]
        /\ UNCHANGED <<snapshot, holder>>

\* interrupt and shutdown: the first reason stays
Signal(s, reason) ==
  /\ Loaded(s)
  /\ mem[s].status \in IF reason = "operator" THEN {"active"}
                       ELSE {"active", "stopping"}
  /\ mem' = [mem EXCEPT ![s].status = "stopping"]
  /\ exec' = IF Executing(s, {"settled"}) THEN exec
             ELSE [exec EXCEPT ![s].signal = IF @ = "none" THEN reason ELSE @]
  /\ UNCHANGED <<holder, store, guests, opening, op, rec, crashes>>

------------------------------------------------------------------------------
(* abandon, release and reconcile.                                         *)

Remember(s, status, e) ==
  mem' = [mem EXCEPT ![s].status = status, ![s].ended = e]

\* (slip) trusts the status in memory
BeginAbandonFromMemory(s) ==
  /\ At(s, {"abandon"}, "leased")
  /\ Write("run-abandoning", mem[s].attempt)
  /\ Remember(s, "cleanup-blocked",
       Execution(Result("cleanup-blocked", "reconcile",
                        mem[s].ended.result.sandbox, UnprovedTree), FALSE))
  /\ Goto(s, "abandoning")
  /\ UNCHANGED <<holder, recorded, attempts, snapshot, trees, guests, opening,
                 rec, exec, crashes>>

\* the run-abandoning entry; from here the run is cleanup-blocked
BeginAbandon(s) ==
  /\ At(s, {"abandon"}, "leased")
  /\ \/ /\ DurableStatus # "interrupted" /\ Throw(s)
        /\ UNCHANGED <<journal, mem>>
     \/ /\ DurableStatus = "interrupted"
        /\ Write("run-abandoning", mem[s].attempt)
        /\ Remember(s, "cleanup-blocked",
             Execution(Result("cleanup-blocked", "reconcile",
                              mem[s].ended.result.sandbox, UnprovedTree), FALSE))
        /\ Goto(s, "abandoning") /\ UNCHANGED holder
  /\ UNCHANGED <<recorded, attempts, snapshot, trees, guests, opening, rec,
                 exec, crashes>>

\* the worktrees, the run-abandoned entry, memory and the snapshot
FinishAbandon(s) ==
  /\ At(s, {"abandon"}, "abandoning") /\ Owns(s)
  /\ LET sandbox == mem[s].ended.result.sandbox IN
     \/ /\ CanRelease /\ AllReleased
        /\ LET e == Execution(Result("abandoned", "never", sandbox,
                                     ReleasedTree), FALSE) IN
           /\ Write("run-abandoned", mem[s].attempt)
           /\ Remember(s, "abandoned", e)
           /\ Save(e) \/ UNCHANGED snapshot
     \/ /\ SomeReleased
        /\ LET e == Execution(Result("cleanup-blocked", "reconcile", sandbox,
                                     "unknown"), FALSE) IN
           /\ Remember(s, "cleanup-blocked", e)
           /\ UNCHANGED journal
           /\ Save(e)
  /\ Throw(s)
  /\ UNCHANGED <<recorded, attempts, guests, opening, rec, exec, crashes>>

\* release: the durable status is the one in memory; then the worktrees
ReleaseTrees(s) ==
  /\ At(s, {"release"}, "leased") /\ Owns(s)
  /\ \/ DurableStatus # mem[s].status /\ Throw(s) /\ UNCHANGED trees
     \/ /\ DurableStatus = mem[s].status
        /\ \/ CanRelease /\ AllReleased /\ Goto(s, "released")
              /\ UNCHANGED holder
           \/ SomeReleased /\ Throw(s)
  /\ UNCHANGED <<recorded, attempts, journal, snapshot, guests, opening, mem,
                 rec, exec, crashes>>

\* settleHeldLease: a run that leaves cleanup-blocked gives up the lease it
\* kept; what else runs under that lease is fenced
Unblocked(s, status) == mem[s].leased /\ status # "cleanup-blocked"

\* ... and the result, the snapshot, memory
FinishRelease(s) ==
  /\ At(s, {"release"}, "released") /\ Owns(s)
  /\ IF mem[s].ended = NoExecution
     THEN UNCHANGED <<journal, snapshot, mem, rec>> /\ Throw(s)
     ELSE LET old == mem[s].ended
              proved == old.result.sandbox \in {"proved", "not-needed"}
              result ==
                IF Pending THEN old.result
                ELSE [old.result EXCEPT
                        !.workspace = ReleasedTree,
                        !.status = IF @ = "cleanup-blocked" /\ proved
                                   THEN "failed" ELSE @]
              e == Execution(result, old.session /\ result.status # "abandoned")
              free == Unblocked(s, result.status)
          IN
          /\ UNCHANGED journal /\ Save(e)
          /\ mem' = [mem EXCEPT ![s].status = result.status, ![s].ended = e,
                                ![s].leased = @ /\ ~free]
          /\ op' = [op EXCEPT ![s] = Idle]
          /\ holder' = IF free \/ op[s].via = "op" THEN Free ELSE holder
          /\ rec' = IF free /\ rec[s] # Idle /\ rec[s].via = "run"
                    THEN [rec EXCEPT ![s].via = "lost"] ELSE rec
  /\ UNCHANGED <<recorded, attempts, trees, guests, opening, exec,
                 crashes>>

\* reconcile, not exclusive: under the lease the run kept, or its own
BeginReconcile(s) ==
  /\ Loaded(s)
  /\ mem[s].status = "cleanup-blocked"
  /\ rec[s] = Idle
  /\ \/ /\ mem[s].leased /\ UNCHANGED holder
        /\ rec' = [rec EXCEPT ![s] = [at |-> "leased", via |-> "run"]]
     \/ /\ ~mem[s].leased /\ holder = Free /\ Hold(s, "rec")
        /\ rec' = [rec EXCEPT ![s] = [at |-> "leased", via |-> "rec"]]
  /\ UNCHANGED <<store, guests, opening, mem, op, exec, crashes>>

GiveUp(s) == rec' = [rec EXCEPT ![s] = Idle] /\ Done(s, rec[s].via)

\* observeWorktree of every worktree of the run
WorkspaceSeen ==
  IF ~Writing THEN {"not-needed"}
  ELSE IF RunTrees = {} THEN {"unknown"}
  ELSE IF \A t \in RunTrees : trees[t] = "released" THEN {"proved"}
  ELSE {"retained", "unknown"}

\* The durable check, the process recorded by the latest sandbox-started of
\* the journal (terminated if it is alive and is the one recorded), and the
\* worktrees.
Observe(s) ==
  /\ rec[s] # Idle /\ rec[s].at = "leased"
  /\ \/ /\ rec[s].via = "lost" \/ DurableStatus # "cleanup-blocked"
        /\ GiveUp(s) /\ UNCHANGED guests
     \/ /\ rec[s].via # "lost" /\ DurableStatus = "cleanup-blocked"
        /\ \E workspace \in WorkspaceSeen, evidence \in SessionEvidence,
              sandbox \in IF Has("sandbox-started") THEN {"proved", "unknown"}
                                                    ELSE {"not-needed"} :
             /\ guests' =
                  IF sandbox # "proved" THEN guests
                  ELSE LET last == CHOOSE i \in Positions("sandbox-started") :
                                     \A j \in Positions("sandbox-started") : j <= i
                       IN [guests EXCEPT ![journal[last].attempt] = "gone"]
             /\ rec' = [rec EXCEPT ![s] =
                  [at |-> "observed", via |-> rec[s].via, sandbox |-> sandbox,
                   workspace |-> workspace, pending |-> Pending,
                   session |-> evidence]]
        /\ UNCHANGED holder
  /\ UNCHANGED <<store, opening, mem, op, exec, crashes>>

\* (slip) takes a guest that cannot be identified for one that is gone
ReconciledOnTrust(s) ==
  LET status == IF rec[s].session = "valid" THEN "interrupted" ELSE "failed" IN
  Execution(Result(status, IF status = "failed" THEN "reconcile" ELSE "resume",
                   rec[s].sandbox, rec[s].workspace),
            rec[s].session = "valid")

\* what reconcile makes of its observations
Reconciled(s) ==
  LET r == rec[s]
      known == /\ mem[s].ended # NoExecution
               /\ mem[s].ended.result.sandbox \in {"proved", "not-needed"}
      sandbox == IF r.pending /\ known THEN mem[s].ended.result.sandbox
                                       ELSE r.sandbox
      clear == sandbox \in {"proved", "not-needed"}
      status ==
        IF r.pending
        THEN IF Proved(sandbox, r.workspace) THEN "abandoned"
                                             ELSE "cleanup-blocked"
        ELSE IF clear /\ r.workspace # "unknown" /\ r.session # "unknown"
             THEN IF r.session = "valid" THEN "interrupted" ELSE "failed"
             ELSE "cleanup-blocked"
      retry == CASE status = "abandoned" -> "never"
                 [] status = "interrupted" -> "resume"
                 [] OTHER -> "reconcile"
  IN Execution(Result(status, retry, sandbox, r.workspace),
               ~r.pending /\ r.session = "valid")

\* ... recorded, unless isRunResult rejects it, which throws
FinishReconcile(s) ==
  /\ rec[s] # Idle /\ rec[s].at = "observed"
  /\ LET e == Reconciled(s)
         free == Unblocked(s, e.result.status) IN
     \/ /\ rec[s].via = "lost" \/ ~IsRunResult(e.result)
        /\ GiveUp(s) /\ UNCHANGED <<journal, snapshot, mem, op>>
     \/ /\ rec[s].via # "lost" /\ IsRunResult(e.result)
        /\ IF e.result.status = "abandoned"
           THEN Write("run-abandoned", mem[s].attempt) ELSE UNCHANGED journal
        /\ Save(e)
        /\ mem' = [mem EXCEPT ![s].status = e.result.status, ![s].ended = e,
                              ![s].leased = @ /\ ~free]
        /\ rec' = [rec EXCEPT ![s] = Idle]
        /\ holder' = IF free \/ rec[s].via = "rec" THEN Free ELSE holder
        /\ op' = IF free /\ op[s] # Idle /\ op[s].via = "run"
                 THEN [op EXCEPT ![s].via = "lost"] ELSE op
  /\ UNCHANGED <<recorded, attempts, trees, guests, opening, exec, crashes>>

------------------------------------------------------------------------------
(* Death and recovery of a seat.                                           *)

MayOutlive(s) ==
  {n \in Ordinals :
     /\ guests[n] = s
     /\ adverse \/ \E i \in Positions("sandbox-started") : journal[i].attempt = n}

Crash(s) ==
  /\ seat[s] # "down"
  /\ crashes < MaxCrashes
  /\ crashes' = crashes + 1
  /\ seat' = [seat EXCEPT ![s] = "down"]
  /\ holder' = IF holder.seat = s THEN Free ELSE holder
  /\ mem' = [mem EXCEPT ![s] = NoRun]
  /\ op' = [op EXCEPT ![s] = Idle]
  /\ rec' = [rec EXCEPT ![s] = Idle]
  /\ exec' = [exec EXCEPT ![s] = Idle]
  /\ \E survivors \in SUBSET MayOutlive(s) :
       guests' = [n \in Ordinals |->
                    IF guests[n] # s THEN guests[n]
                    ELSE IF n \in survivors THEN "orphan" ELSE "gone"]
  /\ UNCHANGED <<store, latest>>

\* createSubagentService: the latest attempt is read before the lease is taken
OpenStore(s) ==
  /\ seat[s] = "down"
  /\ IF recorded
     THEN /\ seat' = [seat EXCEPT ![s] = "read"]
          /\ latest' = [latest EXCEPT ![s] = Len(attempts)]
     ELSE seat' = [seat EXCEPT ![s] = "up"] /\ UNCHANGED latest
  /\ UNCHANGED <<holder, store, guests, mem, op, rec, exec, crashes>>

\* a run whose lease another seat holds is not loaded
LeaseRecovery(s) ==
  /\ seat[s] = "read"
  /\ IF holder = Free
     THEN Hold(s, "boot") /\ seat' = [seat EXCEPT ![s] = "leased"]
     ELSE seat' = [seat EXCEPT ![s] = "up"] /\ UNCHANGED holder
  /\ UNCHANGED <<store, guests, latest, mem, op, rec, exec, crashes>>

\* the plan's attempt is the one found latest, or the run record's
RecoveredAttempt(s) == IF latest[s] = 0 THEN 1 ELSE latest[s]

\* (slip) any snapshot will do
CoversAny(s) == TRUE

\* the snapshot was written after the start of that attempt, if it started
Covers(s) ==
  \A i \in Positions("attempt-starting") :
    journal[i].attempt = RecoveredAttempt(s) => snapshot.at >= i

\* the result the seat loads, and whether it is written to the store
Recovery(s) ==
  LET prior == Covers(s) /\ Persisted
      session == snapshot # NoSnapshot /\ snapshot.session
      blocked(sandbox) == Result("cleanup-blocked", "reconcile", sandbox, UnprovedTree)
  IN
  CASE Pending ->
         [write |-> TRUE,
          ended |-> Execution(blocked(IF prior THEN snapshot.result.sandbox
                                               ELSE "unknown"), FALSE)]
    [] ~Pending /\ Has("run-abandoned") ->
         [write |-> FALSE,
          ended |-> Execution(Result("abandoned", "never", "proved",
                                     ReleasedTree), FALSE)]
    [] ~Pending /\ ~Has("run-abandoned") /\ prior ->
         [write |-> FALSE, ended |-> Execution(snapshot.result, session)]
    [] OTHER -> [write |-> TRUE, ended |-> Execution(blocked("unknown"), FALSE)]

Recover(s) ==
  /\ seat[s] = "leased"
  /\ seat' = [seat EXCEPT ![s] = "up"]
  /\ LET r == Recovery(s) IN
     /\ mem' = [mem EXCEPT ![s] = [status |-> r.ended.result.status,
          attempt |-> RecoveredAttempt(s), ended |-> r.ended, leased |-> FALSE]]
     /\ IF r.write THEN UNCHANGED journal /\ Save(r.ended)
        ELSE UNCHANGED <<journal, snapshot>>
  /\ holder' = Free
  /\ UNCHANGED <<recorded, attempts, trees, guests, latest, op, rec, exec,
                 crashes>>

------------------------------------------------------------------------------

Check(s) ==
  \/ CheckLaunch(s) \/ CheckRetry(s) \/ CheckResume(s)
  \/ CheckAbandon(s) \/ CheckRelease(s)

OpStep(s) ==
  \/ Acquire(s) \/ Fenced(s) \/ Prepare(s) \/ RecordAttempt(s) \/ Execute(s)
  \/ BeginAbandon(s) \/ FinishAbandon(s) \/ ReleaseTrees(s) \/ FinishRelease(s)

AttemptStep(s) ==
  \/ EnterAttempt(s) \/ BootVm(s) \/ RecordVm(s) \/ RecordSession(s)
  \/ Complete(s) \/ EndCleanly(s) \/ EndBlocked(s) \/ EndLeaked(s)
  \/ EndThrown(s) \/ Finalize(s)

ReconcileStep(s) == Observe(s) \/ FinishReconcile(s)

OpenStep(s) == OpenStore(s) \/ LeaseRecovery(s) \/ Recover(s)

Next ==
  /\ UNCHANGED adverse
  /\ \E s \in Seats :
       \/ Check(s)
       \/ OpStep(s)
       \/ AttemptStep(s)
       \/ \E reason \in {"operator", "seat-shutdown"} : Signal(s, reason)
       \/ BeginReconcile(s)
       \/ ReconcileStep(s)
       \/ Crash(s)
       \/ OpenStep(s)

Spec == Init /\ [][Next]_vars

------------------------------------------------------------------------------

(* The run never has two guests at once: a retry or a resume boots a VM    *)
(* only when the one before is gone (persistence.md: "Retry, resume, or    *)
(* release cannot acquire the worktree while the prior VM or seat writer   *)
(* remains live or its terminal state is unproved").                       *)
OneGuest == \A m, n \in Ordinals : Running(m) /\ Running(n) => m = n

(* That holds as long as guests that are left behind are on record.        *)
OneGuestOnRecord == adverse \/ OneGuest

(* A worktree is captured, removed or released only when no guest mounts   *)
(* it: complete, abandon and release, where guests that are left behind    *)
(* are on record and operators are informed.                               *)
NoGuestWithoutTree ==
  Writing /\ ~adverse => \A n \in DOMAIN attempts :
    Running(n) => trees[attempts[n].tree] = "kept"

(* Of guests on record that holds wherever the operator releases           *)
(* (persistence.md: "release cannot acquire the worktree while the prior   *)
(* VM or seat writer remains live").                                       *)
ReleaseSparesGuests ==
  [][\A s \in Seats :
       op[s] # Idle /\ op[s].kind \in {"abandon", "release"} /\ trees' # trees =>
         \A i \in Positions("sandbox-started") : ~Running(journal[i].attempt)]_vars

(* An attempt starts once, whatever seats launch, retry or resume the run  *)
(* at the same time (persistence.md: "Operation indexes and leases make    *)
(* duplicate launch idempotent across concurrent seats").                  *)
AttemptsStartOnce ==
  \A i, j \in Positions("attempt-starting") :
    journal[i].attempt = journal[j].attempt => i = j

(* That holds as long as no seat stays between its checks and the lease    *)
(* while another starts the attempt it is about to start.                  *)
PromptSeatsStartOnce == adverse \/ AttemptsStartOnce

(* An attempt is executed under the run's lease until its result is in     *)
(* memory, so no two seats execute the run and no seat recovers or         *)
(* reconciles it meanwhile.                                                *)
ExecutesUnderLease ==
  \A s \in Seats : exec[s] # Idle => holder = [seat |-> s, handle |-> "run"]

(* A seat that opens the store takes a terminal status only from a         *)
(* snapshot written after the latest start in the journal (persistence.md: *)
(* "It never reports completion from stale state").                        *)
StaleRecovery(s) ==
  /\ seat[s] = "leased" /\ seat'[s] = "up"
  /\ mem'[s].status \notin {"cleanup-blocked", "abandoned"}
  /\ \E i \in Positions("attempt-starting") : snapshot.at < i
RecoversFromLatest == [][\A s \in Seats : ~StaleRecovery(s)]_vars

(* That holds as long as no seat stays between its reading of the latest   *)
(* attempt and the lease while another starts one.                         *)
PromptSeatsRecoverLatest == [][adverse \/ \A s \in Seats : ~StaleRecovery(s)]_vars

(* The workspace of an interrupted run is not released: it is what a       *)
(* resume continues in ("abandon an interrupted run to release its         *)
(* recovery workspace", src/service.ts).                                   *)
ReleaseSparesInterrupted ==
  [][\A s \in Seats :
       op[s] # Idle /\ op[s].kind = "release" /\ trees' # trees =>
         DurableStatus # "interrupted"]_vars

(* Every result a seat shows or the store keeps is one isRunResult         *)
(* accepts, so no operation throws on the result of another.               *)
ResultsAreValid ==
  /\ snapshot # NoSnapshot => IsRunResult(snapshot.result)
  /\ \A s \in Seats : mem[s] # NoRun /\ mem[s].ended # NoExecution =>
       /\ IsRunResult(mem[s].ended.result)
       /\ mem[s].status \in {mem[s].ended.result.status, "cleanup-blocked"}

(* The store's view of the run moves along the reducer's transitions: no   *)
(* seat, however stale its memory, revives an abandoned run or starts an   *)
(* attempt from a status that does not permit it.                          *)
Lifecycle == INSTANCE RunLifecycle
  WITH status <-
    IF Has("run-abandoned") THEN "abandoned"
    ELSE IF Pending THEN "cleanup-blocked"
    ELSE IF \E i \in Positions("attempt-starting") : i > snapshot.at
         THEN "active"
    ELSE IF snapshot = NoSnapshot THEN "none"
    ELSE snapshot.result.status
FollowsLifecycle == Lifecycle!Spec
==============================================================================
