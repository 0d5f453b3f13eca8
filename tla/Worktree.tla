------------------------------- MODULE Worktree -------------------------------
(***************************************************************************)
(* The checkouts of one run: its private worktrees, their hand-offs, or    *)
(* its read-only snapshots (src/workspace/worktree.ts), through the        *)
(* attempts, releases and reconciliations of src/service.ts that use them. *)
(*                                                                         *)
(* Every operation runs under the run's lease (RunLease), so there is one  *)
(* at a time; but it is a sequence of Git commands and file writes, each   *)
(* of which may fail, and the host may die between any two.  Each step is  *)
(* one such command or write with the checks made right before it.         *)
(*                                                                         *)
(* Abstracted: a tree's content is a value; symbolic links, foreign refs   *)
(* and moved repositories, which the code refuses, are left out; a VM      *)
(* writes only while its attempt runs (RunService has what happens         *)
(* otherwise); cancelled counts as failed; abandonment releases as release *)
(* does; refs are deleted by pruning alone (Retention).                    *)
(* Bound: MaxAttempts attempts, the retries and resumes of the plan.       *)
(***************************************************************************)
EXTENDS Naturals, Sequences, Functions

CONSTANTS
  Contents,       \* what a tree may hold
  Plain,          \* the baseline's
  Damaged,        \* what a deletion leaves when it is cut short
  NoCommit,
  MaxAttempts

ASSUME ContentAssumption == Plain \in Contents /\ Damaged \notin Contents
ASSUME BoundAssumption == MaxAttempts \in Nat \ {0}

VARIABLES
  mode,           \* "worktree" or "read-only"
  given,          \* the commit the plan starts at
  record,         \* the record files
  branch,         \* the commit of each reservation branch
  refs,           \* the commit under each hand-off ref
  dir,            \* the checkouts
  content,        \* what they hold
  lineage,        \* the checkouts of the recorded attempts, in order
  result,         \* what the service says of the run, and whether by its
                  \* latest attempt
  pc,
  op              \* the operation under the run's lease

store == <<record, branch, refs, dir, content, lineage>>
vars == <<mode, given, store, result, pc, op>>

(* retryPlan and resumePlan derive an attempt's name from its ordinal and  *)
(* kind: an attempt prepared once more has the name it had before.         *)
Ids == {<<1, "initial">>} \cup ((2..MaxAttempts) \X {"retry", "resume"})
Host == <<0, "host">>
Commits == [by : Ids \cup {Host}, tree : Contents \cup {Damaged}]
Baseline == [by |-> Host, tree |-> Plain]

NoOp == [goal |-> "none", id |-> <<1, "initial">>, start |-> Baseline,
         had |-> NoCommit, end |-> "failed", rest |-> {}]

First(ids) == CHOOSE i \in ids : \A j \in ids : i[1] <= j[1]
Latest == lineage[Len(lineage)]

(* expectedHead *)
Expected(id) ==
  IF record[id].handoff # NoCommit THEN record[id].handoff ELSE record[id].start

(* What git status finds against HEAD, which is the branch, or detached. *)
HeadOf(id) == IF mode = "worktree" THEN branch[id] ELSE record[id].start
Clean(id) == content[id] = HeadOf(id).tree

(* observeWorktree *)
Gone(id) == dir[id] \in {"absent", "stale"}
Observed(id) ==
  CASE dir[id] = "present" /\ branch[id] = Expected(id) ->
         IF Clean(id) THEN "clean" ELSE "dirty"
    [] Gone(id) /\ branch[id] = NoCommit /\ record[id].released -> "absent"
    [] Gone(id) /\ branch[id] = Expected(id) /\ branch[id] # NoCommit ->
         "branch-retained"
    [] OTHER -> "unknown"

(* carriedHandoff: what an attempt leaves its run with, its own capture or *)
(* the hand-off it started at.                                             *)
Carried(id, handoff) ==
  IF handoff # NoCommit THEN handoff
  ELSE IF record[id].start \in {record[i].handoff : i \in Range(lineage)}
       THEN record[id].start ELSE NoCommit

Init ==
  /\ mode \in {"worktree", "read-only"}
  /\ given \in {[by |-> Host, tree |-> c] : c \in Contents}
  /\ mode = "read-only" => given # Baseline
  /\ record = [i \in Ids |-> [state |-> "none", start |-> Baseline,
                              handoff |-> NoCommit, released |-> FALSE]]
  /\ branch = [i \in Ids |-> NoCommit]
  /\ refs = [i \in Ids |-> NoCommit]
  /\ dir = [i \in Ids |-> "absent"]
  /\ content = [i \in Ids |-> Plain]
  /\ lineage = <<>>
  /\ result = [status |-> "new", retry |-> FALSE, handoff |-> NoCommit, latest |-> TRUE]
  /\ pc = "idle"
  /\ op = NoOp

Goes(label) == pc' = label
Ends == Goes("idle") /\ op' = NoOp
Keeps == UNCHANGED <<mode, given>>

(***************************************************************************)
(* Launch, retry, resume                                                   *)
(***************************************************************************)
Next1 == Len(lineage) + 1

Prepare(id, start, label) ==
  /\ pc = "idle"
  /\ Goes(label)
  /\ op' = [NoOp EXCEPT !.goal = "start", !.id = id, !.start = start]
  /\ Keeps /\ UNCHANGED store

(* A launch that failed is no run of the service: it may be sent again.    *)
Launch ==
  /\ result.status \in {"new", "unstarted"}
  /\ Prepare(<<1, "initial">>, given, "reserving")
  /\ result' = [result EXCEPT !.status = "unstarted"]

(* A retry starts over, so not when the run has a hand-off. *)
Retry ==
  /\ result.status = "failed"
  /\ result.latest
  /\ result.retry
  /\ result.handoff = NoCommit
  /\ Next1 <= MaxAttempts
  /\ Prepare(<<Next1, "retry">>, given, "reserving")
  /\ UNCHANGED result

(* In the retained worktree, or in a snapshot of its own. *)
Resume ==
  /\ result.status = "interrupted"
  /\ result.latest
  /\ lineage # <<>>
  /\ Next1 <= MaxAttempts
  /\ IF mode = "worktree"
     THEN /\ ~record[Latest].released
          /\ Observed(Latest) \in {"clean", "dirty"}
          /\ Prepare(Latest, record[Latest].start, "enrolling")
     ELSE Prepare(<<Next1, "resume">>, given, "reserving")
  /\ UNCHANGED result

(* With input: in a new worktree at the run's hand-off. *)
Continue ==
  LET by == result.handoff.by
  IN  /\ result.status \in {"completed", "failed"}
      /\ result.latest
      /\ result.handoff # NoCommit
      /\ Next1 <= MaxAttempts
      /\ record[by].handoff = result.handoff
      /\ refs[by] = result.handoff
      /\ Prepare(<<Next1, "resume">>, result.handoff, "reserving")
      /\ UNCHANGED result

Reserve ==
  /\ pc = "reserving"
  /\ record[op.id].state = "none"
  /\ record' = [record EXCEPT ![op.id] = [state |-> "torn", start |-> op.start,
                                          handoff |-> NoCommit, released |-> FALSE]]
  /\ Goes(IF mode = "worktree" THEN "branching" ELSE "writing")
  /\ UNCHANGED <<mode, given, branch, refs, dir, content, lineage, result, op>>

(* The record still empty when the checkout is made. *)
WriteRecordLate ==
  /\ pc \in {"writing", "recording"}
  /\ record' = IF pc = "writing" THEN record
                                 ELSE [record EXCEPT ![op.id].state = "whole"]
  /\ Goes(IF pc = "writing" THEN "checkout" ELSE "enrolling")
  /\ UNCHANGED <<mode, given, branch, refs, dir, content, lineage, result, op>>

(* A snapshot's record is whole before its checkout, a worktree's after. *)
WriteRecord ==
  /\ pc \in {"writing", "recording"}
  /\ record' = [record EXCEPT ![op.id].state = "whole"]
  /\ Goes(IF pc = "writing" THEN "checkout" ELSE "enrolling")
  /\ UNCHANGED <<mode, given, branch, refs, dir, content, lineage, result, op>>

(* git worktree add -b makes the branch, then the checkout *)
AddBranch ==
  /\ pc = "branching"
  /\ branch' = [branch EXCEPT ![op.id] = op.start]
  /\ Goes("checkout")
  /\ UNCHANGED <<mode, given, record, refs, dir, content, lineage, result, op>>

Checkout ==
  /\ pc = "checkout"
  /\ dir' = [dir EXCEPT ![op.id] = "present"]
  /\ content' = [content EXCEPT ![op.id] = op.start.tree]
  /\ Goes(IF mode = "worktree" THEN "recording" ELSE "enrolling")
  /\ UNCHANGED <<mode, given, record, branch, refs, lineage, result, op>>

(* The attempt record, which names the worktree; a launch sent again finds *)
(* the one it has made.                                                    *)
Enrol ==
  /\ pc = "enrolling"
  /\ lineage' = IF result.status = "unstarted" /\ lineage # <<>>
                THEN lineage ELSE Append(lineage, op.id)
  /\ Goes("enrolled")
  /\ UNCHANGED <<mode, given, record, branch, refs, dir, content, result, op>>

Start ==
  /\ pc = "enrolled"
  /\ result' = [result EXCEPT !.status = "active", !.latest = TRUE]
  /\ op' = [op EXCEPT !.goal = "attempt", !.had = record[op.id].handoff]
  /\ Goes("running")
  /\ Keeps /\ UNCHANGED store

(***************************************************************************)
(* The attempt: the guest edits; at the end the worktree is captured and   *)
(* removed, or a snapshot removed.                                         *)
(***************************************************************************)
Edit ==
  /\ pc = "running"
  /\ mode = "worktree"
  /\ content[op.id] # Damaged
  /\ \E c \in Contents : content' = [content EXCEPT ![op.id] = c]
  /\ UNCHANGED <<mode, given, record, branch, refs, dir, lineage, result, pc, op>>

Settles(status, retry, handoff) ==
  /\ result' = [status |-> status, retry |-> retry, handoff |-> handoff, latest |-> TRUE]
  /\ Ends

(* Without a capture, or with a VM that did not end. *)
Stop ==
  /\ pc = "running"
  /\ \E status \in {"failed", "interrupted", "cleanup-blocked"}, retry \in BOOLEAN :
       /\ mode = "worktree" \/ status = "cleanup-blocked"
       /\ retry => status = "failed"
       /\ Settles(status, retry, IF mode = "worktree" THEN Carried(op.id, op.had)
                                                      ELSE NoCommit)
  /\ Keeps /\ UNCHANGED store

Finish ==
  /\ pc = "running"
  /\ \E end \in {"completed", "failed", "interrupted"} :
       /\ mode = "worktree" => end = "completed"
       /\ op' = [op EXCEPT !.end = end]
  /\ Goes(IF mode = "worktree" THEN "capturing" ELSE "removing")
  /\ Keeps /\ UNCHANGED <<store, result>>

(* captureWorktreeHandoff up to the commit: every identity checked, all    *)
(* changes staged, none or a return to the baseline told apart.            *)
Capture ==
  /\ pc = "capturing"
  /\ record[op.id].handoff = NoCommit
  /\ dir[op.id] = "present"
  /\ branch[op.id] = record[op.id].start
  /\ refs[op.id] = NoCommit
  /\ \/ Clean(op.id) /\ Goes("removing")
     \/ ~Clean(op.id) /\ content[op.id] # Plain /\ Goes("moving")
  /\ Keeps /\ UNCHANGED <<store, result, op>>

MoveBranch ==
  /\ pc = "moving"
  /\ branch' = [branch EXCEPT ![op.id] = [by |-> op.id, tree |-> content[op.id]]]
  /\ Goes("pinning")
  /\ UNCHANGED <<mode, given, record, refs, dir, content, lineage, result, op>>

(* The branch taken for pin enough. *)
PinNothing ==
  /\ pc = "pinning"
  /\ Goes("noting")
  /\ UNCHANGED <<mode, given, store, result, op>>

PinHandoff ==
  /\ pc = "pinning"
  /\ refs' = [refs EXCEPT ![op.id] = branch[op.id]]
  /\ Goes("noting")
  /\ UNCHANGED <<mode, given, record, branch, dir, content, lineage, result, op>>

NoteHandoff ==
  /\ pc = "noting"
  /\ record' = [record EXCEPT ![op.id].handoff = branch[op.id]]
  /\ Goes("removing")
  /\ UNCHANGED <<mode, given, branch, refs, dir, content, lineage, result, op>>

(* The result, or a journal that fails to take it. *)
Complete ==
  /\ pc = "ending"
  /\ \E status \in {op.end, "failed", "interrupted"}, retry \in BOOLEAN :
       /\ retry => status = "failed"
       /\ Settles(status, retry, IF mode = "worktree"
                                 THEN Carried(op.id, record[op.id].handoff)
                                 ELSE NoCommit)
  /\ Keeps /\ UNCHANGED store

(***************************************************************************)
(* Removal: removeCleanWorktree and removeReadOnlySnapshot.  git worktree  *)
(* remove deletes the files, which may cost the checkout its identity      *)
(* first or last, then the registration.                                   *)
(***************************************************************************)
(* Without git status. *)
DeleteDirty ==
  /\ pc = "removing"
  /\ dir[op.id] = "present"
  /\ HeadOf(op.id) = Expected(op.id)
  /\ content' = [content EXCEPT ![op.id] = Damaged]
  /\ \E left \in {"present", "broken"} : dir' = [dir EXCEPT ![op.id] = left]
  /\ Goes("deleting")
  /\ UNCHANGED <<mode, given, record, branch, refs, lineage, result, op>>

Delete ==
  /\ pc = "removing"
  /\ dir[op.id] = "present"
  /\ HeadOf(op.id) = Expected(op.id)
  /\ Clean(op.id)
  /\ content' = [content EXCEPT ![op.id] = Damaged]
  /\ \E left \in {"present", "broken"} : dir' = [dir EXCEPT ![op.id] = left]
  /\ Goes("deleting")
  /\ UNCHANGED <<mode, given, record, branch, refs, lineage, result, op>>

Vanish ==
  /\ pc = "deleting"
  /\ dir' = [dir EXCEPT ![op.id] = "stale"]
  /\ Goes("unregistering")
  /\ UNCHANGED <<mode, given, record, branch, refs, content, lineage, result, op>>

(* Nothing left to delete: release goes on, a snapshot loses what is left. *)
AlreadyGone ==
  /\ pc = "removing"
  /\ op.goal # "attempt" \/ mode = "read-only"
  /\ dir[op.id] \in {"absent", "stale"}
  /\ Goes(IF mode = "worktree" THEN "freeing" ELSE "unregistering")
  /\ UNCHANGED <<mode, given, store, result, op>>

Unregister ==
  /\ pc = "unregistering"
  /\ dir' = [dir EXCEPT ![op.id] = "absent"]
  /\ Goes(IF mode = "read-only" THEN "unlinking"
          ELSE IF op.goal = "release" THEN "freeing" ELSE "ending")
  /\ UNCHANGED <<mode, given, record, branch, refs, content, lineage, result, op>>

(* What an operation over several checkouts does after one of them. *)
Advances(label) ==
  /\ Goes(label)
  /\ op' = [op EXCEPT !.id = First(op.rest), !.rest = @ \ {First(op.rest)}]
  /\ UNCHANGED result

Unlink ==
  /\ pc = "unlinking"
  /\ record' = [record EXCEPT ![op.id].state = "none"]
  /\ CASE op.goal = "attempt" -> Goes("ending") /\ UNCHANGED <<result, op>>
       [] op.goal = "drop" -> Ends /\ UNCHANGED result
       [] op.goal \notin {"attempt", "drop"} /\ op.rest # {} -> Advances("removing")
       [] OTHER -> \E status \in {"interrupted", "failed"} :
                     Settles(status, FALSE, result.handoff)
  /\ UNCHANGED <<mode, given, branch, refs, dir, content, lineage>>

(***************************************************************************)
(* Release                                                                 *)
(***************************************************************************)
Release ==
  LET ids == Range(lineage)
  IN  /\ pc = "idle"
      /\ mode = "worktree"
      /\ result.status \in {"completed", "failed", "cleanup-blocked"}
      /\ lineage # <<>>
      /\ op' = [NoOp EXCEPT !.goal = "release", !.id = First(ids),
                            !.rest = ids \ {First(ids)}]
      /\ Goes("removing")
      /\ Keeps /\ UNCHANGED <<store, result>>

(* releaseWorktreeBranch: git deletes no branch of a registered worktree *)
Free ==
  /\ pc = "freeing"
  /\ dir[op.id] \in {"absent", "stale"}
  /\ record[op.id].handoff # NoCommit => refs[op.id] = record[op.id].handoff
  /\ \/ branch[op.id] = NoCommit
     \/ branch[op.id] = Expected(op.id) /\ dir[op.id] = "absent"
  /\ branch' = [branch EXCEPT ![op.id] = NoCommit]
  /\ Goes("receipting")
  /\ UNCHANGED <<mode, given, record, refs, dir, content, lineage, result, op>>

Receipt ==
  /\ pc = "receipting"
  /\ record' = [record EXCEPT ![op.id].released = TRUE]
  /\ IF op.rest # {} THEN Advances("removing")
     ELSE \E status \in {result.status, "failed"} :
            /\ status # result.status => result.status = "cleanup-blocked"
            /\ result' = [result EXCEPT !.status = status]
            /\ Ends
  /\ UNCHANGED <<mode, given, branch, refs, dir, content, lineage>>

(***************************************************************************)
(* Reconciliation, once the VM is proved gone: a worktree run is           *)
(* classified when nothing about its worktrees is unknown; a read-only run *)
(* loses its snapshots first, if every record can be read.                 *)
(***************************************************************************)
Classify ==
  /\ pc = "idle"
  /\ mode = "worktree"
  /\ result.status = "cleanup-blocked"
  /\ lineage # <<>>
  /\ \A i \in Range(lineage) : Observed(i) # "unknown"
  /\ \E status \in {"interrupted", "failed"} :
       result' = [result EXCEPT !.status = status, !.retry = FALSE]
  /\ UNCHANGED <<mode, given, store, pc, op>>

Listed == {i \in Ids : record[i].state # "none"}

Reconcile ==
  /\ pc = "idle"
  /\ mode = "read-only"
  /\ result.status = "cleanup-blocked"
  /\ \A i \in Listed : record[i].state = "whole"
  /\ IF Listed = {}
     THEN /\ \E status \in {"interrupted", "failed"} :
               result' = [result EXCEPT !.status = status, !.retry = FALSE]
          /\ UNCHANGED <<pc, op>>
     ELSE /\ op' = [NoOp EXCEPT !.goal = "reconcile", !.id = First(Listed),
                                !.rest = Listed \ {First(Listed)}]
          /\ Goes("removing")
          /\ UNCHANGED result
  /\ Keeps /\ UNCHANGED store

(***************************************************************************)
(* A command or a write fails, or a check refuses: the operation throws.   *)
(* One that throws with its attempt on record, but not begun, leaves the   *)
(* service with an attempt that is not the latest.                         *)
(***************************************************************************)
Throw ==
  /\ pc \notin {"idle", "down", "running", "ending"}
  /\ CASE op.goal = "start" /\ pc \in {"enrolling", "enrolled"} ->
            /\ result' = [result EXCEPT !.latest = pc = "enrolling" /\ @]
            /\ IF mode = "worktree" THEN Ends
               ELSE Goes("removing") /\ op' = [op EXCEPT !.goal = "drop"]
       [] op.goal = "attempt" /\ mode = "read-only" ->
            Settles("cleanup-blocked", FALSE, NoCommit)
       [] op.goal = "attempt" /\ mode = "worktree" ->
            \E status \in {"failed", "interrupted"}, retry \in BOOLEAN :
              /\ retry => status = "failed"
              /\ Settles(status, retry, Carried(op.id, op.had))
       [] OTHER -> Ends /\ UNCHANGED result
  /\ Keeps /\ UNCHANGED store

(* The host dies; a seat opens the store again. *)
Crash ==
  /\ pc # "down"
  /\ Goes("down")
  /\ op' = NoOp
  /\ Keeps /\ UNCHANGED <<store, result>>

Open ==
  /\ pc = "down"
  /\ result' =
       [status |-> IF result.status \in {"active", "unstarted"}
                   THEN "cleanup-blocked" ELSE result.status,
        retry |-> result.retry /\ result.status = "failed",
        handoff |-> IF mode = "read-only" \/ lineage = <<>> THEN NoCommit
                    ELSE Carried(Latest, record[Latest].handoff),
        latest |-> TRUE]
  /\ Goes("idle")
  /\ UNCHANGED <<mode, given, store, op>>

Begin == Launch \/ Retry \/ Resume \/ Continue
Preparation == Reserve \/ WriteRecord \/ AddBranch \/ Checkout \/ Enrol \/ Start
Attempt == Edit \/ Stop \/ Finish \/ Capture \/ MoveBranch \/ PinHandoff
             \/ NoteHandoff \/ Complete
Removal == Delete \/ Vanish \/ AlreadyGone \/ Unregister \/ Unlink
Releasing == Release \/ Free \/ Receipt

Next ==
  \/ Begin \/ Preparation \/ Attempt \/ Removal \/ Releasing
  \/ Classify \/ Reconcile \/ Throw \/ Crash \/ Open

Spec == Init /\ [][Next]_vars

-----------------------------------------------------------------------------
(* Every variable keeps its type; no run has more attempts than its plan's *)
(* retries and resumes allow.                                              *)
TypeOK ==
  /\ mode \in {"worktree", "read-only"}
  /\ given \in Commits
  /\ record \in [Ids -> [state : {"none", "torn", "whole"}, start : Commits,
                         handoff : Commits \cup {NoCommit}, released : BOOLEAN]]
  /\ branch \in [Ids -> Commits \cup {NoCommit}]
  /\ refs \in [Ids -> Commits \cup {NoCommit}]
  /\ dir \in [Ids -> {"absent", "present", "broken", "stale"}]
  /\ content \in [Ids -> Contents \cup {Damaged}]
  /\ lineage \in Seq(Ids) /\ Len(lineage) <= MaxAttempts
  /\ result \in [status : {"new", "unstarted", "active", "completed", "failed",
                           "interrupted", "cleanup-blocked"},
                 retry : BOOLEAN, latest : BOOLEAN, handoff : Commits \cup {NoCommit}]
  /\ op.id \in Ids /\ op.rest \subseteq Ids

(* The work in a checkout is somewhere else: in the commit it started at,  *)
(* or under its hand-off ref.                                              *)
Saved(id) ==
  \/ content[id] = record[id].start.tree
  \/ refs[id] # NoCommit /\ content[id] = refs[id].tree

(* docs/persistence.md:229, 254: clean-up refuses dirty worktrees, and     *)
(* uncaptured writes are preserved: a checkout's files are deleted only    *)
(* once they are saved, through failures, deaths, resumes and releases.    *)
WorkSurvives ==
  [][\A i \in Ids : dir[i] = "present" /\ content[i] # Damaged /\ content'[i] = Damaged
       => Saved(i)]_vars

(* docs/persistence.md:237: the ref is the reachability authority: a       *)
(* hand-off on record is under its ref and differs from the baseline.      *)
HandoffsPinned ==
  \A i \in Ids : record[i].handoff # NoCommit =>
    refs[i] = record[i].handoff /\ record[i].handoff.tree # Plain

(* docs/persistence.md:217: what exists in Git has evidence on file that   *)
(* was there before: a reservation for a worktree, for a snapshot a record *)
(* that can be read (createAttemptWorktree, createReadOnlySnapshot).       *)
EvidenceFirst ==
  \A i \in Ids : branch[i] # NoCommit \/ dir[i] # "absent" =>
    record[i].state \in (IF mode = "worktree" THEN {"torn", "whole"} ELSE {"whole"})

(* docs/failures.md:28: a failed preparation may be retried: the attempt   *)
(* is not refused for what the failed one left (Reserve).                  *)
PreparationRetries == pc = "reserving" => record[op.id].state = "none"

(* docs/persistence.md:233: a ref made in the window between update-ref    *)
(* and the record is reclaimed by retention, which takes released runs     *)
(* only: the worktree of such a ref can be released.                       *)
CrashWindowReclaimed ==
  \A i \in Ids : pc = "idle" /\ refs[i] # NoCommit /\ ~record[i].released =>
    branch[i] \in {NoCommit, Expected(i)}

(* docs/contracts.md:498: whether or not an attempt resumes, its final     *)
(* tree is captured: it never runs where a capture was made before.        *)
ResumedWorkIsCaptured ==
  pc = "running" /\ mode = "worktree" => record[op.id].handoff = NoCommit

(* docs/contracts.md:501: exportHandoff returns the run's latest hand-off. *)
HandoffIsLatest ==
  result.status \in {"completed", "failed"} /\ pc = "idle" /\ lineage # <<>> =>
    record[Latest].handoff \in {NoCommit, result.handoff}

(* docs/persistence.md:225: a hand-off is the worktree's final tree: never *)
(* what a removal cut short has left of one (Delete, then Resume).         *)
HandoffsAreWork == \A i \in Ids : refs[i] # NoCommit => refs[i].tree # Damaged

(* docs/persistence.md:219: reconciliation removes the recorded snapshots: *)
(* every record of one can be read once the seat that made it is gone.     *)
SnapshotsCanBeRead ==
  mode = "read-only" /\ pc = "idle" => \A i \in Ids : record[i].state # "torn"
==============================================================================
