---------------------------- MODULE WorktreeProofs ----------------------------
(***************************************************************************)
(* Proof that hand-offs stay pinned, that no work is deleted before it is  *)
(* saved, and that nothing exists in Git without its evidence: for any     *)
(* contents and any number of attempts.                                    *)
(***************************************************************************)
EXTENDS Worktree, TLAPS

Fields == {"state", "start", "handoff", "released"}

(* The files of the store are functions of the names. *)
Shape ==
  /\ record = [i \in Ids |-> record[i]]
  /\ \A i \in Ids : DOMAIN record[i] = Fields
  /\ branch = [i \in Ids |-> branch[i]]
  /\ refs = [i \in Ids |-> refs[i]]
  /\ dir = [i \in Ids |-> dir[i]]
  /\ content = [i \in Ids |-> content[i]]

(* From the commit to the record: what is captured differs from the        *)
(* baseline, has not been captured before, and is pinned when it is noted. *)
CaptureInv ==
  \A i \in Ids : i = op.id =>
    /\ pc \in {"moving", "pinning", "noting"} => record[i].handoff = NoCommit
    /\ pc = "moving" => content[i] # Plain
    /\ pc \in {"pinning", "noting"} => branch[i].tree # Plain
    /\ pc = "noting" => refs[i] = branch[i]

(* A checkout is made where there is none. *)
FreshInv ==
  \A i \in Ids :
    /\ record[i].state = "none" => dir[i] = "absent"
    /\ i = op.id /\ pc \in {"branching", "writing", "checkout", "unlinking"} =>
         dir[i] = "absent"
    /\ i = op.id /\ pc \in {"branching", "writing", "checkout", "deleting"} =>
         record[i].state # "none"

IInv == Shape /\ HandoffsPinned /\ CaptureInv /\ FreshInv

LEMMA InitIInv == Init => IInv
  BY DEF Init, IInv, Shape, HandoffsPinned, CaptureInv, FreshInv, NoOp, Fields

(* One step per action. *)
LEMMA NextIInv == IInv /\ [Next]_vars => IInv'
<1> SUFFICES ASSUME IInv, [Next]_vars PROVE IInv'
  OBVIOUS
<1> USE DEF IInv, Shape, HandoffsPinned, CaptureInv, FreshInv, Fields, store
<1>1. CASE UNCHANGED vars
  BY <1>1 DEF vars
<1>2. ASSUME NEW id, NEW start, NEW label \in {"reserving", "enrolling"},
             Prepare(id, start, label)
      PROVE IInv'
  BY <1>2 DEF Prepare, Goes, Keeps
<1>3. CASE Begin
  BY <1>3, <1>2 DEF Begin, Launch, Retry, Resume, Continue
<1>4. CASE Preparation
  <2>1. CASE Reserve
    BY <2>1 DEF Reserve, Goes
  <2>2. CASE WriteRecord
    BY <2>2 DEF WriteRecord, Goes
  <2>3. CASE AddBranch
    BY <2>3 DEF AddBranch, Goes
  <2>4. CASE Checkout
    BY <2>4 DEF Checkout, Goes
  <2>5. CASE Enrol
    BY <2>5 DEF Enrol, Goes
  <2>6. CASE Start
    BY <2>6 DEF Start, Goes, Keeps
  <2> QED
    BY <1>4, <2>1, <2>2, <2>3, <2>4, <2>5, <2>6 DEF Preparation
<1>5. CASE Attempt
  <2>1. CASE Edit
    BY <2>1 DEF Edit
  <2>2. CASE Stop
    BY <2>2 DEF Stop, Settles, Ends, Goes, Keeps, NoOp
  <2>3. CASE Finish
    BY <2>3 DEF Finish, Goes, Keeps
  <2>4. CASE Capture
    BY <2>4 DEF Capture, Goes, Keeps
  <2>5. CASE MoveBranch
    BY <2>5 DEF MoveBranch, Goes
  <2>6. CASE PinHandoff
    BY <2>6 DEF PinHandoff, Goes
  <2>7. CASE NoteHandoff
    BY <2>7 DEF NoteHandoff, Goes
  <2>8. CASE Complete
    BY <2>8 DEF Complete, Settles, Ends, Goes, Keeps, NoOp
  <2> QED
    BY <1>5, <2>1, <2>2, <2>3, <2>4, <2>5, <2>6, <2>7, <2>8 DEF Attempt
<1>6. CASE Removal
  <2>1. CASE Delete
    BY <2>1 DEF Delete, Goes
  <2>2. CASE Vanish
    BY <2>2 DEF Vanish, Goes
  <2>3. CASE AlreadyGone
    BY <2>3 DEF AlreadyGone, Goes, Keeps
  <2>4. CASE Unregister
    BY <2>4 DEF Unregister, Goes
  <2>5. CASE Unlink
    BY <2>5 DEF Unlink, Advances, Settles, Ends, Goes, NoOp
  <2> QED
    BY <1>6, <2>1, <2>2, <2>3, <2>4, <2>5 DEF Removal
<1>7. CASE Releasing
  <2>1. CASE Release
    BY <2>1 DEF Release, Goes, Keeps
  <2>2. CASE Free
    BY <2>2 DEF Free, Goes
  <2>3. CASE Receipt
    BY <2>3 DEF Receipt, Advances, Ends, Goes, NoOp
  <2> QED
    BY <1>7, <2>1, <2>2, <2>3 DEF Releasing
<1>8. CASE Classify
  BY <1>8 DEF Classify
<1>9. CASE Reconcile
  BY <1>9 DEF Reconcile, Goes, Keeps
<1>10. CASE Throw
  BY <1>10 DEF Throw, Settles, Ends, Goes, Keeps, NoOp
<1>11. CASE Crash
  BY <1>11 DEF Crash, Goes, Keeps, NoOp
<1>12. CASE Open
  BY <1>12 DEF Open, Goes
<1> QED
  BY <1>1, <1>3, <1>4, <1>5, <1>6, <1>7, <1>8, <1>9, <1>10, <1>11, <1>12 DEF Next

LEMMA Inductive == Spec => []IInv
<1>1. Init => IInv
  BY InitIInv
<1>2. IInv /\ [Next]_vars => IInv'
  BY NextIInv
<1> QED
  BY <1>1, <1>2, PTL DEF Spec

(* A hand-off on record is under its ref, and differs from the baseline,   *)
(* whatever fails or dies in captureWorktreeHandoff and wherever it is     *)
(* resumed or released (HandoffsPinned).                                   *)
THEOREM HandoffsStayPinned == Spec => []HandoffsPinned
<1>1. IInv => HandoffsPinned
  BY DEF IInv
<1> QED
  BY <1>1, Inductive, PTL

(* What WorkSurvives asks of a step. *)
DeletesSaved ==
  \A i \in Ids : dir[i] = "present" /\ content[i] # Damaged /\ content'[i] = Damaged
    => Saved(i)

(* Only removeCleanWorktree and removeReadOnlySnapshot delete, and what    *)
(* their checks compare with is pinned.                                    *)
LEMMA StepsDeleteSaved == IInv /\ [Next]_vars => DeletesSaved
<1> SUFFICES ASSUME IInv, [Next]_vars,
                    NEW i \in Ids, dir[i] = "present", content[i] # Damaged,
                    content'[i] = Damaged
             PROVE Saved(i)
  BY DEF DeletesSaved
<1>1. CASE Delete
  <2>1. i = op.id /\ HeadOf(i) = Expected(i) /\ Clean(i)
    BY <1>1 DEF Delete, IInv, Shape
  <2>2. content[i] = Expected(i).tree
    BY <2>1 DEF Clean
  <2>3. CASE record[i].handoff = NoCommit
    BY <2>2, <2>3 DEF Expected, Saved
  <2>4. CASE record[i].handoff # NoCommit
    BY <2>2, <2>4 DEF Expected, Saved, IInv, HandoffsPinned
  <2> QED
    BY <2>3, <2>4
<1>2. CASE Checkout
  BY <1>2 DEF Checkout, IInv, Shape, FreshInv
<1>3. CASE Edit
  BY <1>3, ContentAssumption DEF Edit, IInv, Shape
<1>4. CASE content' = content
  BY <1>4
<1> QED
  <2>1. CASE UNCHANGED vars
    BY <2>1, <1>4 DEF vars, store
  <2>2. CASE Next
    BY <2>2, <1>1, <1>2, <1>3, <1>4
       DEF Next, Begin, Launch, Retry, Resume, Continue, Prepare, Keeps, store,
           Preparation, Reserve, WriteRecord, AddBranch, Enrol, Start,
           Attempt, Stop, Finish, Capture, MoveBranch, PinHandoff, NoteHandoff,
           Complete, Removal, Vanish, AlreadyGone, Unregister, Unlink,
           Releasing, Release, Free, Receipt, Classify, Reconcile, Throw, Crash, Open
  <2> QED
    BY <2>1, <2>2

(* No operation deletes the files of a checkout before its work is in the  *)
(* commit it started at or under its hand-off ref (WorkSurvives).          *)
THEOREM WorkAlwaysSurvives == Spec => WorkSurvives
<1>1. IInv /\ [Next]_vars => DeletesSaved
  BY StepsDeleteSaved
<1> QED
  BY <1>1, Inductive, PTL DEF Spec, WorkSurvives, DeletesSaved

(* What is there may be there; what may next be there has its record.      *)
Evidence(id) ==
  record[id].state \in (IF mode = "worktree" THEN {"torn", "whole"} ELSE {"whole"})

EvidenceInv ==
  /\ mode \in {"worktree", "read-only"}
  /\ mode = "read-only" => \A i \in Ids : branch[i] = NoCommit
  /\ pc \in {"branching", "recording", "capturing", "moving"} => mode = "worktree"
  /\ pc \in {"writing", "unlinking"} => mode = "read-only"
  /\ \A i \in Ids :
       /\ record[i].state \in {"none", "torn", "whole"}
       /\ branch[i] # NoCommit \/ dir[i] # "absent" => Evidence(i)
       /\ i = op.id /\ pc \in {"branching", "checkout", "moving", "deleting"} =>
            Evidence(i)

LEMMA EvidenceInit == Init => EvidenceInv
  BY DEF Init, EvidenceInv, Evidence, NoOp

(* One step per action: what is made has its record, a record that goes    *)
(* has nothing left.                                                       *)
LEMMA EvidenceStep == IInv /\ EvidenceInv /\ [Next]_vars => EvidenceInv'
<1> SUFFICES ASSUME IInv, EvidenceInv, [Next]_vars PROVE EvidenceInv'
  OBVIOUS
<1> USE DEF IInv, Shape, FreshInv, EvidenceInv, Evidence, Fields, store, Goes
<1>1. CASE UNCHANGED vars
  BY <1>1 DEF vars
<1>2. ASSUME NEW id, NEW start, NEW label \in {"reserving", "enrolling"},
             Prepare(id, start, label)
      PROVE EvidenceInv'
  BY <1>2 DEF Prepare, Keeps
<1>3. CASE Begin
  BY <1>3, <1>2 DEF Begin, Launch, Retry, Resume, Continue
<1>4. CASE Preparation
  <2>1. CASE Reserve
    BY <2>1 DEF Reserve
  <2>2. CASE WriteRecord
    BY <2>2 DEF WriteRecord
  <2>3. CASE AddBranch
    BY <2>3 DEF AddBranch
  <2>4. CASE Checkout
    BY <2>4 DEF Checkout
  <2>5. CASE Enrol
    BY <2>5 DEF Enrol
  <2>6. CASE Start
    BY <2>6 DEF Start, Keeps
  <2> QED
    BY <1>4, <2>1, <2>2, <2>3, <2>4, <2>5, <2>6 DEF Preparation
<1>5. CASE Attempt
  <2>1. CASE Edit
    BY <2>1 DEF Edit
  <2>2. CASE Stop
    BY <2>2 DEF Stop, Settles, Ends, Keeps, NoOp
  <2>3. CASE Finish
    BY <2>3 DEF Finish, Keeps
  <2>4. CASE Capture
    BY <2>4 DEF Capture, Keeps
  <2>5. CASE MoveBranch
    BY <2>5 DEF MoveBranch
  <2>6. CASE PinHandoff
    BY <2>6 DEF PinHandoff
  <2>7. CASE NoteHandoff
    BY <2>7 DEF NoteHandoff
  <2>8. CASE Complete
    BY <2>8 DEF Complete, Settles, Ends, Keeps, NoOp
  <2> QED
    BY <1>5, <2>1, <2>2, <2>3, <2>4, <2>5, <2>6, <2>7, <2>8 DEF Attempt
<1>6. CASE Removal
  <2>1. CASE Delete
    BY <2>1 DEF Delete
  <2>2. CASE Vanish
    BY <2>2 DEF Vanish
  <2>3. CASE AlreadyGone
    BY <2>3 DEF AlreadyGone, Keeps
  <2>4. CASE Unregister
    BY <2>4 DEF Unregister
  <2>5. CASE Unlink
    BY <2>5 DEF Unlink, Advances, Settles, Ends, NoOp
  <2> QED
    BY <1>6, <2>1, <2>2, <2>3, <2>4, <2>5 DEF Removal
<1>7. CASE Releasing
  <2>1. CASE Release
    BY <2>1 DEF Release, Keeps
  <2>2. CASE Free
    BY <2>2 DEF Free
  <2>3. CASE Receipt
    BY <2>3 DEF Receipt, Advances, Ends, NoOp
  <2> QED
    BY <1>7, <2>1, <2>2, <2>3 DEF Releasing
<1>8. CASE Classify
  BY <1>8 DEF Classify
<1>9. CASE Reconcile
  BY <1>9 DEF Reconcile, Keeps
<1>10. CASE Throw
  BY <1>10 DEF Throw, Settles, Ends, Keeps, NoOp
<1>11. CASE Crash
  BY <1>11 DEF Crash, Keeps, NoOp
<1>12. CASE Open
  BY <1>12 DEF Open
<1> QED
  BY <1>1, <1>3, <1>4, <1>5, <1>6, <1>7, <1>8, <1>9, <1>10, <1>11, <1>12 DEF Next

(* What exists in Git has evidence on file that was there before, through  *)
(* every failure and death of a preparation, a capture or a removal.       *)
THEOREM EvidenceComesFirst == Spec => []EvidenceFirst
<1>1. EvidenceInv => EvidenceFirst
  BY DEF EvidenceInv, Evidence, EvidenceFirst
<1> QED
  BY <1>1, EvidenceInit, EvidenceStep, Inductive, PTL DEF Spec
==============================================================================
