--------------------------- MODULE RetentionProofs ---------------------------
(***************************************************************************)
(* Proofs about retention, for any seats, runs and bounds.                 *)
(*                                                                         *)
(* IInv: only the holder of the retention lease prunes, and what it picked *)
(* is not pinned; no manifest is ever written for a pinned run.            *)
(* Typed: the variables have their types, and a seat's job fits the place  *)
(* it is at.                                                               *)
(* Inv: a run that is not lost has its whole graph, because its journal is *)
(* the first file to be moved and no attempt follows a lost run; what a    *)
(* manifest lists is in the trash or yet to be moved, the record last.     *)
(***************************************************************************)
EXTENDS Retention, TLAPS

Pruning == {"recovering", "restoring", "picking", "leased", "pruning"}

Fields == {"run", "seen", "picks", "at", "todo", "gone"}

(* Its variables are functions of the seats and a job has its fields. *)
Shape ==
  /\ pc = [s \in Seats |-> pc[s]]
  /\ job = [s \in Seats |-> job[s]]
  /\ \A s \in Seats : DOMAIN job[s] = Fields

(* A seat that prunes has the retention lease. *)
PortInv == \A s \in Seats : pc[s] \in Pruning => port = s

(* Between the reading of pins and the last manifest, what is picked is    *)
(* not pinned.                                                             *)
PicksInv ==
  \A s \in Seats : pc[s] \in {"picking", "leased", "pruning"} =>
    DOMAIN job[s].picks \cap pins = {}

(* The run a seat has leased for pruning is one it picked. *)
LeasedInv ==
  \A s \in Seats : pc[s] = "leased" =>
    \E r \in DOMAIN job[s].picks : job[s].run = {r}

IInv == Shape /\ PortInv /\ PicksInv /\ LeasedInv

(* It holds at the start.                                                  *)
LEMMA InitIInv == Init => IInv
  BY SeatAssumption DEF Init, IInv, Shape, PortInv, PicksInv, LeasedInv, NoJob,
     Pruning, Fields

(* One step per action; where a job changes in several fields, what it keeps *)
(* comes first.                                                               *)
LEMMA NextIInv == IInv /\ [Next]_vars => IInv'
<1> SUFFICES ASSUME IInv, [Next]_vars PROVE IInv'
  OBVIOUS
<1> USE SeatAssumption DEF IInv, Pruning, Fields
<1>1. CASE UNCHANGED vars
  BY <1>1 DEF vars, files, Shape, PortInv, PicksInv, LeasedInv
<1>2. ASSUME NEW s \in Seats, Attempts(s) PROVE IInv'
  <2>1. ASSUME NEW r \in Runs, Ask(s, r) PROVE IInv'
    BY <2>1 DEF Ask, Goes, files, Shape, PortInv, PicksInv, LeasedInv
  <2>2. ASSUME NEW r \in Runs, Settle(s, r) PROVE IInv'
    BY <2>2 DEF Settle, Shape, PortInv, PicksInv, LeasedInv
  <2>3. CASE StartAttempt(s)
    BY <2>3 DEF StartAttempt, Ends, Goes, NoJob, Shape, PortInv, PicksInv, LeasedInv
  <2>4. CASE StartRefused(s)
    BY <2>4 DEF StartRefused, Ends, Goes, NoJob, files, Shape, PortInv, PicksInv, LeasedInv
  <2> QED
    BY <1>2, <2>1, <2>2, <2>3, <2>4 DEF Attempts
<1>3. ASSUME NEW s \in Seats, Pinning(s) PROVE IInv'
  <2>1. ASSUME NEW r \in Runs, Pin(s, r) PROVE IInv'
    BY <2>1 DEF Pin, Shape, PortInv, PicksInv, LeasedInv
  <2>2. ASSUME NEW r \in Runs, Unpin(s, r) PROVE IInv'
    BY <2>2 DEF Unpin, Shape, PortInv, PicksInv, LeasedInv
  <2> QED
    BY <1>3, <2>1, <2>2 DEF Pinning
<1>4. ASSUME NEW s \in Seats, Prune(s) PROVE IInv'
  <2>1. CASE Describe(s)
    BY <2>1 DEF Describe, Goes, files, Shape, PortInv, PicksInv, LeasedInv
  <2>2. CASE TakeLease(s)
    BY <2>2 DEF TakeLease, Goes, files, Shape, PortInv, PicksInv, LeasedInv
  <2>3. CASE LeaseRefused(s)
    BY <2>3 DEF LeaseRefused, Ends, Goes, NoJob, files, Shape, PortInv, PicksInv, LeasedInv
  <2>4. CASE NextIntent(s)
    BY <2>4 DEF NextIntent, Goes, Shape, PortInv, PicksInv, LeasedInv
  <2>5. CASE RootMissing(s)
    BY <2>5 DEF RootMissing, Validate, Ends, Goes, NoJob, files, Shape, PortInv,
       PicksInv, LeasedInv
  <2>6. CASE Assess(s)
    <3>1. PICK chosen \in SUBSET Candidates(s) :
            job' = [job EXCEPT ![s].picks =
                      [r \in chosen |-> Linked(r, job[s].seen[r].count)]]
      BY <2>6 DEF Assess
    <3>2. chosen \cap pins = {}
      BY DEF Candidates
    <3>3. DOMAIN job'[s].picks = chosen
      BY <3>1 DEF Shape, Fields
    <3> QED
      BY <2>6, <3>1, <3>2, <3>3 DEF Assess, Validate, Goes, files, Shape, PortInv,
         PicksInv, LeasedInv
  <2>7. CASE TakeRun(s)
    BY <2>7 DEF TakeRun, Drop, Goes, Shape, PortInv, PicksInv, LeasedInv
  <2>8. CASE Spare(s)
    <3>1. /\ job' = [t \in Seats |-> job'[t]]
          /\ \A t \in Seats \ {s} : job'[t] = job[t]
          /\ DOMAIN job'[s] = Fields
          /\ job'[s].run = {}
          /\ job'[s].picks = Drop(job[s].picks, InHand(s))
      BY <2>8 DEF Spare, Shape, Fields
    <3> QED
      BY <2>8, <3>1 DEF Spare, Drop, Goes, files, Shape, PortInv, PicksInv, LeasedInv
  <2>9. CASE WriteManifest(s)
    <3>1. /\ job' = [t \in Seats |-> job'[t]]
          /\ \A t \in Seats \ {s} : job'[t] = job[t]
          /\ DOMAIN job'[s] = Fields
          /\ job'[s].run = job[s].run
          /\ job'[s].picks = Drop(job[s].picks, InHand(s))
      BY <2>9 DEF WriteManifest, Shape, Fields
    <3> QED
      BY <2>9, <3>1 DEF WriteManifest, Drop, Goes, Shape, PortInv, PicksInv, LeasedInv
  <2>10. CASE DropRef(s)
    <3>1. /\ job' = [t \in Seats |-> job'[t]]
          /\ \A t \in Seats \ {s} : job'[t] = job[t]
          /\ DOMAIN job'[s] = Fields
          /\ job'[s].run = job[s].run
          /\ job'[s].picks = job[s].picks
      BY <2>10 DEF DropRef, Shape, Fields
    <3> QED
      BY <2>10, <3>1 DEF DropRef, Shape, PortInv, PicksInv, LeasedInv
  <2>11. CASE Move(s)
    <3>1. /\ job' = [t \in Seats |-> job'[t]]
          /\ \A t \in Seats \ {s} : job'[t] = job[t]
          /\ DOMAIN job'[s] = Fields
          /\ job'[s].run = job[s].run
          /\ job'[s].picks = job[s].picks
      BY <2>11 DEF Move, Shape, Fields
    <3>2. UNCHANGED <<pins, port, pc>>
      BY <2>11 DEF Move
    <3> QED
      BY <3>1, <3>2 DEF Shape, PortInv, PicksInv, LeasedInv
  <2>12. CASE Restore(s)
    <3>1. /\ job' = [t \in Seats |-> job'[t]]
          /\ \A t \in Seats \ {s} : job'[t] = job[t]
          /\ DOMAIN job'[s] = Fields
          /\ job'[s].run = job[s].run
          /\ job'[s].picks = job[s].picks
      BY <2>12 DEF Restore, Shape, Fields
    <3>2. UNCHANGED <<pins, port, pc>>
      BY <2>12 DEF Restore
    <3> QED
      BY <3>1, <3>2 DEF Shape, PortInv, PicksInv, LeasedInv
  <2>13. CASE RestoreRefused(s)
    BY <2>13 DEF RestoreRefused, Refuses, Turn, Give, Ends, Goes, NoJob, files,
       Shape, PortInv, PicksInv, LeasedInv
  <2>14. CASE Throw(s)
    BY <2>14 DEF Throw, Give, Ends, Goes, NoJob, files, Shape, PortInv, PicksInv,
       LeasedInv
  <2>15. CASE Finish(s)
    <3>1. /\ job' = [t \in Seats |-> job'[t]]
          /\ \A t \in Seats \ {s} : job'[t] = job[t]
          /\ DOMAIN job'[s] = Fields
          /\ job'[s].run = {}
          /\ job'[s].picks = job[s].picks
      BY <2>15 DEF Finish, Shape, Fields
    <3> QED
      BY <2>15, <3>1 DEF Finish, Goes, Shape, PortInv, PicksInv, LeasedInv
  <2>16. CASE EndPrune(s)
    BY <2>16 DEF EndPrune, Ends, Goes, NoJob, files, Shape, PortInv, PicksInv,
       LeasedInv
  <2> QED
    BY <1>4, <2>1, <2>2, <2>3, <2>4, <2>5, <2>6, <2>7, <2>8, <2>9, <2>10, <2>11,
       <2>12, <2>13, <2>14, <2>15, <2>16 DEF Prune
<1>5. ASSUME NEW s \in Seats, Crash(s) PROVE IInv'
  BY <1>5 DEF Crash, Goes, NoJob, files, Shape, PortInv, PicksInv, LeasedInv
<1>6. ASSUME NEW s \in Seats, Open(s) PROVE IInv'
  BY <1>6 DEF Open, Goes, Shape, PortInv, PicksInv, LeasedInv
<1> QED
  BY <1>1, <1>2, <1>3, <1>4, <1>5, <1>6 DEF Next

(* What pruning keeps in every reachable state.                            *)
LEMMA Inductive == Spec => []IInv
  BY InitIInv, NextIInv, PTL DEF Spec

(* prune reads the pins once, under the retention lease that pin and unpin *)
(* take as well: no manifest is ever written for a run pinned at the time. *)
THEOREM PinsAlwaysHold == Spec => PinsHold
<1>1. IInv /\ [Next]_vars => [NoManifestForPins]_vars
  <2> SUFFICES ASSUME IInv, Next PROVE NoManifestForPins
    OBVIOUS
  <2>1. ASSUME NEW s \in Seats, WriteManifest(s) PROVE NoManifestForPins
    <3>1. PICK r \in DOMAIN job[s].picks : job[s].run = {r}
      BY <2>1 DEF IInv, LeasedInv, WriteManifest
    <3>2. InHand(s) = r /\ r \notin pins
      BY <2>1, <3>1 DEF InHand, IInv, PicksInv, WriteManifest
    <3> QED
      BY <2>1, <3>2 DEF WriteManifest, NoManifestForPins
  <2>2. ASSUME NEW s \in Seats, ~WriteManifest(s), Prune(s)
        PROVE  DOMAIN trash' = DOMAIN trash
    BY <2>2 DEF Prune, Describe, TakeLease, LeaseRefused, NextIntent, RootMissing,
       Assess, TakeRun, Spare, DropRef, Move, Restore, Rename, RestoreRefused, Throw,
       Finish, EndPrune, files
  <2>3. ASSUME NEW s \in Seats, Attempts(s) \/ Pinning(s) \/ Crash(s) \/ Open(s)
        PROVE DOMAIN trash' = DOMAIN trash
    BY <2>3 DEF Attempts, Ask, StartAttempt, StartRefused, Settle, Pinning, Pin, Unpin,
       Crash, Open, files
  <2> QED
    BY <2>1, <2>2, <2>3 DEF Next, NoManifestForPins
<1> QED
  BY <1>1, Inductive, PTL DEF PinsHold, Spec

-----------------------------------------------------------------------------
Labels == {"down", "idle", "asked", "described", "recovering", "restoring",
           "picking", "leased", "pruning"}
Moving == {"pruning", "restoring"}
Handling == {"asked", "leased"} \cup Moving
Partial(S) == UNION {[D -> S] : D \in SUBSET Runs}
Sights == [status : Recorded, dated : BOOLEAN, count : 0..MaxAttempts]
Jobs == [run : SUBSET Runs, seen : Partial(Sights), picks : Partial(SUBSET Files),
         at : Nat, todo : SUBSET ({Ref} \cup Files), gone : SUBSET Runs]

(* A seat that is about to start an attempt knows one that may follow.     *)
Asking(s) ==
  \E r \in DOMAIN mem[s] :
    /\ job[s].run = {r}
    /\ mem[s][r].status \in {"failed", "interrupted"}
    /\ mem[s][r].latest < MaxAttempts

(* The variables are functions of seats and runs to what they may hold.    *)
Kept ==
  /\ store \in [Runs -> SUBSET Files]
  /\ status \in [Runs -> Recorded]
  /\ attempts \in [Runs -> 1..MaxAttempts]
  /\ trash \in Seq(Intents)
  /\ refs \subseteq Runs
  /\ pins \subseteq Runs
  /\ port \in Seats \cup {NoSeat}
  /\ held \in [Runs -> Seats \cup {NoSeat}]
  /\ mem \in [Seats -> Partial(Beliefs)]

(* A seat's job fits the place it is at.                                   *)
Placed ==
  /\ pc \in [Seats -> Labels]
  /\ job \in [Seats -> Jobs]
  /\ \A s \in Seats :
       /\ job[s].at <= Len(trash) + 1
       /\ pc[s] \in Handling => \E r \in Runs : job[s].run = {r}
       /\ pc[s] \in Moving => job[s].at \in DOMAIN trash
       /\ pc[s] = "asked" => Asking(s)

Typed == Kept /\ Placed

(* A partial function of the runs, and what is in one. *)
LEMMA PartialIs ==
  ASSUME NEW S, NEW f
  PROVE  f \in Partial(S) <=> DOMAIN f \in SUBSET Runs /\ f \in [DOMAIN f -> S]
  BY DEF Partial

(* A partial function stays one on fewer runs.                             *)
LEMMA PartialFalls ==
  ASSUME NEW S, NEW f \in Partial(S), NEW D \in SUBSET DOMAIN f
  PROVE  [r \in D |-> f[r]] \in Partial(S)
  BY PartialIs

(* The empty function is one.                                              *)
LEMMA EmptyPartial ==
  ASSUME NEW S PROVE <<>> \in Partial(S)
<1>1. <<>> = [r \in {} |-> r]
  OBVIOUS
<1> QED  BY <1>1 DEF Partial

(* The job of an idle seat is a job.                                       *)
LEMMA NoJobTyped == NoJob \in Jobs
  BY EmptyPartial DEF NoJob, Jobs

(* The files of a run are among the files, for any number of attempts. *)
LEMMA GraphFiles ==
  ASSUME NEW n \in 0..MaxAttempts
  PROVE  Graph(n) \subseteq Files
  BY BoundAssumption DEF Graph, Files

(* A seat finds no more attempt records than there may be.                 *)
LEMMA OnDiskTyped ==
  ASSUME Typed, NEW r \in Runs
  PROVE  OnDisk(r) \in 0..MaxAttempts
  BY BoundAssumption DEF Typed, Kept, Placed, OnDisk

(* The type invariant follows.                                             *)
LEMMA TypedOK == Typed => TypeOK
<1> SUFFICES ASSUME Typed PROVE TypeOK
  OBVIOUS
<1>1. ASSUME NEW s \in Seats
      PROVE  DOMAIN mem[s] \subseteq Runs /\ \A r \in DOMAIN mem[s] : mem[s][r] \in Beliefs
  BY PartialIs DEF Typed, Kept, Placed
<1>2. ASSUME NEW s \in Seats PROVE job[s].at \in 0..(Len(trash) + 1)
  BY DEF Typed, Kept, Placed, Jobs
<1> QED
  BY <1>1, <1>2 DEF Typed, Kept, Placed, TypeOK, Labels

(* The types hold at the start.                                            *)
LEMMA InitTyped == Init => Typed
<1> SUFFICES ASSUME Init PROVE Typed
  OBVIOUS
<1>1. Graph(1) \in SUBSET Files
  BY GraphFiles, BoundAssumption
<1>2. Ordinary \cap Outcomes \subseteq Recorded
  BY DEF Ordinary, Outcomes, Recorded
<1>3. mem \in [Seats -> Partial(Beliefs)]
  <2>1. ASSUME NEW s \in Seats
        PROVE  [r \in Runs |-> [status |-> status[r], latest |-> 1]] \in Partial(Beliefs)
    <3>1. \A r \in Runs : [status |-> status[r], latest |-> 1] \in Beliefs
      BY <1>2, BoundAssumption DEF Init, Beliefs
    <3> QED  BY <3>1 DEF Partial
  <2> QED  BY <2>1 DEF Init
<1>4. trash \in Seq(Intents) /\ Len(trash) = 0
  BY DEF Init
<1>5. job \in [Seats -> Jobs] /\ \A s \in Seats : job[s].at = 0
  BY NoJobTyped DEF Init, NoJob
<1> QED
  BY <1>1, <1>2, <1>3, <1>4, <1>5, BoundAssumption
  DEF Init, Typed, Kept, Placed, Labels, Handling, Moving

(* A seat that handles a run has it in hand.                               *)
LEMMA InHandTyped ==
  ASSUME Typed, NEW s \in Seats, pc[s] \in Handling
  PROVE  InHand(s) \in Runs /\ job[s].run = {InHand(s)}
  BY DEF Typed, Kept, Placed, InHand

(* A file of a run may be renamed: the trash keeps its type and its length. *)
LEMMA RenameTyped ==
  ASSUME Typed, NEW s \in Seats, pc[s] \in Moving, NEW p \in Files,
         Rename(s, p) \/ UNCHANGED <<store, status, trash>>
  PROVE  /\ store' \in [Runs -> SUBSET Files]
         /\ status' \in [Runs -> Recorded]
         /\ trash' \in Seq(Intents)
         /\ DOMAIN trash' = DOMAIN trash
         /\ Len(trash') = Len(trash)
<1>1. CASE UNCHANGED <<store, status, trash>>
  BY <1>1 DEF Typed, Kept, Placed
<1>2. CASE Rename(s, p)
  <2>1. InHand(s) \in Runs
    BY InHandTyped DEF Handling
  <2>2. job[s].at \in DOMAIN trash /\ job[s].at \in 1..Len(trash)
    BY DEF Typed, Kept, Placed
  <2>3. trash[job[s].at] \in Intents
    BY <2>2 DEF Typed, Kept, Placed
  <2>4. [trash[job[s].at] EXCEPT !.moved = @ \cup {p}] \in Intents
    BY <2>3 DEF Intents
  <2>5. trash' = [trash EXCEPT ![job[s].at] =
                    [trash[job[s].at] EXCEPT !.moved = @ \cup {p}]]
    BY <1>2 DEF Rename
  <2>6. trash' \in Seq(Intents) /\ Len(trash') = Len(trash)
    BY <2>2, <2>4, <2>5 DEF Typed, Kept, Placed
  <2> QED
    BY <1>2, <2>1, <2>5, <2>6 DEF Rename, Typed, Kept, Placed, Recorded
<1> QED  BY <1>1, <1>2

(* One seat goes on to a label with a job; the others stay where they are. *)
LEMMA GoesTyped ==
  ASSUME Typed, NEW s \in Seats, NEW label \in Labels \ {"asked"}, NEW j \in Jobs,
         pc' = [pc EXCEPT ![s] = label],
         job' = [job EXCEPT ![s] = j],
         trash' \in Seq(Intents), Len(trash) <= Len(trash'),
         \A t \in Seats \ {s} : mem'[t] = mem[t],
         j.at <= Len(trash') + 1,
         label \in Handling => \E r \in Runs : j.run = {r},
         label \in Moving => j.at \in DOMAIN trash'
  PROVE  Placed'
<1>1. /\ pc' \in [Seats -> Labels] /\ pc'[s] = label
      /\ job' \in [Seats -> Jobs] /\ job'[s] = j
      /\ \A t \in Seats \ {s} : pc'[t] = pc[t] /\ job'[t] = job[t]
  BY DEF Typed, Kept, Placed
<1>2. /\ Len(trash) \in Nat /\ Len(trash') \in Nat
      /\ DOMAIN trash = 1..Len(trash) /\ DOMAIN trash' = 1..Len(trash')
  BY DEF Typed, Kept, Placed
<1>3. ASSUME NEW t \in Seats
      PROVE  /\ job'[t].at <= Len(trash') + 1
             /\ pc'[t] \in Handling => \E r \in Runs : job'[t].run = {r}
             /\ pc'[t] \in Moving => job'[t].at \in DOMAIN trash'
             /\ pc'[t] = "asked" => Asking(t)'
  <2>1. CASE t = s
    BY <1>1, <2>1
  <2>2. CASE t # s
    <3>1. job'[t] = job[t] /\ pc'[t] = pc[t] /\ mem'[t] = mem[t]
      BY <1>1, <2>2
    <3>2. job[t].at \in Nat
      BY DEF Typed, Kept, Placed, Jobs
    <3>3. /\ job[t].at <= Len(trash) + 1
          /\ pc[t] \in Handling => \E r \in Runs : job[t].run = {r}
          /\ pc[t] \in Moving => job[t].at \in DOMAIN trash
          /\ pc[t] = "asked" => Asking(t)
      BY DEF Typed, Kept, Placed
    <3>4. Asking(t) => Asking(t)'
      BY <3>1 DEF Asking
    <3> QED  BY <1>2, <3>1, <3>2, <3>3, <3>4
  <2> QED  BY <2>1, <2>2
<1> QED  BY <1>1, <1>3 DEF Placed

(* The fields of a job.                                                    *)
LEMMA JobFields ==
  ASSUME Typed, NEW s \in Seats
  PROVE  /\ job[s] \in Jobs
         /\ job[s].run \in SUBSET Runs
         /\ job[s].seen \in Partial(Sights)
         /\ job[s].picks \in Partial(SUBSET Files)
         /\ job[s].at \in Nat
         /\ job[s].todo \in SUBSET ({Ref} \cup Files)
         /\ job[s].gone \in SUBSET Runs
         /\ Len(trash) \in Nat
<1>1. job[s] \in Jobs /\ Len(trash) \in Nat
  BY DEF Typed, Kept, Placed
<1> QED  BY <1>1 DEF Jobs

(* A seat drops its job.                                                   *)
LEMMA EndsTyped ==
  ASSUME Typed, NEW s \in Seats, Ends(s), UNCHANGED trash,
         \A t \in Seats \ {s} : mem'[t] = mem[t]
  PROVE  Placed'
<1>1. job' = [job EXCEPT ![s] = NoJob] /\ pc' = [pc EXCEPT ![s] = "idle"]
  BY DEF Ends, Goes
<1>2. NoJob.at = 0 /\ 0 <= Len(trash) + 1
  BY JobFields DEF NoJob
<1>3. "idle" \in Labels \ {"asked"} /\ "idle" \notin Handling \cup Moving
  BY DEF Labels, Handling, Moving
<1>4. trash' \in Seq(Intents) /\ Len(trash) <= Len(trash')
  BY JobFields DEF Typed, Kept
<1> QED
  BY <1>1, <1>2, <1>3, <1>4, NoJobTyped, GoesTyped

(* Steps of attempts keep the types.                                       *)
LEMMA AttemptsTyped ==
  ASSUME Typed, NEW s \in Seats, Attempts(s)
  PROVE  Typed'
<1>1. ASSUME NEW r \in Runs, Ask(s, r) PROVE Typed'
  <2>1. mem[s][r].latest < MaxAttempts
    BY <1>1, BoundAssumption DEF Ask, OnDisk, Typed, Kept, Placed
  <2>2. r \in DOMAIN mem[s] /\ mem[s][r].status \in {"failed", "interrupted"}
    BY <1>1 DEF Ask
  <2>3. /\ job' \in [Seats -> Jobs]
        /\ job'[s].run = {r} /\ job'[s].at = job[s].at
        /\ \A t \in Seats \ {s} : job'[t] = job[t]
    <3>1. job[s] \in Jobs /\ job = [t \in Seats |-> job[t]] /\ job \in [Seats -> Jobs]
      BY DEF Typed, Placed
    <3>2. job' = [job EXCEPT ![s] = [job[s] EXCEPT !.run = {r}]]
      BY <1>1 DEF Ask
    <3> QED  BY <3>1, <3>2 DEF Jobs
  <2>4. /\ pc' \in [Seats -> Labels] /\ pc'[s] = "asked"
        /\ \A t \in Seats \ {s} : pc'[t] = pc[t]
    BY <1>1 DEF Ask, Goes, Typed, Kept, Placed, Labels
  <2>5. \A t \in Seats : pc'[t] = "asked" => Asking(t)'
    BY <1>1, <2>1, <2>2, <2>3, <2>4 DEF Ask, Asking, Typed, Kept, Placed
  <2> QED
    BY <1>1, <2>3, <2>4, <2>5 DEF Ask, files, Typed, Kept, Placed, Handling, Moving
<1>2. ASSUME NEW r \in Runs, Settle(s, r) PROVE Typed'
  <2>1. PICK outcome \in Outcomes :
          /\ status' = [status EXCEPT ![r] = outcome]
          /\ mem' = [mem EXCEPT ![s][r].status = outcome]
          /\ held' = IF outcome = "cleanup-blocked" THEN held
                                                    ELSE [held EXCEPT ![r] = NoSeat]
    BY <1>2 DEF Settle
  <2>2. mem[s] \in [DOMAIN mem[s] -> Beliefs] /\ DOMAIN mem[s] \subseteq Runs
    BY PartialIs DEF Typed, Kept, Placed
  <2>3. [mem[s] EXCEPT ![r].status = outcome] \in [DOMAIN mem[s] -> Beliefs]
    BY <2>2 DEF Beliefs, Recorded
  <2>4. [mem[s] EXCEPT ![r].status = outcome] \in Partial(Beliefs)
    BY <2>2, <2>3 DEF Partial
  <2>5. mem' \in [Seats -> Partial(Beliefs)]
    BY <2>1, <2>4 DEF Typed, Kept, Placed
  <2>6. mem[s][r].status = "active"
    BY <1>2 DEF Settle
  <2>7. \A t \in Seats : pc'[t] = "asked" => Asking(t)'
    <3>1. ASSUME NEW t \in Seats, pc[t] = "asked" PROVE Asking(t)'
      <4>1. PICK x \in DOMAIN mem[t] : /\ job[t].run = {x}
                                      /\ mem[t][x].status \in {"failed", "interrupted"}
                                      /\ mem[t][x].latest < MaxAttempts
        BY <3>1 DEF Typed, Kept, Placed, Asking
      <4>2. CASE t # s
        <5>1. mem'[t] = mem[t]
          BY <2>1, <4>2 DEF Typed, Kept, Placed
        <5>2. UNCHANGED job
          BY <1>2 DEF Settle
        <5> QED  BY <4>1, <5>1, <5>2 DEF Asking
      <4>3. CASE t = s
        <5>1. mem'[s] = [mem[s] EXCEPT ![r] = [mem[s][r] EXCEPT !.status = outcome]]
          BY <2>1 DEF Typed, Kept, Placed
        <5>2. x # r
          BY <2>6, <4>1, <4>3
        <5>3. x \in DOMAIN mem'[s] /\ mem'[s][x] = mem[s][x]
          BY <2>2, <4>1, <4>3, <5>1, <5>2
        <5> QED  BY <1>2, <4>1, <4>3, <5>3 DEF Settle, Asking
      <4> QED  BY <4>2, <4>3
    <3> QED  BY <1>2, <3>1 DEF Settle
  <2> QED
    BY <1>2, <2>1, <2>5, <2>7 DEF Settle, Typed, Kept, Placed, Recorded
<1>3. CASE StartAttempt(s)
  <2> DEFINE r == InHand(s)
             n == attempts[r] + 1
             b == [status |-> "active", latest |-> n]
  <2>1. PICK x \in DOMAIN mem[s] : job[s].run = {x} /\ mem[s][x].latest < MaxAttempts
    BY <1>3 DEF StartAttempt, Typed, Kept, Placed, Asking
  <2>2. r = x /\ r \in Runs /\ r \in DOMAIN mem[s] /\ mem[s][r].latest < MaxAttempts
    BY <2>1, PartialIs DEF Typed, Kept, Placed, InHand
  <2>3. UNCHANGED <<trash, refs, pins, port>> /\ Ends(s)
    BY <1>3 DEF StartAttempt
  <2>4. \A t \in Seats : t # s => mem'[t] = mem[t]
    BY <1>3, <2>2 DEF StartAttempt, Typed, Kept, Placed
  <2>6. CASE /\ held' = [held EXCEPT ![r] = s]
             /\ store' = [store EXCEPT ![r] = @ \cup {Lease, Session(n)}]
             /\ status' = [status EXCEPT ![r] = "active"]
             /\ attempts' = [attempts EXCEPT ![r] = n]
             /\ mem' = [mem EXCEPT ![s][r] = b]
             /\ attempts[r] = mem[s][r].latest
    <3>1. n \in 1..MaxAttempts
      BY <2>2, <2>6, BoundAssumption DEF Typed, Kept, Placed
    <3>2. {Lease, Session(n)} \subseteq Files
      BY <3>1 DEF Files
    <3>3. b \in Beliefs
      BY <3>1, BoundAssumption DEF Beliefs, Recorded
    <3>4. mem[s] \in [DOMAIN mem[s] -> Beliefs] /\ DOMAIN mem[s] \in SUBSET Runs
      BY PartialIs DEF Typed, Kept, Placed
    <3>5. [mem[s] EXCEPT ![r] = b] \in Partial(Beliefs)
      <4> HIDE DEF b
      <4>1. [mem[s] EXCEPT ![r] = b] \in [DOMAIN mem[s] -> Beliefs]
        BY <3>3, <3>4
      <4> QED  BY <3>4, <4>1 DEF Partial
    <3>6. mem' \in [Seats -> Partial(Beliefs)]
      BY <2>6, <3>5 DEF Typed, Kept, Placed
    <3> HIDE DEF r, n, b
    <3>7. /\ store' \in [Runs -> SUBSET Files] /\ status' \in [Runs -> Recorded]
          /\ attempts' \in [Runs -> 1..MaxAttempts]
          /\ held' \in [Runs -> Seats \cup {NoSeat}]
      BY <2>6, <3>1, <3>2 DEF Typed, Kept, Placed, Recorded
    <3>kept. Kept'
      BY <2>3, <2>4, <2>6, <3>6, <3>7 DEF Typed, Kept
    <3>placed. Placed'
      <4>1. Ends(s) /\ UNCHANGED trash /\ \A t \in Seats \ {s} : mem'[t] = mem[t]
        BY <2>3, <2>4, <2>6, <3>6, <3>7 DEF Typed, Kept
      <4> QED  BY <4>1, EndsTyped
    <3> QED  BY <3>kept, <3>placed DEF Typed
  <2>7. CASE /\ store' = [store EXCEPT ![r] = @ \cup {Lease, Log}]
             /\ UNCHANGED <<held, status, attempts, mem>>
    <3>1. store' \in [Runs -> SUBSET Files]
      BY <2>7 DEF Typed, Kept, Placed, Files
    <3>kept. Kept'
      BY <2>3, <2>4, <2>7, <3>1 DEF Typed, Kept
    <3>placed. Placed'
      <4>1. Ends(s) /\ UNCHANGED trash /\ \A t \in Seats \ {s} : mem'[t] = mem[t]
        BY <2>3, <2>4, <2>7, <3>1 DEF Typed, Kept
      <4> QED  BY <4>1, EndsTyped
    <3> QED  BY <3>kept, <3>placed DEF Typed
  <2> QED
    BY <1>3, <2>6, <2>7 DEF StartAttempt
<1>4. CASE StartRefused(s)
  <2>1. Ends(s) /\ UNCHANGED <<files, held, mem>> /\ port' \in Seats \cup {NoSeat}
    BY <1>4 DEF StartRefused, Typed, Kept
  <2>kept. Kept'
    BY <2>1 DEF files, Typed, Kept
  <2>placed. Placed'
    BY <2>1, EndsTyped DEF files
  <2> QED  BY <2>kept, <2>placed DEF Typed
<1> QED
  BY <1>1, <1>2, <1>3, <1>4 DEF Attempts

(* So do pins.                                                             *)
LEMMA PinningTyped ==
  ASSUME Typed, NEW s \in Seats, Pinning(s)
  PROVE  Typed'
<1>1. PICK r \in Runs : Pin(s, r) \/ Unpin(s, r)
  BY DEF Pinning
<1>2. UNCHANGED <<store, status, attempts, trash, refs, port, held, mem, pc, job>>
  BY <1>1 DEF Pin, Unpin
<1>3. pins' \subseteq Runs
  BY <1>1 DEF Pin, Unpin, Typed, Kept, Placed
<1> QED
  BY <1>2, <1>3 DEF Typed, Kept, Placed, Asking

(* What a pruning step does to the files and to its own job.               *)
LEMMA PruneTyped ==
  ASSUME Typed, LeasedInv, NEW s \in Seats, Prune(s)
  PROVE  Typed'
<1> USE JobFields
<1> DEFINE r == InHand(s)
<1>1. CASE Describe(s)
  <2> DEFINE seen == [x \in DOMAIN mem[s] |-> [status |-> mem[s][x].status,
                                               dated |-> status[x] # "none",
                                               count |-> OnDisk(x)]]
             j == [job[s] EXCEPT !.seen = seen]
  <2>1. seen \in Partial(Sights)
    <3>1. DOMAIN mem[s] \in SUBSET Runs /\ mem[s] \in [DOMAIN mem[s] -> Beliefs]
      BY PartialIs DEF Typed, Kept, Placed
    <3>2. ASSUME NEW x \in DOMAIN mem[s]
          PROVE  [status |-> mem[s][x].status, dated |-> status[x] # "none",
                  count |-> OnDisk(x)] \in Sights
      <4>1. mem[s][x] \in Beliefs /\ OnDisk(x) \in 0..MaxAttempts
        BY <3>1, OnDiskTyped
      <4> QED  BY <4>1 DEF Sights, Beliefs
    <3> QED  BY <3>1, <3>2 DEF Partial
  <2>2. j \in Jobs /\ j.at = job[s].at
    <3> HIDE DEF seen
    <3> QED  BY <2>1 DEF Jobs
  <2>3. job' = [job EXCEPT ![s] = j] /\ pc' = [pc EXCEPT ![s] = "described"]
    BY <1>1 DEF Describe, Goes
  <2> HIDE DEF j
  <2>4. UNCHANGED <<files, port, held, mem>>
    BY <1>1 DEF Describe
  <2>5. "described" \in Labels \ {"asked"} /\ "described" \notin Handling \cup Moving
    BY DEF Labels, Handling, Moving
  <2>6. j.at <= Len(trash) + 1
    BY <2>2 DEF Typed, Kept, Placed
  <2>kept. Kept'
    BY <2>2, <2>3, <2>4, <2>5, <2>6 DEF files, Typed, Kept
  <2>placed. Placed'
    <3>1. /\ trash' \in Seq(Intents) /\ Len(trash) <= Len(trash')
          /\ \A t \in Seats \ {s} : mem'[t] = mem[t]
      BY <2>2, <2>3, <2>4, <2>5, <2>6, JobFields DEF files, Typed, Kept
    <3> QED  BY <2>2, <2>3, <2>4, <2>5, <2>6, <3>1, GoesTyped DEF files
  <2> QED  BY <2>kept, <2>placed DEF Typed
<1>2. CASE TakeLease(s)
  <2> DEFINE j == [job[s] EXCEPT !.at = 1]
  <2>1. j \in Jobs /\ j.at = 1
    BY DEF Jobs
  <2>2. job' = [job EXCEPT ![s] = j] /\ pc' = [pc EXCEPT ![s] = "recovering"]
    BY <1>2 DEF TakeLease, Goes
  <2> HIDE DEF j
  <2>3. UNCHANGED <<files, held, mem>> /\ port' = s
    BY <1>2 DEF TakeLease
  <2>4. "recovering" \in Labels \ {"asked"} /\ "recovering" \notin Handling \cup Moving
    BY DEF Labels, Handling, Moving
  <2>kept. Kept'
    BY <2>1, <2>2, <2>3, <2>4 DEF files, Typed, Kept
  <2>placed. Placed'
    <3>1. /\ trash' \in Seq(Intents) /\ Len(trash) <= Len(trash')
          /\ \A t \in Seats \ {s} : mem'[t] = mem[t]
      BY <2>1, <2>2, <2>3, <2>4, JobFields DEF files, Typed, Kept
    <3>2. j.at <= Len(trash') + 1
      BY <2>1, <2>3, JobFields DEF files
    <3> QED  BY <2>1, <2>2, <2>3, <2>4, <3>1, <3>2, GoesTyped DEF files
  <2> QED  BY <2>kept, <2>placed DEF Typed
<1>3. CASE LeaseRefused(s)
  <2>1. Ends(s) /\ UNCHANGED <<files, held, mem>> /\ port' \in Seats \cup {NoSeat}
    BY <1>3 DEF LeaseRefused, Typed, Kept
  <2>kept. Kept'
    BY <2>1 DEF files, Typed, Kept
  <2>placed. Placed'
    BY <2>1, EndsTyped DEF files
  <2> QED  BY <2>kept, <2>placed DEF Typed
<1>4. CASE NextIntent(s)
  <2> DEFINE i == job[s].at
             x == trash[i].run
  <2>1. i \in DOMAIN trash /\ i \in 1..Len(trash) /\ pc[s] = "recovering"
    BY <1>4 DEF NextIntent, Typed, Kept, Placed
  <2>2. x \in Runs /\ trash[i].paths \in SUBSET Files
    <3>1. trash[i] \in Intents
      BY <2>1 DEF Typed, Kept
    <3> QED  BY <3>1 DEF Intents
  <2>3. UNCHANGED <<status, attempts, trash, refs, pins, port, mem>>
    BY <1>4 DEF NextIntent
  <2>4. CASE job' = [job EXCEPT ![s].at = i + 1] /\ UNCHANGED <<store, held, pc>>
    <3> DEFINE j == [job[s] EXCEPT !.at = i + 1]
    <3>1. j \in Jobs /\ j.at = i + 1
      <4>1. job[s] \in Jobs /\ job[s].at + 1 \in Nat
        OBVIOUS
      <4> QED  BY <4>1 DEF Jobs
    <3>2. job' = [job EXCEPT ![s] = j] /\ pc' = [pc EXCEPT ![s] = "recovering"]
      BY <2>1, <2>4 DEF Typed, Kept, Placed
    <3> HIDE DEF j
    <3>3. "recovering" \in Labels \ {"asked"} /\ "recovering" \notin Handling \cup Moving
      BY DEF Labels, Handling, Moving
    <3>4. j.at <= Len(trash) + 1
      BY <2>1, <3>1
    <3>kept. Kept'
      BY <2>3, <2>4, <3>1, <3>2, <3>3, <3>4 DEF Typed, Kept
    <3>placed. Placed'
      <4>1. /\ trash' \in Seq(Intents) /\ Len(trash) <= Len(trash')
            /\ \A t \in Seats \ {s} : mem'[t] = mem[t]
        BY <2>3, <2>4, <3>1, <3>2, <3>3, <3>4, JobFields DEF Typed, Kept
      <4> QED  BY <2>3, <2>4, <3>1, <3>2, <3>3, <3>4, <4>1, GoesTyped
    <3> QED  BY <3>kept, <3>placed DEF Typed
  <2>5. CASE /\ held' = [held EXCEPT ![x] = s]
             /\ store' = [store EXCEPT ![x] = @ \cup {Lease}]
             /\ job' = [job EXCEPT ![s].run = {x},
                                   ![s].todo = {Ref} \cup trash[i].paths]
             /\ Goes(s, "restoring")
    <3> DEFINE j == [job[s] EXCEPT !.run = {x}, !.todo = {Ref} \cup trash[i].paths]
    <3>1. j \in Jobs /\ j.at = i /\ j.run = {x}
      BY <2>2 DEF Jobs
    <3>2. job' = [job EXCEPT ![s] = j] /\ pc' = [pc EXCEPT ![s] = "restoring"]
      BY <2>5 DEF Goes, Typed, Kept, Placed
    <3> HIDE DEF j
    <3>3. "restoring" \in Labels \ {"asked"}
      BY DEF Labels
    <3>4. j.at <= Len(trash) + 1 /\ j.at \in DOMAIN trash
      BY <2>1, <3>1
    <3>5. store' \in [Runs -> SUBSET Files] /\ held' \in [Runs -> Seats \cup {NoSeat}]
      BY <2>2, <2>5 DEF Typed, Kept, Placed, Files
    <3>kept. Kept'
      BY <2>2, <2>3, <3>1, <3>2, <3>3, <3>4, <3>5 DEF Typed, Kept
    <3>placed. Placed'
      <4>1. /\ trash' \in Seq(Intents) /\ Len(trash) <= Len(trash')
            /\ \A t \in Seats \ {s} : mem'[t] = mem[t]
        BY <2>2, <2>3, <3>1, <3>2, <3>3, <3>4, <3>5, JobFields DEF Typed, Kept
      <4> QED  BY <2>2, <2>3, <3>1, <3>2, <3>3, <3>4, <3>5, <4>1, GoesTyped
    <3> QED  BY <3>kept, <3>placed DEF Typed
  <2> QED
    BY <1>4, <2>4, <2>5 DEF NextIntent
<1>5. CASE RootMissing(s)
  <2>1. Ends(s) /\ UNCHANGED <<files, held, mem>> /\ port' \in Seats \cup {NoSeat}
    BY <1>5 DEF RootMissing, Validate, Typed, Kept
  <2>kept. Kept'
    BY <2>1 DEF files, Typed, Kept
  <2>placed. Placed'
    BY <2>1, EndsTyped DEF files
  <2> QED  BY <2>kept, <2>placed DEF Typed
<1>6. CASE Assess(s)
  <2>1. PICK chosen \in SUBSET Candidates(s) :
          job' = [job EXCEPT ![s].picks =
                    [x \in chosen |-> Linked(x, job[s].seen[x].count)]]
    BY <1>6 DEF Assess
  <2> DEFINE picks == [x \in chosen |-> Linked(x, job[s].seen[x].count)]
             j == [job[s] EXCEPT !.picks = picks]
  <2>2. picks \in Partial(SUBSET Files)
    <3>1. chosen \in SUBSET Runs
      BY PartialIs DEF Candidates
    <3>2. ASSUME NEW x \in chosen PROVE Linked(x, job[s].seen[x].count) \in SUBSET Files
      BY <3>1, <3>2 DEF Linked, Typed, Kept, Placed
    <3> QED  BY <3>1, <3>2 DEF Partial
  <2>3. j \in Jobs /\ j.at = job[s].at
    <3> HIDE DEF picks
    <3> QED  BY <2>2 DEF Jobs
  <2>4. job' = [job EXCEPT ![s] = j] /\ pc' = [pc EXCEPT ![s] = "picking"]
    BY <1>6, <2>1 DEF Assess, Goes
  <2> HIDE DEF j
  <2>5. UNCHANGED <<files, port, held, mem>>
    BY <1>6 DEF Assess
  <2>6. "picking" \in Labels \ {"asked"} /\ "picking" \notin Handling \cup Moving
    BY DEF Labels, Handling, Moving
  <2>7. j.at <= Len(trash) + 1
    BY <2>3 DEF Typed, Kept, Placed
  <2>kept. Kept'
    BY <2>3, <2>4, <2>5, <2>6, <2>7 DEF files, Typed, Kept
  <2>placed. Placed'
    <3>1. /\ trash' \in Seq(Intents) /\ Len(trash) <= Len(trash')
          /\ \A t \in Seats \ {s} : mem'[t] = mem[t]
      BY <2>3, <2>4, <2>5, <2>6, <2>7, JobFields DEF files, Typed, Kept
    <3> QED  BY <2>3, <2>4, <2>5, <2>6, <2>7, <3>1, GoesTyped DEF files
  <2> QED  BY <2>kept, <2>placed DEF Typed
<1>7. CASE TakeRun(s)
  <2>1. UNCHANGED <<status, attempts, trash, refs, pins, port, mem>>
    BY <1>7 DEF TakeRun
  <2>2. PICK x \in DOMAIN job[s].picks :
          \/ /\ held' = [held EXCEPT ![x] = s]
             /\ store' = [store EXCEPT ![x] = @ \cup {Lease}]
             /\ job' = [job EXCEPT ![s].run = {x}]
             /\ Goes(s, "leased")
          \/ /\ job' = [job EXCEPT ![s].picks = Drop(@, x)]
             /\ UNCHANGED <<store, held, pc>>
    BY <1>7 DEF TakeRun
  <2>3. x \in Runs
    BY PartialIs
  <2>4. CASE /\ held' = [held EXCEPT ![x] = s]
             /\ store' = [store EXCEPT ![x] = @ \cup {Lease}]
             /\ job' = [job EXCEPT ![s].run = {x}]
             /\ Goes(s, "leased")
    <3> DEFINE j == [job[s] EXCEPT !.run = {x}]
    <3>1. j \in Jobs /\ j.at = job[s].at /\ j.run = {x}
      BY <2>3 DEF Jobs
    <3>2. job' = [job EXCEPT ![s] = j] /\ pc' = [pc EXCEPT ![s] = "leased"]
      BY <2>4 DEF Goes
    <3> HIDE DEF j
    <3>3. "leased" \in Labels \ {"asked"} /\ "leased" \notin Moving
      BY DEF Labels, Moving
    <3>4. j.at <= Len(trash) + 1
      BY <3>1 DEF Typed, Kept, Placed
    <3>5. store' \in [Runs -> SUBSET Files] /\ held' \in [Runs -> Seats \cup {NoSeat}]
      BY <2>3, <2>4 DEF Typed, Kept, Placed, Files
    <3>kept. Kept'
      BY <2>1, <2>3, <3>1, <3>2, <3>3, <3>4, <3>5 DEF Typed, Kept
    <3>placed. Placed'
      <4>1. /\ trash' \in Seq(Intents) /\ Len(trash) <= Len(trash')
            /\ \A t \in Seats \ {s} : mem'[t] = mem[t]
        BY <2>1, <2>3, <3>1, <3>2, <3>3, <3>4, <3>5, JobFields DEF Typed, Kept
      <4> QED  BY <2>1, <2>3, <3>1, <3>2, <3>3, <3>4, <3>5, <4>1, GoesTyped
    <3> QED  BY <3>kept, <3>placed DEF Typed
  <2>5. CASE /\ job' = [job EXCEPT ![s].picks = Drop(@, x)]
             /\ UNCHANGED <<store, held, pc>>
    <3> DEFINE j == [job[s] EXCEPT !.picks = Drop(job[s].picks, x)]
    <3>1. Drop(job[s].picks, x) \in Partial(SUBSET Files)
      BY PartialFalls DEF Drop
    <3>2. j \in Jobs /\ j.at = job[s].at
      BY <3>1 DEF Jobs
    <3>3. job' = [job EXCEPT ![s] = j] /\ pc' = [pc EXCEPT ![s] = "picking"]
      BY <1>7, <2>5 DEF TakeRun, Typed, Kept, Placed
    <3> HIDE DEF j
    <3>4. "picking" \in Labels \ {"asked"} /\ "picking" \notin Handling \cup Moving
      BY DEF Labels, Handling, Moving
    <3>5. j.at <= Len(trash) + 1
      BY <3>2 DEF Typed, Kept, Placed
    <3>kept. Kept'
      BY <2>1, <2>5, <3>2, <3>3, <3>4, <3>5 DEF Typed, Kept
    <3>placed. Placed'
      <4>1. /\ trash' \in Seq(Intents) /\ Len(trash) <= Len(trash')
            /\ \A t \in Seats \ {s} : mem'[t] = mem[t]
        BY <2>1, <2>5, <3>2, <3>3, <3>4, <3>5, JobFields DEF Typed, Kept
      <4> QED  BY <2>1, <2>5, <3>2, <3>3, <3>4, <3>5, <4>1, GoesTyped
    <3> QED  BY <3>kept, <3>placed DEF Typed
  <2> QED
    BY <2>2, <2>4, <2>5
<1>8. CASE Spare(s)
  <2> DEFINE j == [job[s] EXCEPT !.picks = Drop(job[s].picks, r), !.run = {}]
  <2>1. Drop(job[s].picks, r) \in Partial(SUBSET Files)
    BY PartialFalls DEF Drop
  <2>2. j \in Jobs /\ j.at = job[s].at
    BY <2>1 DEF Jobs
  <2>3. job' = [job EXCEPT ![s] = j] /\ pc' = [pc EXCEPT ![s] = "picking"]
    BY <1>8 DEF Spare, Goes, Typed, Kept, Placed
  <2> HIDE DEF j
  <2>4. UNCHANGED <<files, port, mem>> /\ held' = [held EXCEPT ![r] = NoSeat]
    BY <1>8 DEF Spare
  <2>5. "picking" \in Labels \ {"asked"} /\ "picking" \notin Handling \cup Moving
    BY DEF Labels, Handling, Moving
  <2>6. j.at <= Len(trash) + 1
    BY <2>2 DEF Typed, Kept, Placed
  <2>7. held' \in [Runs -> Seats \cup {NoSeat}]
    BY <2>4 DEF Typed, Kept, Placed
  <2>kept. Kept'
    BY <2>2, <2>3, <2>4, <2>5, <2>6, <2>7 DEF files, Typed, Kept
  <2>placed. Placed'
    <3>1. /\ trash' \in Seq(Intents) /\ Len(trash) <= Len(trash')
          /\ \A t \in Seats \ {s} : mem'[t] = mem[t]
      BY <2>2, <2>3, <2>4, <2>5, <2>6, <2>7, JobFields DEF files, Typed, Kept
    <3> QED  BY <2>2, <2>3, <2>4, <2>5, <2>6, <2>7, <3>1, GoesTyped DEF files
  <2> QED  BY <2>kept, <2>placed DEF Typed
<1>9. CASE WriteManifest(s)
  <2> DEFINE paths == job[s].picks[r] \cup {Lease}
             intent == [run |-> r, paths |-> paths, moved |-> {}, done |-> FALSE]
             j == [job[s] EXCEPT !.picks = Drop(job[s].picks, r),
                                 !.at = Len(trash) + 1,
                                 !.todo = {Ref} \cup paths]
  <2>1. Drop(job[s].picks, r) \in Partial(SUBSET Files)
    BY PartialFalls DEF Drop
  <2>2. r \in Runs /\ job[s].run = {r}
    BY <1>9, InHandTyped DEF WriteManifest, Handling
  <2>3. paths \in SUBSET Files
    <3>1. r \in DOMAIN job[s].picks
      BY <1>9, <2>2 DEF WriteManifest, LeasedInv
    <3>2. job[s].picks[r] \in SUBSET Files
      BY <3>1, PartialIs
    <3> QED  BY <3>2 DEF Files
  <2>4. intent \in Intents
    BY <2>2, <2>3 DEF Intents
  <2>5. j \in Jobs /\ j.at = Len(trash) + 1 /\ j.run = job[s].run
    <3> HIDE DEF paths
    <3>1. Len(trash) + 1 \in Nat /\ {Ref} \cup paths \in SUBSET ({Ref} \cup Files)
      BY <2>3
    <3>2. job[s] \in Jobs
      OBVIOUS
    <3> QED  BY <2>1, <3>1, <3>2 DEF Jobs
  <2>6. job' = [job EXCEPT ![s] = j] /\ pc' = [pc EXCEPT ![s] = "pruning"]
    BY <1>9 DEF WriteManifest, Goes, Typed, Kept, Placed
  <2>7. trash' = Append(trash, intent)
    BY <1>9 DEF WriteManifest
  <2> HIDE DEF j, intent
  <2>8. /\ trash' \in Seq(Intents) /\ Len(trash') = Len(trash) + 1
        /\ DOMAIN trash' = 1..(Len(trash) + 1)
    BY <2>4, <2>7 DEF Typed, Kept, Placed
  <2>9. UNCHANGED <<store, status, attempts, refs, pins, port, held, mem>>
    BY <1>9 DEF WriteManifest
  <2>10. "pruning" \in Labels \ {"asked"}
    BY DEF Labels
  <2>11. j.at <= Len(trash') + 1 /\ j.at \in DOMAIN trash'
    BY <2>5, <2>8
  <2>kept. Kept'
    BY <2>2, <2>5, <2>6, <2>8, <2>9, <2>10, <2>11 DEF Typed, Kept
  <2>placed. Placed'
    <3>1. /\ trash' \in Seq(Intents) /\ Len(trash) <= Len(trash')
          /\ \A t \in Seats \ {s} : mem'[t] = mem[t]
      BY <2>2, <2>5, <2>6, <2>8, <2>9, <2>10, <2>11, JobFields DEF Typed, Kept
    <3> QED  BY <2>2, <2>5, <2>6, <2>8, <2>9, <2>10, <2>11, <3>1, GoesTyped
  <2> QED  BY <2>kept, <2>placed DEF Typed
<1>10. CASE DropRef(s)
  <2> DEFINE j == [job[s] EXCEPT !.todo = job[s].todo \ {Ref}]
  <2>1. j \in Jobs /\ j.at = job[s].at /\ j.run = job[s].run
    BY DEF Jobs
  <2>2. job' = [job EXCEPT ![s] = j] /\ pc' = [pc EXCEPT ![s] = pc[s]]
    BY <1>10 DEF DropRef, Typed, Kept, Placed
  <2> HIDE DEF j
  <2>3. UNCHANGED <<store, status, attempts, trash, pins, port, held, mem>>
    BY <1>10 DEF DropRef
  <2>4. /\ pc[s] \in Moving /\ pc[s] \in Labels \ {"asked"}
        /\ pc[s] \in Handling /\ pc[s] # "leased"
    BY <1>10 DEF DropRef, Labels, Handling, Moving
  <2>5. /\ j.at <= Len(trash) + 1 /\ j.at \in DOMAIN trash
        /\ \E x \in Runs : j.run = {x}
    BY <2>1, <2>4 DEF Typed, Kept, Placed
  <2>6. refs' \subseteq Runs
    BY <1>10 DEF DropRef, Typed, Kept, Placed
  <2>kept. Kept'
    BY <2>1, <2>2, <2>3, <2>4, <2>5, <2>6 DEF Typed, Kept
  <2>placed. Placed'
    <3>1. /\ trash' \in Seq(Intents) /\ Len(trash) <= Len(trash')
          /\ \A t \in Seats \ {s} : mem'[t] = mem[t]
      BY <2>1, <2>2, <2>3, <2>4, <2>5, <2>6, JobFields DEF Typed, Kept
    <3> QED  BY <2>1, <2>2, <2>3, <2>4, <2>5, <2>6, <3>1, GoesTyped
  <2> QED  BY <2>kept, <2>placed DEF Typed
<1>11. CASE Move(s) \/ Restore(s)
  <2>1. PICK p \in Files :
          /\ pc[s] \in Moving
          /\ Rename(s, p) \/ UNCHANGED <<store, status, trash>>
          /\ job' = [job EXCEPT ![s].todo = @ \ {p}]
    BY <1>11 DEF Move, Restore, Turn, Moving
  <2> DEFINE j == [job[s] EXCEPT !.todo = job[s].todo \ {p}]
  <2>2. j \in Jobs /\ j.at = job[s].at /\ j.run = job[s].run
    BY DEF Jobs
  <2>3. UNCHANGED <<attempts, refs, pins, port, held, mem, pc>>
    BY <1>11 DEF Move, Restore
  <2>4. job' = [job EXCEPT ![s] = j] /\ pc' = [pc EXCEPT ![s] = pc[s]]
    BY <2>1, <2>3 DEF Typed, Kept, Placed
  <2> HIDE DEF j
  <2>5. pc[s] \in Labels \ {"asked"} /\ pc[s] \in Handling /\ pc[s] # "leased"
    BY <2>1 DEF Labels, Handling, Moving
  <2>6. /\ store' \in [Runs -> SUBSET Files] /\ status' \in [Runs -> Recorded]
        /\ trash' \in Seq(Intents)
        /\ DOMAIN trash' = DOMAIN trash /\ Len(trash') = Len(trash)
    BY <2>1, RenameTyped
  <2>7. /\ j.at <= Len(trash') + 1 /\ j.at \in DOMAIN trash'
        /\ \E x \in Runs : j.run = {x}
    BY <2>1, <2>2, <2>5, <2>6 DEF Typed, Kept, Placed
  <2>kept. Kept'
    BY <2>2, <2>3, <2>4, <2>5, <2>6, <2>7 DEF Typed, Kept
  <2>placed. Placed'
    <3>1. /\ trash' \in Seq(Intents) /\ Len(trash) <= Len(trash')
          /\ \A t \in Seats \ {s} : mem'[t] = mem[t]
      BY <2>2, <2>3, <2>4, <2>5, <2>6, <2>7, JobFields DEF Typed, Kept
    <3> QED  BY <2>2, <2>3, <2>4, <2>5, <2>6, <2>7, <3>1, GoesTyped
  <2> QED  BY <2>kept, <2>placed DEF Typed
<1>12. CASE RestoreRefused(s) \/ Throw(s)
  <2>1. Give(s) /\ UNCHANGED <<files, mem>>
    BY <1>12 DEF RestoreRefused, Throw
  <2>2. Ends(s) /\ port' = NoSeat /\ held' = [held EXCEPT ![r] = NoSeat]
    BY <2>1 DEF Give
  <2>3. held' \in [Runs -> Seats \cup {NoSeat}]
    BY <2>2 DEF Typed, Kept, Placed
  <2>kept. Kept'
    BY <2>1, <2>2, <2>3 DEF files, Typed, Kept
  <2>placed. Placed'
    <3>1. Ends(s) /\ UNCHANGED trash /\ \A t \in Seats \ {s} : mem'[t] = mem[t]
      BY <2>1, <2>2, <2>3 DEF files, Typed, Kept
    <3> QED  BY <3>1, EndsTyped
  <2> QED  BY <2>kept, <2>placed DEF Typed
<1>13. CASE Finish(s)
  <2> DEFINE j == [job[s] EXCEPT !.run = {}, !.at = job[s].at + 1,
                                 !.gone = job[s].gone \cup {r}]
             label == IF pc[s] = "pruning" THEN "picking" ELSE "recovering"
  <2>1. pc[s] \in Moving /\ r \in Runs
    BY <1>13, InHandTyped DEF Finish, Handling, Moving
  <2>2. j \in Jobs /\ j.at = job[s].at + 1
    <3>1. /\ job[s] \in Jobs /\ job[s].at + 1 \in Nat
          /\ job[s].gone \cup {r} \in SUBSET Runs
      BY <2>1
    <3> QED  BY <3>1 DEF Jobs
  <2>3. job' = [job EXCEPT ![s] = j] /\ pc' = [pc EXCEPT ![s] = label]
    BY <1>13 DEF Finish, Goes, Typed, Kept, Placed
  <2> HIDE DEF j
  <2>4. job[s].at \in DOMAIN trash /\ job[s].at \in 1..Len(trash)
    BY <2>1 DEF Typed, Kept, Placed
  <2>5. trash' = [trash EXCEPT ![job[s].at] = [trash[job[s].at] EXCEPT !.done = TRUE]]
    BY <1>13 DEF Finish
  <2>6. trash[job[s].at] \in Intents
    BY <2>4 DEF Typed, Kept, Placed
  <2>7. [trash[job[s].at] EXCEPT !.done = TRUE] \in Intents
    BY <2>6 DEF Intents
  <2>8. trash' \in Seq(Intents) /\ Len(trash') = Len(trash)
    BY <2>4, <2>5, <2>7 DEF Typed, Kept, Placed
  <2>9. UNCHANGED <<store, status, attempts, refs, pins, port, mem>>
    BY <1>13 DEF Finish
  <2>10. held' \in [Runs -> Seats \cup {NoSeat}]
    BY <1>13 DEF Finish, Typed, Kept, Placed
  <2>11. label \in Labels \ {"asked", "leased"} /\ label \notin Handling \cup Moving
    BY DEF Labels, Handling, Moving
  <2>12. j.at <= Len(trash') + 1
    BY <2>2, <2>4, <2>8
  <2> HIDE DEF label
  <2>kept. Kept'
    BY <2>2, <2>3, <2>8, <2>9, <2>10, <2>11, <2>12 DEF Typed, Kept
  <2>placed. Placed'
    <3>1. /\ trash' \in Seq(Intents) /\ Len(trash) <= Len(trash')
          /\ \A t \in Seats \ {s} : mem'[t] = mem[t]
      BY <2>2, <2>3, <2>8, <2>9, <2>10, <2>11, <2>12, JobFields DEF Typed, Kept
    <3> QED  BY <2>2, <2>3, <2>8, <2>9, <2>10, <2>11, <2>12, <3>1, GoesTyped
  <2> QED  BY <2>kept, <2>placed DEF Typed
<1>14. CASE EndPrune(s)
  <2>1. /\ Ends(s) /\ port' = NoSeat /\ UNCHANGED <<files, held>>
        /\ mem' = [mem EXCEPT ![s] = [x \in DOMAIN mem[s] \ job[s].gone |-> mem[s][x]]]
    BY <1>14 DEF EndPrune
  <2>2. mem[s] \in Partial(Beliefs)
    BY DEF Typed, Kept, Placed
  <2>3. [x \in DOMAIN mem[s] \ job[s].gone |-> mem[s][x]] \in Partial(Beliefs)
    BY <2>2, PartialFalls
  <2>4. mem' \in [Seats -> Partial(Beliefs)] /\ \A t \in Seats \ {s} : mem'[t] = mem[t]
    BY <2>1, <2>3 DEF Typed, Kept, Placed
  <2>kept. Kept'
    BY <2>1, <2>4 DEF files, Typed, Kept
  <2>placed. Placed'
    <3>1. Ends(s) /\ UNCHANGED trash /\ \A t \in Seats \ {s} : mem'[t] = mem[t]
      BY <2>1, <2>4 DEF files, Typed, Kept
    <3> QED  BY <3>1, EndsTyped
  <2> QED  BY <2>kept, <2>placed DEF Typed
<1> QED
  BY <1>1, <1>2, <1>3, <1>4, <1>5, <1>6, <1>7, <1>8, <1>9, <1>10, <1>11, <1>12,
     <1>13, <1>14 DEF Prune

(* So does a death.                                                        *)
LEMMA CrashTyped ==
  ASSUME Typed, NEW s \in Seats, Crash(s)
  PROVE  Typed'
<1>1. /\ job' = [job EXCEPT ![s] = NoJob] /\ pc' = [pc EXCEPT ![s] = "down"]
      /\ mem' = [mem EXCEPT ![s] = <<>>] /\ UNCHANGED files
      /\ port' = IF port = s THEN NoSeat ELSE port
      /\ held' = [r \in Runs |-> IF held[r] = s THEN NoSeat ELSE held[r]]
  BY DEF Crash, Goes
<1>2. mem' \in [Seats -> Partial(Beliefs)] /\ \A t \in Seats \ {s} : mem'[t] = mem[t]
  BY <1>1, EmptyPartial DEF Typed, Kept, Placed
<1>3. NoJob.at = 0 /\ 0 <= Len(trash) + 1
  BY JobFields DEF NoJob
<1>4. "down" \in Labels \ {"asked"} /\ "down" \notin Handling \cup Moving
  BY DEF Labels, Handling, Moving
<1>5. trash' \in Seq(Intents) /\ Len(trash) <= Len(trash')
  BY <1>1, JobFields DEF Typed, Kept, Placed, files
<1>6. held' \in [Runs -> Seats \cup {NoSeat}] /\ port' \in Seats \cup {NoSeat}
  BY <1>1 DEF Typed, Kept, Placed
<1>kept. Kept'
  BY <1>1, <1>2, <1>3, <1>4, <1>5, <1>6, NoJobTyped DEF files, Typed, Kept
<1>placed. Placed'
  <2>1. /\ trash' \in Seq(Intents) /\ Len(trash) <= Len(trash')
        /\ \A t \in Seats \ {s} : mem'[t] = mem[t]
    BY <1>1, <1>2, <1>3, <1>4, <1>5, <1>6, NoJobTyped, JobFields DEF files, Typed, Kept
  <2> QED  BY <1>1, <1>2, <1>3, <1>4, <1>5, <1>6, NoJobTyped, <2>1, GoesTyped DEF files
<1> QED  BY <1>kept, <1>placed DEF Typed

(* So does a seat that opens the store.                                    *)
LEMMA OpenTyped ==
  ASSUME Typed, NEW s \in Seats, Open(s)
  PROVE  Typed'
<1> DEFINE known == {r \in Runs : Record \in store[r] /\ held[r] = NoSeat}
<1>1. /\ pc' = [pc EXCEPT ![s] = "idle"]
      /\ store' = [r \in Runs |-> IF r \in known THEN store[r] \cup {Lease, Log}
                                                 ELSE store[r]]
      /\ status' = [r \in Runs |->
                      IF r \in known /\ status[r] \in {"active", "none"}
                      THEN "cleanup-blocked" ELSE status[r]]
      /\ mem' = [mem EXCEPT ![s] =
                   [r \in known |-> [status |-> status'[r], latest |-> OnDisk(r)]]]
      /\ UNCHANGED <<attempts, trash, refs, pins, port, held, job>>
  BY DEF Open, Goes
<1>2. store' \in [Runs -> SUBSET Files] /\ status' \in [Runs -> Recorded]
  BY <1>1 DEF Typed, Kept, Placed, Files, Recorded, Outcomes
<1>3. [r \in known |-> [status |-> status'[r], latest |-> OnDisk(r)]] \in Partial(Beliefs)
  <2>1. ASSUME NEW r \in known
        PROVE  [status |-> status'[r], latest |-> OnDisk(r)] \in Beliefs
    BY <1>2, OnDiskTyped DEF Beliefs
  <2>2. known \in SUBSET Runs
    OBVIOUS
  <2> HIDE DEF known
  <2> QED  BY <2>1, <2>2 DEF Partial
<1>4. mem' \in [Seats -> Partial(Beliefs)] /\ \A t \in Seats \ {s} : mem'[t] = mem[t]
  BY <1>1, <1>3 DEF Typed, Kept, Placed
<1>5. "idle" \in Labels \ {"asked"} /\ "idle" \notin Handling \cup Moving
  BY DEF Labels, Handling, Moving
<1>6. job' = [job EXCEPT ![s] = job[s]] /\ job[s].at <= Len(trash) + 1 /\ job[s] \in Jobs
  BY <1>1 DEF Typed, Kept, Placed
<1>7. trash' \in Seq(Intents) /\ Len(trash) <= Len(trash')
  BY <1>1, JobFields DEF Typed, Kept, Placed
<1>kept. Kept'
  BY <1>1, <1>2, <1>4, <1>5, <1>6, <1>7 DEF Typed, Kept
<1>placed. Placed'
  <2>1. /\ trash' \in Seq(Intents) /\ Len(trash) <= Len(trash')
        /\ \A t \in Seats \ {s} : mem'[t] = mem[t]
    BY <1>1, <1>2, <1>4, <1>5, <1>6, <1>7, JobFields DEF Typed, Kept
  <2> QED  BY <1>1, <1>2, <1>4, <1>5, <1>6, <1>7, <2>1, GoesTyped
<1> QED  BY <1>kept, <1>placed DEF Typed

(* So does every step.                                                     *)
LEMMA NextTyped == Typed /\ IInv /\ [Next]_vars => Typed'
<1> SUFFICES ASSUME Typed, LeasedInv, [Next]_vars PROVE Typed'
  BY DEF IInv
<1>1. CASE UNCHANGED vars
  BY <1>1 DEF vars, files, Typed, Kept, Placed, Asking
<1>2. CASE Next
  BY <1>2, AttemptsTyped, PinningTyped, PruneTyped, CrashTyped, OpenTyped DEF Next
<1> QED  BY <1>1, <1>2

(* Every variable keeps its type, for any seats, runs and bounds.          *)
THEOREM RetentionTyped == Spec => []TypeOK
<1>1. Spec => []Typed
  BY InitTyped, NextTyped, Inductive, PTL DEF Spec
<1> QED
  BY <1>1, TypedOK, PTL

-----------------------------------------------------------------------------
(* Runs whose journal was moved, or was made again after that: no attempt  *)
(* follows one, and none of their files is anybody's.                      *)
Lost == {"none", "cleanup-blocked"}
Busy == {"leased"} \cup Moving

(* A seat that executes an attempt has the lease of the run.               *)
LeaseInv ==
  \A s \in Seats, r \in Runs : Running(s, r) => held[r] = s /\ status[r] = "active"

(* A run that is not lost has its whole graph, and one without a journal   *)
(* proves nothing.                                                         *)
WholeInv ==
  \A r \in Runs :
    /\ status[r] \notin Lost => Graph(attempts[r]) \subseteq store[r]
    /\ Log \notin store[r] => status[r] = "none"

(* A manifest lists the journal of a run that is not lost.                 *)
ListedInv ==
  \A i \in DOMAIN trash : Log \in trash[i].paths \/ status[trash[i].run] \in Lost

(* The run a seat prunes is leased to it and not executed by anybody.      *)
Hands(s) ==
  pc[s] \in Busy => \A r \in job[s].run : held[r] = s /\ \A t \in Seats : ~Running(t, r)

(* What was picked is still there.                                         *)
Chosen(s) ==
  /\ pc[s] \in {"picking", "leased", "pruning"} =>
       \A r \in DOMAIN job[s].picks :
         /\ job[s].picks[r] \subseteq store[r]
         /\ Record \in job[s].picks[r]
         /\ Log \in job[s].picks[r] \/ status[r] \in Lost
         /\ pc[s] = "pruning" => r \notin job[s].run
  /\ pc[s] = "leased" => \A r \in job[s].run : Lease \in store[r]

(* What a manifest lists is in the trash or yet to be moved, the journal   *)
(* before anything else.                                                   *)
Carries(s) ==
  pc[s] \in Moving =>
    LET m == trash[job[s].at]
    IN  /\ job[s].run = {m.run}
        /\ m.paths \ m.moved \subseteq job[s].todo
        /\ Log \in job[s].todo \/ status[m.run] \in Lost
        /\ pc[s] = "pruning" => job[s].todo \ {Ref} \subseteq store[m.run] \ m.moved

Works(s) == Hands(s) /\ Chosen(s) /\ Carries(s)
Lists == ListedInv /\ CommitLast
Inv == LeaseInv /\ WholeInv /\ Lists /\ \A s \in Seats : Works(s)

(* It holds at the start.                                                  *)
LEMMA InitInv == Init => Inv
<1> SUFFICES ASSUME Init PROVE Inv
  OBVIOUS
<1>1. \A s \in Seats, r \in Runs : ~Running(s, r)
  BY DEF Init, Running, Ordinary, Outcomes
<1>2. \A r \in Runs : Log \in store[r] /\ Graph(attempts[r]) \subseteq store[r]
  BY DEF Init, Graph
<1>3. DOMAIN trash = {} /\ \A s \in Seats : pc[s] = "idle"
  BY DEF Init
<1> QED
  BY <1>1, <1>2, <1>3
  DEF Inv, LeaseInv, WholeInv, Lists, ListedInv, CommitLast, Works, Hands, Chosen,
      Carries, Busy, Moving

(* A seat that does not prune owes nothing.                                *)
LEMMA Elsewhere ==
  ASSUME NEW s \in Seats, pc[s] \notin Busy \cup {"picking"}
  PROVE  Works(s)
  BY DEF Works, Hands, Chosen, Carries, Busy, Moving

(* What the others do does not disturb a seat: files are added to a store, *)
(* a lost run stays lost, a lease is given back by its holder.  Only the   *)
(* seat with the retention lease removes a file or changes a manifest.     *)
LEMMA OthersWork ==
  ASSUME Typed, PortInv, NEW t \in Seats, Works(t),
         pc'[t] = pc[t], job'[t] = job[t],
         \A r \in Runs : held[r] = t => held'[r] = t,
         \A u \in Seats, r \in Runs : Running(u, r)' => Running(u, r) \/ held[r] = NoSeat,
         \/ port # t
         \/ /\ \A r \in Runs : store[r] \subseteq store'[r]
            /\ \A r \in Runs : status[r] \in Lost => status'[r] \in Lost
            /\ \A i \in DOMAIN trash : trash'[i] = trash[i]
  PROVE  Works(t)'
<1>1. job[t].run \in SUBSET Runs /\ DOMAIN job[t].picks \in SUBSET Runs
  BY JobFields, PartialIs
<1>2. ASSUME pc[t] \in Busy, NEW r \in job[t].run
      PROVE  held'[r] = t /\ \A u \in Seats : ~Running(u, r)'
  BY <1>1, <1>2, SeatAssumption DEF Works, Hands
<1>3. Hands(t)'
  BY <1>2 DEF Hands
<1>4. CASE port # t
  <2>1. pc[t] \notin Busy \cup {"picking"}
    BY <1>4 DEF PortInv, Pruning, Busy, Moving
  <2>2. pc'[t] \notin Busy \cup {"picking"}
    BY <2>1
  <2> QED  BY <2>2 DEF Works, Hands, Chosen, Carries, Busy, Moving
<1>5. CASE /\ \A r \in Runs : store[r] \subseteq store'[r]
           /\ \A r \in Runs : status[r] \in Lost => status'[r] \in Lost
           /\ \A i \in DOMAIN trash : trash'[i] = trash[i]
  <2>1. Chosen(t)'
    <3>1. Chosen(t)
      BY DEF Works
    <3> QED  BY <1>1, <1>5, <3>1 DEF Chosen
  <2>2. Carries(t)'
    <3>1. SUFFICES ASSUME pc[t] \in Moving PROVE Carries(t)'
      BY DEF Carries
    <3>2. job[t].at \in DOMAIN trash /\ trash[job[t].at].run \in Runs
      <4>1. job[t].at \in DOMAIN trash /\ trash[job[t].at] \in Intents
        BY <3>1 DEF Typed, Kept, Placed
      <4> QED  BY <4>1 DEF Intents
    <3>3. trash'[job[t].at] = trash[job[t].at] /\ Carries(t)
      BY <1>5, <3>2 DEF Works
    <3> QED  BY <1>5, <3>1, <3>2, <3>3 DEF Carries
  <2> QED  BY <1>3, <2>1, <2>2 DEF Works
<1> QED  BY <1>4, <1>5

(* The order of the moves: the journal is the first file, the record last. *)
LEMMA Order ==
  ASSUME NEW label, NEW q \in {Ref} \cup Files
  PROVE  /\ Place(q, label) \in Nat
         /\ q # Record => Place(q, label) < Place(Record, label)
         /\ q \in Files \ {Log} => Place(Log, label) < Place(q, label)
<1>1. /\ Place(Record, label) = Last /\ Last \in Nat /\ Last > MaxAttempts + 4
      /\ Place(Log, label) = 1 /\ Place(Ref, label) = 0 /\ Place(Tries, label) = 2
      /\ Place(Lease, label) \in {3, Last - 1}
  BY BoundAssumption DEF Place, Last, Record, Log, Ref, Tries, Lease
<1>2. CASE q \in {Ref, Log, Tries, Lease, Record}
  <2>1. Ref \notin Files
    BY DEF Files, Ref, Log, Tries, Lease, Record, Session
  <2> QED  BY <1>1, <1>2, <2>1, BoundAssumption
<1>3. ASSUME NEW n \in 1..MaxAttempts, q = Session(n)
      PROVE  Place(q, label) = 3 + n
  BY <1>3 DEF Place, Record, Log, Ref, Tries, Lease, Session
<1>4. CASE \E n \in 1..MaxAttempts : q = Session(n)
  BY <1>1, <1>3, <1>4, BoundAssumption
<1> QED
  BY <1>2, <1>4 DEF Files

(* The record moves when nothing else is left, any other file after the    *)
(* journal.                                                                *)
LEMMA InTurn ==
  ASSUME Typed, NEW s \in Seats, NEW label, NEW p \in Files, Turn(s, label, p)
  PROVE  /\ p = Record => job[s].todo = {Record}
         /\ p # Log => Log \notin job[s].todo
<1>1. job[s].todo \in SUBSET ({Ref} \cup Files)
  BY JobFields
<1>2. /\ p \in job[s].todo
      /\ \A q \in job[s].todo \ {p} : Place(p, label) < Place(q, label)
  BY DEF Turn
<1>3. ASSUME p = Record, NEW q \in job[s].todo PROVE q = Record
  <2>1. q # Record => Place(q, label) < Place(Record, label)
    BY <1>1, Order
  <2>2. Place(q, label) \in Nat /\ Place(Record, label) \in Nat
    BY <1>1, <1>3, Order
  <2> QED  BY <1>2, <1>3, <2>1, <2>2
<1>4. ASSUME p # Log, Log \in job[s].todo PROVE FALSE
  <2>1. Place(Log, label) < Place(p, label)
    BY <1>4, Order
  <2>2. Place(p, label) \in Nat /\ Place(Log, label) \in Nat
    BY <1>1, <1>4, Order
  <2> QED  BY <1>2, <1>4, <2>1, <2>2
<1> QED  BY <1>2, <1>3, <1>4

(* The fields of a manifest.                                               *)
LEMMA IntentFields ==
  ASSUME Typed, NEW i \in DOMAIN trash
  PROVE  /\ trash[i] \in Intents
         /\ trash[i].run \in Runs
         /\ trash[i].paths \in SUBSET Files
         /\ trash[i].moved \in SUBSET Files
         /\ i \in 1..Len(trash)
<1>1. trash[i] \in Intents /\ i \in 1..Len(trash)
  BY DEF Typed, Kept
<1> QED  BY <1>1 DEF Intents

(* Giving back the lease of the run in hand takes it from nobody else.     *)
LEMMA GivesBack ==
  ASSUME Typed, Inv, NEW s \in Seats, pc[s] \in Busy,
         held' = [held EXCEPT ![InHand(s)] = NoSeat]
  PROVE  /\ InHand(s) \in Runs
         /\ held[InHand(s)] = s
         /\ \A t \in Seats : ~Running(t, InHand(s))
         /\ \A r \in Runs : r # InHand(s) => held'[r] = held[r]
         /\ \A t \in Seats \ {s}, r \in Runs : held[r] = t => held'[r] = t
<1>1. InHand(s) \in Runs /\ job[s].run = {InHand(s)}
  BY InHandTyped DEF Busy, Handling
<1>2. Hands(s)
  BY DEF Inv, Works
<1>3. held[InHand(s)] = s /\ \A t \in Seats : ~Running(t, InHand(s))
  BY <1>1, <1>2 DEF Hands
<1>4. \A r \in Runs : r # InHand(s) => held'[r] = held[r]
  BY DEF Typed, Kept
<1> QED  BY <1>1, <1>3, <1>4

(* A step that touches no file, and leaves its seat with nothing to prune. *)
LEMMA QuietStep ==
  ASSUME Typed, Inv, PortInv, NEW s \in Seats,
         UNCHANGED <<store, status, attempts, trash>>,
         \/ UNCHANGED held
         \/ pc[s] \in Busy /\ held' = [held EXCEPT ![InHand(s)] = NoSeat],
         \A u \in Seats, r \in Runs : Running(u, r)' => Running(u, r),
         \A t \in Seats \ {s} : pc'[t] = pc[t] /\ job'[t] = job[t],
         pc'[s] \notin Busy \cup {"picking"}
  PROVE  Inv'
<1>1. LeaseInv'
  <2>1. ASSUME NEW u \in Seats, NEW r \in Runs, Running(u, r)
        PROVE  held'[r] = u /\ status'[r] = "active"
    <3>1. held[r] = u /\ status[r] = "active"
      BY <2>1 DEF Inv, LeaseInv
    <3> QED  BY <2>1, <3>1, GivesBack
  <2> QED  BY <2>1 DEF LeaseInv
<1>2. WholeInv' /\ Lists'
  BY DEF Inv, WholeInv, Lists, ListedInv, CommitLast
<1>3. ASSUME NEW t \in Seats \ {s} PROVE Works(t)'
  <2>1. \A r \in Runs : held[r] = t => held'[r] = t
    BY GivesBack
  <2> QED  BY <2>1, OthersWork DEF Inv
<1>4. Works(s)'
  BY DEF Works, Hands, Chosen, Carries, Busy, Moving
<1> QED
  BY <1>1, <1>2, <1>3, <1>4 DEF Inv

(* Steps that leave every seat's job alone.                                *)
LEMMA PinningInv ==
  ASSUME Inv, NEW s \in Seats, Pinning(s)
  PROVE  Inv'
<1>1. UNCHANGED <<store, status, attempts, trash, held, mem, pc, job>>
  BY DEF Pinning, Pin, Unpin
<1> QED
  BY <1>1 DEF Inv, LeaseInv, WholeInv, Lists, ListedInv, CommitLast, Works, Hands,
     Chosen, Carries, Running

(* Such are the checks, refusals and ends of operations.                   *)
LEMMA QuietInv ==
  ASSUME Typed, Inv, PortInv, NEW s \in Seats,
         \/ \E r \in Runs : Ask(s, r)
         \/ StartRefused(s)
         \/ Describe(s)
         \/ TakeLease(s)
         \/ LeaseRefused(s)
         \/ RootMissing(s)
         \/ RestoreRefused(s)
         \/ Throw(s)
         \/ EndPrune(s)
  PROVE  Inv'
<1>1. UNCHANGED <<store, status, attempts, trash>>
  BY DEF Ask, StartRefused, Describe, TakeLease, LeaseRefused, RootMissing,
     RestoreRefused, Throw, EndPrune, files
<1>2. \A t \in Seats \ {s} : pc'[t] = pc[t] /\ job'[t] = job[t]
  BY DEF Typed, Placed, Ask, StartRefused, Describe, TakeLease, LeaseRefused, RootMissing,
     RestoreRefused, Throw, EndPrune, Give, Ends, Goes
<1>3. pc'[s] \notin Busy \cup {"picking"}
  BY DEF Typed, Placed, Ask, StartRefused, Describe, TakeLease, LeaseRefused, RootMissing,
     RestoreRefused, Throw, EndPrune, Give, Ends, Goes, Busy, Moving
<1>4. \/ UNCHANGED held
      \/ pc[s] \in Busy /\ held' = [held EXCEPT ![InHand(s)] = NoSeat]
  BY DEF Ask, StartRefused, Describe, TakeLease, LeaseRefused, RootMissing,
     RestoreRefused, Refuses, Turn, Throw, EndPrune, Give, Busy, Moving
<1>5. \A u \in Seats, r \in Runs : Running(u, r)' => Running(u, r)
  <2>1. CASE EndPrune(s)
    <3>1. mem' = [mem EXCEPT ![s] = [r \in DOMAIN mem[s] \ job[s].gone |-> mem[s][r]]]
      BY <2>1 DEF EndPrune
    <3>2. \A u \in Seats \ {s} : mem'[u] = mem[u]
      BY <3>1 DEF Typed, Kept
    <3>3. mem'[s] = [r \in DOMAIN mem[s] \ job[s].gone |-> mem[s][r]]
      BY <3>1 DEF Typed, Kept
    <3> QED  BY <3>2, <3>3 DEF Running
  <2>2. CASE ~EndPrune(s)
    <3>1. UNCHANGED mem
      BY <2>2 DEF Ask, StartRefused, Describe, TakeLease, LeaseRefused, RootMissing,
         RestoreRefused, Throw
    <3> QED  BY <3>1 DEF Running
  <2> QED  BY <2>1, <2>2
<1> QED
  BY <1>1, <1>2, <1>3, <1>4, <1>5, QuietStep

(* An attempt settles: its run was not lost and is not lost now.           *)
LEMMA SettleInv ==
  ASSUME Typed, Inv, PortInv, NEW s \in Seats, NEW x \in Runs, Settle(s, x)
  PROVE  Inv'
<1>1. PICK outcome \in Outcomes :
        /\ status' = [status EXCEPT ![x] = outcome]
        /\ mem' = [mem EXCEPT ![s][x].status = outcome]
        /\ held' = IF outcome = "cleanup-blocked" THEN held
                                                  ELSE [held EXCEPT ![x] = NoSeat]
  BY DEF Settle
<1>2. UNCHANGED <<store, attempts, trash, refs, pins, port, pc, job>>
  BY DEF Settle
<1>3. Running(s, x)
  BY DEF Settle, Running
<1>4. held[x] = s /\ status[x] = "active"
  BY <1>3 DEF Inv, LeaseInv
<1>5. /\ \A r \in Runs \ {x} : held'[r] = held[r] /\ status'[r] = status[r]
      /\ status'[x] = outcome
  BY <1>1 DEF Typed, Kept
<1>6. \A u \in Seats, r \in Runs : Running(u, r)' => Running(u, r) /\ r # x
  <2> SUFFICES ASSUME NEW u \in Seats, NEW r \in Runs, Running(u, r)'
               PROVE  Running(u, r) /\ r # x
    OBVIOUS
  <2>1. mem = [t \in Seats |-> mem[t]] /\ mem[s] \in [DOMAIN mem[s] -> Beliefs]
    BY PartialIs DEF Typed, Kept
  <2>2. mem'[s] = [mem[s] EXCEPT ![x] = [mem[s][x] EXCEPT !.status = outcome]]
    BY <1>1, <2>1
  <2>3. u # s => mem'[u] = mem[u]
    BY <1>1, <2>1
  <2>4. mem[s][x] \in Beliefs /\ x \in DOMAIN mem[s]
    BY <1>3, <2>1 DEF Running
  <2>5. ~Running(s, x)'
    <3>1. mem'[s][x].status = outcome
      BY <2>1, <2>2, <2>4 DEF Beliefs
    <3> QED  BY <3>1 DEF Running, Outcomes
  <2>6. CASE u = s
    <3>1. r # x
      BY <2>5, <2>6
    <3>2. r \in DOMAIN mem[s] /\ mem'[s][r] = mem[s][r]
      BY <2>1, <2>2, <2>6, <3>1 DEF Running
    <3> QED  BY <2>6, <3>1, <3>2 DEF Running
  <2>7. CASE u # s
    <3>1. Running(u, r)
      BY <2>3, <2>7 DEF Running
    <3>2. r # x
      BY <1>4, <2>7, <3>1 DEF Inv, LeaseInv
    <3> QED  BY <3>1, <3>2
  <2> QED  BY <2>6, <2>7
<1>7. LeaseInv'
  BY <1>5, <1>6 DEF Inv, LeaseInv
<1>8. WholeInv'
  BY <1>2, <1>4, <1>5 DEF Inv, WholeInv, Lost
<1>9. Lists'
  <2>1. ListedInv'
    <3> SUFFICES ASSUME NEW i \in DOMAIN trash
                 PROVE  Log \in trash[i].paths \/ status'[trash[i].run] \in Lost
      BY <1>2 DEF ListedInv
    <3>1. trash[i].run \in Runs
      BY IntentFields
    <3> QED  BY <1>4, <1>5, <3>1 DEF Inv, Lists, ListedInv, Lost
  <2> QED  BY <1>2, <2>1 DEF Inv, Lists, CommitLast
<1>10. ASSUME NEW t \in Seats PROVE Works(t)'
  <2>1. pc[t] \in Busy => x \notin job[t].run
    BY <1>3 DEF Inv, Works, Hands
  <2>2. Hands(t)'
    <3>1. Hands(t) /\ job[t].run \in SUBSET Runs
      BY JobFields DEF Inv, Works
    <3> QED  BY <1>2, <1>5, <1>6, <2>1, <3>1 DEF Hands
  <2>3. \A r \in Runs : status[r] \in Lost => status'[r] \in Lost
    BY <1>4, <1>5 DEF Lost
  <2>4. Chosen(t)'
    <3>1. Chosen(t) /\ DOMAIN job[t].picks \in SUBSET Runs
      BY JobFields, PartialIs DEF Inv, Works
    <3> QED  BY <1>2, <2>3, <3>1 DEF Chosen
  <2>5. Carries(t)'
    <3> SUFFICES ASSUME pc[t] \in Moving PROVE Carries(t)'
      BY <1>2 DEF Carries
    <3>1. Carries(t) /\ job[t].at \in DOMAIN trash
      BY DEF Inv, Works, Typed, Placed
    <3>2. trash[job[t].at].run \in Runs
      BY <3>1, IntentFields
    <3> QED  BY <1>2, <2>3, <3>1, <3>2 DEF Carries
  <2> QED  BY <2>2, <2>4, <2>5 DEF Works
<1> QED
  BY <1>7, <1>8, <1>9, <1>10 DEF Inv

(* An attempt starts: its run is not lost, hence whole.                    *)
LEMMA StartInv ==
  ASSUME Typed, Inv, PortInv, NEW s \in Seats, StartAttempt(s)
  PROVE  Inv'
<1> DEFINE x == InHand(s)
           n == attempts[x] + 1
           b == [status |-> "active", latest |-> n]
<1>1. UNCHANGED <<trash, port>> /\ pc[s] = "asked" /\ held[x] = NoSeat
  BY DEF StartAttempt
<1>2. /\ pc'[s] = "idle"
      /\ \A t \in Seats \ {s} : pc'[t] = pc[t] /\ job'[t] = job[t]
  BY DEF StartAttempt, Ends, Goes, Typed, Placed
<1>3. x \in Runs /\ x \in DOMAIN mem[s] /\ mem[s][x].status \in {"failed", "interrupted"}
  <2>1. PICK y \in DOMAIN mem[s] :
          job[s].run = {y} /\ mem[s][y].status \in {"failed", "interrupted"}
    BY <1>1 DEF Typed, Placed, Asking
  <2>2. x = y /\ y \in Runs
    BY <2>1, PartialIs DEF InHand, Typed, Kept
  <2> QED  BY <2>1, <2>2
<1>4. Works(s)'
  BY <1>2, Elsewhere DEF Works, Hands, Chosen, Carries, Busy, Moving
<1>5. \A t \in Seats : ~Running(t, x)
  BY <1>1, <1>3, SeatAssumption DEF Inv, LeaseInv
<1>6. CASE /\ held' = [held EXCEPT ![x] = s]
           /\ store' = [store EXCEPT ![x] = @ \cup {Lease, Session(n)}]
           /\ status' = [status EXCEPT ![x] = "active"]
           /\ attempts' = [attempts EXCEPT ![x] = n]
           /\ mem' = [mem EXCEPT ![s][x] = b]
           /\ status[x] = mem[s][x].status
           /\ attempts[x] = mem[s][x].latest
  <2>1. /\ \A r \in Runs \ {x} : /\ held'[r] = held[r] /\ store'[r] = store[r]
                                 /\ status'[r] = status[r] /\ attempts'[r] = attempts[r]
        /\ held'[x] = s /\ status'[x] = "active" /\ attempts'[x] = n
        /\ store'[x] = store[x] \cup {Lease, Session(n)}
    BY <1>3, <1>6 DEF Typed, Kept
  <2>2. status[x] \notin Lost
    BY <1>3, <1>6 DEF Lost
  <2>3. \A u \in Seats, r \in Runs : Running(u, r)' => Running(u, r) \/ (u = s /\ r = x)
    <3> SUFFICES ASSUME NEW u \in Seats, NEW r \in Runs, Running(u, r)'
                 PROVE  Running(u, r) \/ (u = s /\ r = x)
      OBVIOUS
    <3>1. mem = [t \in Seats |-> mem[t]] /\ mem[s] = [y \in DOMAIN mem[s] |-> mem[s][y]]
      BY PartialIs DEF Typed, Kept
    <3> HIDE DEF b, x
    <3>2. mem'[s] = [mem[s] EXCEPT ![x] = b]
      BY <1>6, <3>1
    <3>3. u # s => mem'[u] = mem[u]
      BY <1>6, <3>1
    <3>4. u # s => Running(u, r)
      BY <3>3 DEF Running
    <3>5. ASSUME u = s, r # x PROVE Running(u, r)
      <4>1. r \in DOMAIN mem[s] /\ mem'[s][r] = mem[s][r]
        BY <3>1, <3>2, <3>5 DEF Running
      <4> QED  BY <3>5, <4>1 DEF Running
    <3> QED  BY <3>4, <3>5
  <2>4. LeaseInv'
    <3> HIDE DEF x
    <3>1. ASSUME NEW u \in Seats, NEW r \in Runs, Running(u, r)'
          PROVE  held'[r] = u /\ status'[r] = "active"
      BY <1>5, <2>1, <2>3, <3>1 DEF Inv, LeaseInv
    <3> QED  BY <3>1 DEF LeaseInv
  <2>5. WholeInv'
    <3>1. Graph(n) = Graph(attempts[x]) \cup {Session(n)}
      <4>1. attempts[x] \in Nat /\ 1..n = 1..attempts[x] \cup {n}
        BY <1>3 DEF Typed, Kept
      <4> QED  BY <4>1 DEF Graph
    <3>2. Graph(n) \subseteq store'[x]
      BY <1>3, <2>1, <2>2, <3>1 DEF Inv, WholeInv
    <3>3. Log \in store'[x]
      BY <3>2 DEF Graph
    <3> HIDE DEF x, n
    <3> QED  BY <2>1, <3>2, <3>3 DEF Inv, WholeInv
  <2>6. \A r \in Runs : status[r] \in Lost => status'[r] \in Lost
    BY <2>1, <2>2
  <2>7. Lists'
    <3>1. ASSUME NEW i \in DOMAIN trash
          PROVE  Log \in trash[i].paths \/ status'[trash[i].run] \in Lost
      BY <2>6, IntentFields DEF Inv, Lists, ListedInv
    <3> QED  BY <1>1, <3>1 DEF Inv, Lists, ListedInv, CommitLast
  <2>8. ASSUME NEW t \in Seats \ {s} PROVE Works(t)'
    <3>1. \A r \in Runs : held[r] = t => held'[r] = t
      BY <1>1, <2>1, SeatAssumption
    <3>2. \A u \in Seats, r \in Runs : Running(u, r)' => Running(u, r) \/ held[r] = NoSeat
      BY <1>1, <2>3
    <3>3. \A r \in Runs : store[r] \subseteq store'[r]
      BY <2>1
    <3>4. \A i \in DOMAIN trash : trash'[i] = trash[i]
      BY <1>1
    <3> QED  BY <1>2, <2>6, <3>1, <3>2, <3>3, <3>4, OthersWork DEF Inv
  <2> QED  BY <1>4, <2>4, <2>5, <2>7, <2>8 DEF Inv
<1>7. CASE /\ store' = [store EXCEPT ![x] = @ \cup {Lease, Log}]
           /\ UNCHANGED <<held, status, attempts, mem>>
  <2>1. \A r \in Runs : store[r] \subseteq store'[r]
    BY <1>7 DEF Typed, Kept
  <2>2. LeaseInv' /\ WholeInv' /\ Lists'
    BY <1>1, <1>7, <2>1
    DEF Inv, LeaseInv, WholeInv, Lists, ListedInv, CommitLast, Running
  <2>3. ASSUME NEW t \in Seats \ {s} PROVE Works(t)'
    <3>1. \A u \in Seats, r \in Runs : Running(u, r)' => Running(u, r)
      BY <1>7 DEF Running
    <3>2. \A i \in DOMAIN trash : trash'[i] = trash[i]
      BY <1>1
    <3> QED  BY <1>2, <1>7, <2>1, <3>1, <3>2, OthersWork DEF Inv
  <2> QED  BY <1>4, <2>2, <2>3 DEF Inv
<1> QED
  BY <1>6, <1>7 DEF StartAttempt

(* Recovery turns to the next manifest.                                    *)
LEMMA IntentInv ==
  ASSUME Typed, Inv, PortInv, NEW s \in Seats, NextIntent(s)
  PROVE  Inv'
<1> DEFINE i == job[s].at
           x == trash[i].run
<1>1. /\ i \in DOMAIN trash /\ pc[s] = "recovering"
      /\ UNCHANGED <<status, attempts, trash, refs, pins, port, mem>>
  BY DEF NextIntent
<1>2. x \in Runs
  BY <1>1, IntentFields
<1>3. \A u \in Seats, r \in Runs : Running(u, r)' <=> Running(u, r)
  BY <1>1 DEF Running
<1>4. CASE job' = [job EXCEPT ![s].at = i + 1] /\ UNCHANGED <<store, held, pc>>
  <2>1. \A t \in Seats \ {s} : pc'[t] = pc[t] /\ job'[t] = job[t]
    BY <1>4 DEF Typed, Placed
  <2>2. pc'[s] \notin Busy \cup {"picking"}
    BY <1>1, <1>4 DEF Busy, Moving
  <2> QED  BY <1>1, <1>3, <1>4, <2>1, <2>2, QuietStep
<1>5. CASE /\ held[x] = NoSeat
           /\ held' = [held EXCEPT ![x] = s]
           /\ store' = [store EXCEPT ![x] = @ \cup {Lease}]
           /\ job' = [job EXCEPT ![s].run = {x},
                                 ![s].todo = {Ref} \cup trash[i].paths]
           /\ Goes(s, "restoring")
  <2>1. /\ \A t \in Seats \ {s} : pc'[t] = pc[t] /\ job'[t] = job[t]
        /\ pc'[s] = "restoring"
    BY <1>5 DEF Goes, Typed, Placed
  <2>2. job'[s].run = {x} /\ job'[s].at = i /\ job'[s].todo = {Ref} \cup trash[i].paths
    <3>1. job[s] \in Jobs /\ job = [t \in Seats |-> job[t]]
      BY DEF Typed, Placed
    <3> QED  BY <1>5, <3>1 DEF Jobs
  <2>3. /\ \A r \in Runs : store[r] \subseteq store'[r]
        /\ \A r \in Runs \ {x} : held'[r] = held[r]
        /\ held'[x] = s
    BY <1>2, <1>5 DEF Typed, Kept
  <2>4. LeaseInv'
    <3>1. ASSUME NEW u \in Seats, NEW r \in Runs, Running(u, r)
          PROVE  held'[r] = u /\ status[r] = "active"
      BY <1>5, <2>3, <3>1, SeatAssumption DEF Inv, LeaseInv
    <3> QED  BY <1>1, <1>3, <3>1 DEF LeaseInv
  <2>5. WholeInv' /\ Lists'
    BY <1>1, <2>3 DEF Inv, WholeInv, Lists, ListedInv, CommitLast
  <2>6. ASSUME NEW t \in Seats \ {s} PROVE Works(t)'
    <3>1. \A r \in Runs : held[r] = t => held'[r] = t
      BY <1>5, <2>3, SeatAssumption
    <3> QED  BY <1>1, <1>3, <2>1, <2>3, <3>1, OthersWork DEF Inv
  <2>7. Works(s)'
    <3>1. Hands(s)'
      <4>1. \A t \in Seats : ~Running(t, x)
        BY <1>2, <1>5, SeatAssumption DEF Inv, LeaseInv
      <4> HIDE DEF x
      <4> QED  BY <1>2, <1>3, <2>2, <2>3, <4>1 DEF Hands
    <3>2. Carries(s)'
      BY <1>1, <2>1, <2>2 DEF Carries, Inv, Lists, ListedInv
    <3>3. Chosen(s)'
      BY <2>1 DEF Chosen
    <3> QED  BY <3>1, <3>2, <3>3 DEF Works
  <2> QED  BY <2>4, <2>5, <2>6, <2>7 DEF Inv
<1> QED
  BY <1>4, <1>5 DEF NextIntent

(* What is picked is what is there.                                        *)
LEMMA AssessInv ==
  ASSUME Typed, Inv, PortInv, NEW s \in Seats, Assess(s)
  PROVE  Inv'
<1>1. PICK chosen \in SUBSET Candidates(s) :
        job' = [job EXCEPT ![s].picks =
                  [x \in chosen |-> Linked(x, job[s].seen[x].count)]]
  BY DEF Assess
<1>2. /\ UNCHANGED <<files, port, held, mem>>
      /\ \A t \in Seats \ {s} : pc'[t] = pc[t] /\ job'[t] = job[t]
      /\ pc'[s] = "picking"
      /\ job'[s].picks = [x \in chosen |-> Linked(x, job[s].seen[x].count)]
  <2>1. job[s] \in Jobs /\ job = [t \in Seats |-> job[t]]
    BY DEF Typed, Placed
  <2> HIDE DEF Linked
  <2> QED  BY <1>1, <2>1 DEF Assess, Goes, Jobs, Typed, Placed
<1>3. \A r \in chosen : r \in Runs /\ r \in DOMAIN job[s].seen \ job[s].gone
  BY JobFields, PartialIs DEF Candidates
<1>4. ASSUME NEW r \in chosen
      PROVE  /\ Linked(r, job[s].seen[r].count) \subseteq store[r]
             /\ Record \in Linked(r, job[s].seen[r].count)
             /\ Log \in Linked(r, job[s].seen[r].count) \/ status[r] \in Lost
  <2>1. Record \in store[r]
    BY <1>3 DEF Assess, Validate
  <2>2. Log \notin store[r] => status[r] \in Lost
    BY <1>3 DEF Inv, WholeInv, Lost
  <2> QED  BY <2>1, <2>2 DEF Linked, Graph
<1>5. Works(s)'
  <2>1. Chosen(s)'
    BY <1>2, <1>4 DEF Chosen, files
  <2> QED  BY <1>2, <2>1 DEF Works, Hands, Carries, Busy, Moving
<1>6. LeaseInv' /\ WholeInv' /\ Lists'
  BY <1>2 DEF files, Inv, LeaseInv, WholeInv, Lists, ListedInv, CommitLast, Running
<1>7. ASSUME NEW t \in Seats \ {s} PROVE Works(t)'
  BY <1>2, OthersWork DEF Inv, files, Running
<1> QED  BY <1>5, <1>6, <1>7 DEF Inv

(* A run is leased for pruning, or dropped from the picks.                 *)
LEMMA TakeRunInv ==
  ASSUME Typed, Inv, PortInv, NEW s \in Seats, TakeRun(s)
  PROVE  Inv'
<1>1. UNCHANGED <<status, attempts, trash, refs, pins, port, mem>> /\ pc[s] = "picking"
  BY DEF TakeRun
<1>2. PICK x \in DOMAIN job[s].picks :
        \/ /\ held[x] = NoSeat
           /\ held' = [held EXCEPT ![x] = s]
           /\ store' = [store EXCEPT ![x] = @ \cup {Lease}]
           /\ job' = [job EXCEPT ![s].run = {x}]
           /\ Goes(s, "leased")
        \/ /\ job' = [job EXCEPT ![s].picks = Drop(@, x)]
           /\ UNCHANGED <<store, held, pc>>
  BY DEF TakeRun
<1>3. x \in Runs /\ DOMAIN job[s].picks \in SUBSET Runs
  BY JobFields, PartialIs
<1>4. \A u \in Seats, r \in Runs : Running(u, r)' <=> Running(u, r)
  BY <1>1 DEF Running
<1>5. Chosen(s)
  BY DEF Inv, Works
<1>6. job[s] \in Jobs /\ job = [t \in Seats |-> job[t]]
  BY DEF Typed, Placed
<1>7. CASE /\ held[x] = NoSeat
           /\ held' = [held EXCEPT ![x] = s]
           /\ store' = [store EXCEPT ![x] = @ \cup {Lease}]
           /\ job' = [job EXCEPT ![s].run = {x}]
           /\ Goes(s, "leased")
  <2>1. /\ \A t \in Seats \ {s} : pc'[t] = pc[t] /\ job'[t] = job[t]
        /\ pc'[s] = "leased"
    BY <1>7 DEF Goes, Typed, Placed
  <2>2. job'[s].run = {x} /\ job'[s].picks = job[s].picks
    BY <1>6, <1>7 DEF Jobs
  <2>3. /\ \A r \in Runs : store[r] \subseteq store'[r]
        /\ \A r \in Runs \ {x} : held'[r] = held[r]
        /\ held'[x] = s
        /\ Lease \in store'[x]
    BY <1>3, <1>7 DEF Typed, Kept
  <2>4. \A t \in Seats : ~Running(t, x)
    BY <1>3, <1>7, SeatAssumption DEF Inv, LeaseInv
  <2>5. LeaseInv'
    BY <1>1, <1>4, <2>3, <2>4 DEF Inv, LeaseInv
  <2>6. WholeInv' /\ Lists'
    BY <1>1, <2>3 DEF Inv, WholeInv, Lists, ListedInv, CommitLast
  <2>7. ASSUME NEW t \in Seats \ {s} PROVE Works(t)'
    <3>1. \A r \in Runs : held[r] = t => held'[r] = t
      BY <1>7, <2>3, SeatAssumption
    <3> QED  BY <1>1, <1>4, <2>1, <2>3, <3>1, OthersWork DEF Inv
  <2>8. Works(s)'
    <3>1. Hands(s)'
      BY <1>3, <1>4, <2>2, <2>3, <2>4 DEF Hands
    <3>2. Chosen(s)'
      BY <1>1, <1>3, <1>5, <2>1, <2>2, <2>3 DEF Chosen
    <3>3. Carries(s)'
      BY <2>1 DEF Carries, Moving
    <3> QED  BY <3>1, <3>2, <3>3 DEF Works
  <2> QED  BY <2>5, <2>6, <2>7, <2>8 DEF Inv
<1>8. CASE /\ job' = [job EXCEPT ![s].picks = Drop(@, x)]
           /\ UNCHANGED <<store, held, pc>>
  <2>1. /\ \A t \in Seats \ {s} : pc'[t] = pc[t] /\ job'[t] = job[t]
        /\ pc'[s] = "picking"
    BY <1>1, <1>8 DEF Typed, Placed
  <2>2. job'[s].picks = Drop(job[s].picks, x)
    BY <1>6, <1>8 DEF Jobs
  <2>3. LeaseInv' /\ WholeInv' /\ Lists'
    BY <1>1, <1>8, <1>4 DEF Inv, LeaseInv, WholeInv, Lists, ListedInv, CommitLast
  <2>4. ASSUME NEW t \in Seats \ {s} PROVE Works(t)'
    BY <1>1, <1>4, <1>8, <2>1, OthersWork DEF Inv
  <2>5. Works(s)'
    <3>1. Chosen(s)'
      BY <1>1, <1>5, <1>8, <2>1, <2>2 DEF Chosen, Drop
    <3> QED  BY <2>1, <3>1 DEF Works, Hands, Carries, Busy, Moving
  <2> QED  BY <2>3, <2>4, <2>5 DEF Inv
<1> QED  BY <1>2, <1>7, <1>8

(* A run is spared.                                                        *)
LEMMA SpareInv ==
  ASSUME Typed, Inv, PortInv, NEW s \in Seats, Spare(s)
  PROVE  Inv'
<1>1. /\ pc[s] = "leased" /\ UNCHANGED <<files, port, mem>>
      /\ held' = [held EXCEPT ![InHand(s)] = NoSeat]
  BY DEF Spare
<1>2. /\ \A t \in Seats \ {s} : pc'[t] = pc[t] /\ job'[t] = job[t]
      /\ pc'[s] = "picking"
  BY DEF Spare, Goes, Typed, Placed
<1>3. job'[s].picks = Drop(job[s].picks, InHand(s))
  <2>1. job[s] \in Jobs /\ job = [t \in Seats |-> job[t]]
    BY DEF Typed, Placed
  <2> QED  BY <2>1 DEF Spare, Jobs
<1>4. \A u \in Seats, r \in Runs : Running(u, r)' <=> Running(u, r)
  BY <1>1 DEF Running
<1>5. pc[s] \in Busy
  BY <1>1 DEF Busy
<1>6. LeaseInv'
  <2>1. ASSUME NEW u \in Seats, NEW r \in Runs, Running(u, r)
        PROVE  held'[r] = u /\ status'[r] = "active"
    <3>1. held[r] = u /\ status[r] = "active"
      BY <2>1 DEF Inv, LeaseInv
    <3>2. held'[r] = held[r]
      <4>1. /\ \A t \in Seats : ~Running(t, InHand(s))
            /\ \A y \in Runs : y # InHand(s) => held'[y] = held[y]
        BY <1>1, <1>5, GivesBack
      <4> QED  BY <2>1, <4>1
    <3>3. status' = status
      BY <1>1 DEF files
    <3> QED  BY <3>1, <3>2, <3>3
  <2> QED  BY <1>4, <2>1 DEF LeaseInv
<1>7. WholeInv' /\ Lists'
  BY <1>1 DEF files, Inv, WholeInv, Lists, ListedInv, CommitLast
<1>8. ASSUME NEW t \in Seats \ {s} PROVE Works(t)'
  <2>1. \A r \in Runs : held[r] = t => held'[r] = t
    BY <1>1, <1>5, GivesBack
  <2> QED  BY <1>1, <1>2, <1>4, <2>1, OthersWork DEF Inv, files
<1>9. Works(s)'
  <2>1. Chosen(s)
    BY DEF Inv, Works
  <2>2. Chosen(s)'
    BY <1>1, <1>2, <1>3, <2>1 DEF Chosen, Drop, files
  <2> QED  BY <1>2, <2>2 DEF Works, Hands, Carries, Busy, Moving
<1> QED  BY <1>6, <1>7, <1>8, <1>9 DEF Inv

(* A manifest lists what was picked.                                       *)
LEMMA ManifestInv ==
  ASSUME Typed, Inv, IInv, NEW s \in Seats, WriteManifest(s)
  PROVE  Inv'
<1> DEFINE x == InHand(s)
           paths == job[s].picks[x] \cup {Lease}
           intent == [run |-> x, paths |-> paths, moved |-> {}, done |-> FALSE]
<1>1. /\ pc[s] = "leased" /\ trash' = Append(trash, intent)
      /\ UNCHANGED <<store, status, attempts, refs, pins, port, held, mem>>
  BY DEF WriteManifest
<1>2. x \in Runs /\ job[s].run = {x} /\ x \in DOMAIN job[s].picks
  <2>1. PICK r \in DOMAIN job[s].picks : job[s].run = {r}
    BY <1>1 DEF IInv, LeasedInv
  <2>2. x = r
    BY <2>1 DEF InHand
  <2> QED  BY <2>1, <2>2, JobFields, PartialIs
<1>3. /\ \A t \in Seats \ {s} : pc'[t] = pc[t] /\ job'[t] = job[t]
      /\ pc'[s] = "pruning"
  BY DEF WriteManifest, Goes, Typed, Placed
<1>4. /\ job'[s].run = job[s].run /\ job'[s].picks = Drop(job[s].picks, x)
      /\ job'[s].at = Len(trash) + 1 /\ job'[s].todo = {Ref} \cup paths
  <2>1. job[s] \in Jobs /\ job = [t \in Seats |-> job[t]]
    BY DEF Typed, Placed
  <2> QED  BY <2>1 DEF WriteManifest, Jobs
<1>5. /\ \A i \in DOMAIN trash : trash'[i] = trash[i]
      /\ DOMAIN trash' = DOMAIN trash \cup {Len(trash) + 1}
      /\ trash'[Len(trash) + 1] = intent
  <2>1. trash \in Seq(Intents)
    BY DEF Typed, Kept
  <2> HIDE DEF intent
  <2> QED  BY <1>1, <2>1
<1>6. \A u \in Seats, r \in Runs : Running(u, r)' <=> Running(u, r)
  BY <1>1 DEF Running
<1>7. Chosen(s) /\ Hands(s)
  BY DEF Inv, Works
<1>8. /\ job[s].picks[x] \subseteq store[x] /\ Record \in job[s].picks[x]
      /\ Log \in paths \/ status[x] \in Lost
  BY <1>1, <1>2, <1>7 DEF Chosen
<1>9. paths \subseteq store[x]
  BY <1>1, <1>2, <1>7, <1>8 DEF Chosen
<1>10. LeaseInv' /\ WholeInv'
  BY <1>1, <1>6 DEF Inv, LeaseInv, WholeInv
<1>11. Lists'
  <2>1. ListedInv'
    BY <1>1, <1>5, <1>8 DEF Inv, Lists, ListedInv
  <2>2. CommitLast'
    BY <1>5 DEF Inv, Lists, CommitLast
  <2> QED  BY <2>1, <2>2 DEF Lists
<1>12. ASSUME NEW t \in Seats \ {s} PROVE Works(t)'
  BY <1>1, <1>3, <1>5, <1>6, <1>12, OthersWork DEF Inv, IInv
<1>13. Works(s)'
  <2>1. Hands(s)'
    BY <1>1, <1>2, <1>4, <1>6, <1>7 DEF Hands, Busy
  <2>2. Chosen(s)'
    BY <1>1, <1>2, <1>3, <1>4, <1>7 DEF Chosen, Drop
  <2>3. Carries(s)'
    <3> DEFINE m == trash'[job'[s].at]
    <3>1. m.run = x /\ m.paths = paths /\ m.moved = {}
      BY <1>4, <1>5
    <3> HIDE DEF m, paths, x
    <3>2. job'[s].run = {m.run} /\ m.paths \ m.moved \subseteq job'[s].todo
      BY <1>2, <1>4, <3>1
    <3>3. Log \in job'[s].todo \/ status'[m.run] \in Lost
      BY <1>1, <1>4, <1>8, <3>1
    <3>4. job'[s].todo \ {Ref} \subseteq store'[m.run] \ m.moved
      BY <1>1, <1>4, <1>9, <3>1
    <3> QED  BY <3>2, <3>3, <3>4 DEF Carries, m
  <2> QED  BY <2>1, <2>2, <2>3 DEF Works
<1> QED  BY <1>10, <1>11, <1>12, <1>13 DEF Inv

(* A hand-off ref is deleted.                                              *)
LEMMA DropRefInv ==
  ASSUME Typed, Inv, PortInv, NEW s \in Seats, DropRef(s)
  PROVE  Inv'
<1>1. UNCHANGED <<store, status, attempts, trash, pins, port, held, mem, pc>>
  BY DEF DropRef
<1>2. \A u \in Seats, r \in Runs : Running(u, r)' <=> Running(u, r)
  BY <1>1 DEF Running
<1>3. \A t \in Seats \ {s} : job'[t] = job[t]
  BY DEF DropRef, Typed, Placed
<1>4. /\ job'[s].run = job[s].run /\ job'[s].picks = job[s].picks
      /\ job'[s].at = job[s].at /\ job'[s].todo = job[s].todo \ {Ref}
  <2>1. job[s] \in Jobs /\ job = [t \in Seats |-> job[t]]
    BY DEF Typed, Placed
  <2> QED  BY <2>1 DEF DropRef, Jobs
<1>5. LeaseInv' /\ WholeInv' /\ Lists'
  BY <1>1, <1>2 DEF Inv, LeaseInv, WholeInv, Lists, ListedInv, CommitLast
<1>6. ASSUME NEW t \in Seats \ {s} PROVE Works(t)'
  BY <1>1, <1>2, <1>3, OthersWork DEF Inv
<1>7. Works(s)'
  <2>1. Hands(s) /\ Chosen(s) /\ Carries(s)
    BY DEF Inv, Works
  <2>2. Hands(s)' /\ Chosen(s)'
    <3>1. job[s].run \in SUBSET Runs
      BY JobFields
    <3> QED  BY <1>1, <1>2, <1>4, <2>1, <3>1 DEF Hands, Chosen
  <2>3. Carries(s)'
    <3> SUFFICES ASSUME pc[s] \in Moving PROVE Carries(s)'
      BY <1>1 DEF Carries
    <3>1. trash[job[s].at].paths \in SUBSET Files
      <4>1. job[s].at \in DOMAIN trash
        BY DEF Typed, Placed
      <4> QED  BY <4>1, IntentFields
    <3>2. Ref \notin Files /\ Ref # Log
      BY DEF Files, Ref, Log, Tries, Lease, Record, Session
    <3> QED  BY <1>1, <1>4, <2>1, <3>1, <3>2 DEF Carries
  <2> QED  BY <2>2, <2>3 DEF Works
<1> QED  BY <1>5, <1>6, <1>7 DEF Inv

(* A file is moved, or is not there: the trash has it afterwards, or it    *)
(* was the lease file of no manifest.                                      *)
LEMMA MoveInv ==
  ASSUME Typed, Inv, PortInv, NEW s \in Seats, Move(s) \/ Restore(s)
  PROVE  Inv'
<1> DEFINE x == InHand(s)
           i == job[s].at
<1>1. PICK p \in Files :
        /\ \/ Turn(s, "pruning", p)
           \/ /\ Turn(s, "restoring", p)
              /\ (p \in store[x]) # (p \in trash[i].moved)
        /\ IF p \in store[x] THEN Rename(s, p) ELSE UNCHANGED <<store, status, trash>>
        /\ job' = [job EXCEPT ![s].todo = @ \ {p}]
  BY DEF Move, Restore
<1>2. UNCHANGED <<attempts, refs, pins, port, held, mem, pc>>
  BY DEF Move, Restore
<1>3. pc[s] \in Moving /\ pc[s] \in Busy
  BY <1>1 DEF Turn, Moving, Busy
<1>4. x \in Runs /\ job[s].run = {x}
  BY <1>3, InHandTyped DEF Handling
<1>5. i \in DOMAIN trash /\ trash[i] \in Intents
  <2>1. i \in DOMAIN trash
    BY <1>3 DEF Typed, Placed
  <2> QED  BY <2>1, IntentFields
<1>6. Hands(s) /\ Chosen(s) /\ Carries(s)
  BY DEF Inv, Works
<1>7. trash[i].run = x
  BY <1>3, <1>4, <1>6 DEF Carries
<1>8. p \in job[s].todo
  BY <1>1 DEF Turn
<1>9. (p = Record => job[s].todo = {Record}) /\ (p # Log => Log \notin job[s].todo)
  BY <1>1, InTurn
<1>10. /\ \A t \in Seats \ {s} : job'[t] = job[t]
       /\ job'[s].run = job[s].run /\ job'[s].picks = job[s].picks
       /\ job'[s].at = i /\ job'[s].todo = job[s].todo \ {p}
  <2>1. job[s] \in Jobs /\ job = [t \in Seats |-> job[t]]
    BY DEF Typed, Placed
  <2> QED  BY <1>1, <2>1 DEF Jobs
<1>11. \A u \in Seats, r \in Runs : Running(u, r)' <=> Running(u, r)
  BY <1>2 DEF Running
<1>12. \A u \in Seats : ~Running(u, x)
  BY <1>3, <1>4, <1>6 DEF Hands
<1>13. p # Log => status[x] \in Lost
  BY <1>3, <1>6, <1>7, <1>9 DEF Carries
<1>14. pc[s] = "pruning" => p \in store[x] /\ p \notin trash[i].moved
  <2>1. Ref \notin Files
    BY DEF Files, Ref, Log, Tries, Lease, Record, Session
  <2> QED  BY <1>3, <1>6, <1>7, <1>8, <2>1 DEF Carries
(* what the step makes of the run, its manifest and the others             *)
<1>15. /\ \A r \in Runs \ {x} : store'[r] = store[r] /\ status'[r] = status[r]
       /\ store'[x] = store[x] \ {p}
       /\ status'[x] = status[x] \/ (p = Log /\ status'[x] = "none")
       /\ p = Log => status'[x] = "none"
       /\ DOMAIN trash' = DOMAIN trash
       /\ \A k \in DOMAIN trash \ {i} : trash'[k] = trash[k]
       /\ trash'[i].run = x /\ trash'[i].paths = trash[i].paths
       /\ trash'[i].moved = trash[i].moved \cup {p}
  <2>1. CASE p \in store[x]
    <3>1. /\ store' = [store EXCEPT ![x] = @ \ {p}]
          /\ trash' = [trash EXCEPT ![i] = [trash[i] EXCEPT !.moved = @ \cup {p}]]
          /\ status' = IF p = Log THEN [status EXCEPT ![x] = "none"] ELSE status
      BY <1>1, <2>1 DEF Rename
    <3>2. trash \in Seq(Intents)
      BY DEF Typed, Kept
    <3>3. /\ DOMAIN trash' = DOMAIN trash
          /\ \A k \in DOMAIN trash \ {i} : trash'[k] = trash[k]
          /\ trash'[i] = [trash[i] EXCEPT !.moved = @ \cup {p}]
      BY <1>5, <3>1, <3>2
    <3>4. /\ trash'[i].run = x /\ trash'[i].paths = trash[i].paths
          /\ trash'[i].moved = trash[i].moved \cup {p}
      BY <1>5, <1>7, <3>3 DEF Intents
    <3> HIDE DEF x, i
    <3> QED  BY <1>4, <3>1, <3>3, <3>4 DEF Typed, Kept
  <2>2. CASE p \notin store[x]
    <3>1. UNCHANGED <<store, status, trash>>
      BY <1>1, <2>2
    <3>2. p \in trash[i].moved
      BY <1>1, <1>14, <2>2 DEF Turn
    <3>3. p = Log => status[x] = "none"
      BY <1>4, <2>2 DEF Inv, WholeInv
    <3> HIDE DEF x, i
    <3> QED  BY <1>7, <2>2, <3>1, <3>2, <3>3
  <2> QED  BY <2>1, <2>2
<1>16. \A r \in Runs : status[r] \in Lost => status'[r] \in Lost
  BY <1>4, <1>15 DEF Lost
<1>17. status'[x] \in Lost
  BY <1>13, <1>15, <1>16, <1>4 DEF Lost
<1> HIDE DEF x, i
<1>18. LeaseInv'
  <2>1. ASSUME NEW u \in Seats, NEW r \in Runs, Running(u, r)
        PROVE  held'[r] = u /\ status'[r] = "active"
    BY <1>2, <1>12, <1>15, <2>1 DEF Inv, LeaseInv
  <2> QED  BY <1>11, <2>1 DEF LeaseInv
<1>19. WholeInv'
  <2>1. \A r \in Runs \ {x} : /\ status'[r] \notin Lost => Graph(attempts[r]) \subseteq store'[r]
                              /\ Log \notin store'[r] => status'[r] = "none"
    BY <1>15 DEF Inv, WholeInv
  <2>2. Log \notin store'[x] => status'[x] = "none"
    BY <1>4, <1>15 DEF Inv, WholeInv
  <2> QED  BY <1>2, <1>17, <2>1, <2>2 DEF WholeInv
<1>20. ListedInv'
  <2> SUFFICES ASSUME NEW k \in DOMAIN trash
               PROVE  Log \in trash'[k].paths \/ status'[trash'[k].run] \in Lost
    BY <1>15 DEF ListedInv
  <2>1. trash'[k].paths = trash[k].paths /\ trash'[k].run = trash[k].run
    BY <1>7, <1>15
  <2>2. trash[k].run \in Runs
    BY IntentFields
  <2> QED  BY <1>16, <2>1, <2>2 DEF Inv, Lists, ListedInv
<1>21. trash'[i].paths \ trash'[i].moved \subseteq job'[s].todo
  BY <1>3, <1>6, <1>10, <1>15 DEF Carries, i
<1>22. CommitLast'
  <2> SUFFICES ASSUME NEW k \in DOMAIN trash, Record \in trash'[k].moved
               PROVE  trash'[k].paths \subseteq trash'[k].moved
    BY <1>15 DEF CommitLast
  <2>1. CASE k = i /\ p = Record
    BY <1>9, <1>10, <1>21, <2>1
  <2>2. CASE k = i /\ p # Record
    BY <1>15, <2>2 DEF Inv, Lists, CommitLast
  <2>3. CASE k # i
    BY <1>15, <2>3 DEF Inv, Lists, CommitLast
  <2> QED  BY <2>1, <2>2, <2>3
<1>23. ASSUME NEW t \in Seats \ {s} PROVE Works(t)'
  <2>1. port # t
    BY <1>3 DEF PortInv, Pruning, Moving
  <2> QED  BY <1>2, <1>10, <1>11, <2>1, OthersWork DEF Inv
<1>24. Works(s)'
  <2>1. Hands(s)'
    BY <1>2, <1>4, <1>6, <1>10, <1>11 DEF Hands
  <2>2. Chosen(s)'
    <3>1. DOMAIN job[s].picks \in SUBSET Runs /\ pc[s] # "leased" /\ pc[s] # "picking"
      BY <1>3, JobFields, PartialIs DEF Moving
    <3> QED  BY <1>2, <1>4, <1>6, <1>10, <1>15, <3>1 DEF Chosen
  <2>3. Carries(s)'
    <3>1. pc[s] = "pruning" => job'[s].todo \ {Ref} \subseteq store'[x] \ trash'[i].moved
      BY <1>3, <1>6, <1>7, <1>10, <1>15 DEF Carries, i
    <3> QED  BY <1>2, <1>4, <1>10, <1>15, <1>17, <1>21, <3>1 DEF Carries
  <2> QED  BY <2>1, <2>2, <2>3 DEF Works
<1> QED
  BY <1>18, <1>19, <1>20, <1>22, <1>23, <1>24 DEF Inv, Lists

(* A manifest is finished.                                                 *)
LEMMA FinishInv ==
  ASSUME Typed, Inv, PortInv, NEW s \in Seats, Finish(s)
  PROVE  Inv'
<1> DEFINE x == InHand(s)
           i == job[s].at
<1>1. /\ pc[s] \in Moving /\ job[s].todo = {}
      /\ trash' = [trash EXCEPT ![i] = [trash[i] EXCEPT !.done = TRUE]]
      /\ held' = [held EXCEPT ![x] = NoSeat]
      /\ UNCHANGED <<store, status, attempts, refs, pins, port, mem>>
  BY DEF Finish, Moving
<1>2. i \in DOMAIN trash /\ trash[i] \in Intents
  <2>1. i \in DOMAIN trash
    BY <1>1 DEF Typed, Placed
  <2> QED  BY <2>1, IntentFields
<1>3. /\ DOMAIN trash' = DOMAIN trash
      /\ \A k \in DOMAIN trash : /\ trash'[k].run = trash[k].run
                                 /\ trash'[k].paths = trash[k].paths
                                 /\ trash'[k].moved = trash[k].moved
  <2>1. trash \in Seq(Intents)
    BY DEF Typed, Kept
  <2> HIDE DEF i
  <2>2. /\ DOMAIN trash' = DOMAIN trash
        /\ \A k \in DOMAIN trash \ {i} : trash'[k] = trash[k]
        /\ trash'[i] = [trash[i] EXCEPT !.done = TRUE]
    BY <1>1, <1>2, <2>1
  <2>3. /\ trash'[i].run = trash[i].run /\ trash'[i].paths = trash[i].paths
        /\ trash'[i].moved = trash[i].moved
    BY <1>2, <2>2 DEF Intents
  <2> QED  BY <2>2, <2>3
<1>4. /\ \A t \in Seats \ {s} : pc'[t] = pc[t] /\ job'[t] = job[t]
      /\ pc'[s] \in {"picking", "recovering"}
      /\ pc'[s] = "picking" => pc[s] = "pruning"
  BY <1>1 DEF Finish, Goes, Typed, Placed
<1>5. job'[s].picks = job[s].picks
  <2>1. job[s] \in Jobs /\ job = [t \in Seats |-> job[t]]
    BY DEF Typed, Placed
  <2> QED  BY <2>1 DEF Finish, Jobs
<1>6. \A u \in Seats, r \in Runs : Running(u, r)' <=> Running(u, r)
  BY <1>1 DEF Running
<1>7. /\ \A t \in Seats : ~Running(t, x)
      /\ \A y \in Runs : y # x => held'[y] = held[y]
  BY <1>1, GivesBack DEF Busy
<1>8. LeaseInv'
  <2>1. ASSUME NEW u \in Seats, NEW r \in Runs, Running(u, r)
        PROVE  held'[r] = u /\ status'[r] = "active"
    BY <1>1, <1>7, <2>1 DEF Inv, LeaseInv
  <2> QED  BY <1>6, <2>1 DEF LeaseInv
<1>9. WholeInv' /\ Lists'
  BY <1>1, <1>3 DEF Inv, WholeInv, Lists, ListedInv, CommitLast
<1>10. ASSUME NEW t \in Seats \ {s} PROVE Works(t)'
  <2>1. \A r \in Runs : held[r] = t => held'[r] = t
    BY <1>1, GivesBack DEF Busy
  <2>2. port # t
    BY <1>1 DEF PortInv, Pruning, Moving
  <2> QED  BY <1>4, <1>6, <2>1, <2>2, OthersWork DEF Inv
<1>11. Works(s)'
  <2>1. Chosen(s)
    BY DEF Inv, Works
  <2>2. Chosen(s)'
    BY <1>1, <1>4, <1>5, <2>1 DEF Chosen
  <2> QED  BY <1>4, <2>2 DEF Works, Hands, Carries, Busy, Moving
<1> QED  BY <1>8, <1>9, <1>10, <1>11 DEF Inv

(* A seat dies; its leases are free.                                       *)
LEMMA CrashInv ==
  ASSUME Typed, Inv, PortInv, NEW s \in Seats, Crash(s)
  PROVE  Inv'
<1>1. /\ UNCHANGED files /\ mem' = [mem EXCEPT ![s] = <<>>]
      /\ held' = [r \in Runs |-> IF held[r] = s THEN NoSeat ELSE held[r]]
  BY DEF Crash
<1>2. /\ \A t \in Seats \ {s} : pc'[t] = pc[t] /\ job'[t] = job[t]
      /\ pc'[s] = "down"
  BY DEF Crash, Goes, Typed, Placed
<1>3. \A u \in Seats, r \in Runs : Running(u, r)' => Running(u, r) /\ u # s
  <2>1. mem'[s] = <<>> /\ \A u \in Seats \ {s} : mem'[u] = mem[u]
    BY <1>1 DEF Typed, Kept
  <2> QED  BY <2>1 DEF Running
<1>4. LeaseInv'
  BY <1>1, <1>3 DEF files, Inv, LeaseInv
<1>5. WholeInv' /\ Lists'
  BY <1>1 DEF files, Inv, WholeInv, Lists, ListedInv, CommitLast
<1>6. ASSUME NEW t \in Seats \ {s} PROVE Works(t)'
  BY <1>1, <1>2, <1>3, OthersWork DEF Inv, files
<1>7. Works(s)'
  BY <1>2 DEF Works, Hands, Chosen, Carries, Busy, Moving
<1> QED  BY <1>4, <1>5, <1>6, <1>7 DEF Inv

(* A seat opens the store: a run it finds at work or without a journal is  *)
(* lost.                                                                   *)
LEMMA OpenInv ==
  ASSUME Typed, Inv, PortInv, NEW s \in Seats, Open(s)
  PROVE  Inv'
<1> DEFINE known == {r \in Runs : Record \in store[r] /\ held[r] = NoSeat}
<1>1. /\ store' = [r \in Runs |-> IF r \in known THEN store[r] \cup {Lease, Log}
                                                 ELSE store[r]]
      /\ status' = [r \in Runs |->
                      IF r \in known /\ status[r] \in {"active", "none"}
                      THEN "cleanup-blocked" ELSE status[r]]
      /\ mem' = [mem EXCEPT ![s] =
                   [r \in known |-> [status |-> status'[r], latest |-> OnDisk(r)]]]
      /\ UNCHANGED <<attempts, trash, refs, pins, port, held, job>>
  BY DEF Open
<1>2. /\ \A t \in Seats \ {s} : pc'[t] = pc[t] /\ job'[t] = job[t]
      /\ pc'[s] = "idle"
  BY <1>1 DEF Open, Goes, Typed, Placed
<1>3. /\ \A r \in Runs : store[r] \subseteq store'[r]
      /\ \A r \in Runs : status[r] \in Lost => status'[r] \in Lost
      /\ \A r \in Runs : r \notin known => store'[r] = store[r] /\ status'[r] = status[r]
      /\ \A r \in known : Log \in store'[r] /\ status'[r] \notin {"active", "none"}
      /\ \A r \in Runs : status'[r] \notin Lost => status[r] \notin Lost
  BY <1>1 DEF Lost
<1>4. \A u \in Seats, r \in Runs : Running(u, r)' => Running(u, r) /\ u # s
  <2>1. mem'[s] = [r \in known |-> [status |-> status'[r], latest |-> OnDisk(r)]]
    BY <1>1 DEF Typed, Kept
  <2>2. \A u \in Seats \ {s} : mem'[u] = mem[u]
    BY <1>1 DEF Typed, Kept
  <2>3. \A r \in Runs : ~Running(s, r)'
    BY <1>3, <2>1 DEF Running
  <2> QED  BY <2>2, <2>3 DEF Running
<1>5. LeaseInv'
  <2>1. ASSUME NEW u \in Seats, NEW r \in Runs, Running(u, r)
        PROVE  held'[r] = u /\ status'[r] = "active"
    <3>1. held[r] = u /\ status[r] = "active" /\ r \notin known
      BY <2>1, SeatAssumption DEF Inv, LeaseInv
    <3> QED  BY <1>1, <1>3, <3>1
  <2> QED  BY <1>4, <2>1 DEF LeaseInv
<1>6. WholeInv'
  <2>1. ASSUME NEW r \in Runs
        PROVE  /\ status'[r] \notin Lost => Graph(attempts[r]) \subseteq store'[r]
               /\ Log \notin store'[r] => status'[r] = "none"
    BY <1>3 DEF Inv, WholeInv
  <2> QED  BY <1>1, <2>1 DEF WholeInv
<1>7. Lists'
  <2>1. ASSUME NEW i \in DOMAIN trash
        PROVE  Log \in trash[i].paths \/ status'[trash[i].run] \in Lost
    BY <1>3, IntentFields DEF Inv, Lists, ListedInv
  <2> QED  BY <1>1, <2>1 DEF Inv, Lists, ListedInv, CommitLast
<1>8. ASSUME NEW t \in Seats \ {s} PROVE Works(t)'
  BY <1>1, <1>2, <1>3, <1>4, OthersWork DEF Inv
<1>9. Works(s)'
  BY <1>2 DEF Works, Hands, Chosen, Carries, Busy, Moving
<1> QED  BY <1>5, <1>6, <1>7, <1>8, <1>9 DEF Inv

(* Every step keeps the invariant.                                         *)
LEMMA NextInv == Typed /\ IInv /\ Inv /\ [Next]_vars => Inv'
<1> SUFFICES ASSUME Typed, IInv, Inv, [Next]_vars PROVE Inv'
  OBVIOUS
<1> USE DEF IInv
<1>1. CASE UNCHANGED vars
  BY <1>1 DEF vars, files, Inv, LeaseInv, WholeInv, Lists, ListedInv, CommitLast, Works,
     Hands, Chosen, Carries, Running
<1>2. ASSUME NEW s \in Seats, Attempts(s) PROVE Inv'
  BY <1>2, StartInv, QuietInv, SettleInv DEF Attempts
<1>3. ASSUME NEW s \in Seats, Pinning(s) PROVE Inv'
  BY <1>3, PinningInv
<1>4. ASSUME NEW s \in Seats, Prune(s) PROVE Inv'
  BY <1>4, QuietInv, IntentInv, AssessInv, TakeRunInv, SpareInv, ManifestInv, DropRefInv,
     MoveInv, FinishInv DEF Prune
<1>5. ASSUME NEW s \in Seats, Crash(s) \/ Open(s) PROVE Inv'
  BY <1>5, CrashInv, OpenInv
<1> QED
  BY <1>1, <1>2, <1>3, <1>4, <1>5 DEF Next

(* The three parts hold in every reachable state.                          *)
LEMMA Invariant == Spec => [](Typed /\ IInv /\ Inv)
<1>1. Init => Typed /\ IInv /\ Inv
  BY InitTyped, InitIInv, InitInv
<1>2. (Typed /\ IInv /\ Inv) /\ [Next]_vars => (Typed /\ IInv /\ Inv)'
  BY NextTyped, NextIInv, NextInv
<1> QED  BY <1>1, <1>2, PTL DEF Spec

(* startAttempt and prune look at a run under its lease: whatever a seat   *)
(* read before, no file is moved under an attempt at work.                 *)
THEOREM LiveRunsStay == Spec => []LiveStays
<1>1. Inv => LiveStays
  BY DEF Inv, LeaseInv, WholeInv, LiveStays, Lost
<1> QED  BY <1>1, Invariant, PTL

(* moveRunToTrash and recoverTrashIntents take the run record last, in any *)
(* number of attempts to finish a manifest.                                *)
THEOREM RecordsLeaveLast == Spec => []CommitLast
<1>1. Inv => CommitLast
  BY DEF Inv, Lists
<1> QED  BY <1>1, Invariant, PTL

(* A rename is the only step that takes a file out of the store, and the   *)
(* trash has none of that name then: prune chose what was there, recovery  *)
(* looks for duplicates.                                                   *)
THEOREM NothingIsDeleted == Spec => NeverDeleted
<1> DEFINE Trashed ==
      \A r \in Runs : \A p \in store[r] \ store'[r] :
        \E i \in DOMAIN trash : /\ trash[i].run = r
                                /\ p \in trash'[i].moved \ trash[i].moved
<1>1. Typed /\ IInv /\ Inv /\ [Next]_vars => [Trashed]_vars
  <2> SUFFICES ASSUME Typed, IInv, Inv, Next PROVE Trashed
    OBVIOUS
  <2>1. ASSUME NEW s \in Seats, Move(s) \/ Restore(s) PROVE Trashed
    <3> DEFINE x == InHand(s)
               i == job[s].at
    <3>1. PICK p \in Files :
            /\ \/ Turn(s, "pruning", p)
               \/ /\ Turn(s, "restoring", p)
                  /\ (p \in store[x]) # (p \in trash[i].moved)
            /\ IF p \in store[x] THEN Rename(s, p) ELSE UNCHANGED <<store, status, trash>>
      BY <2>1 DEF Move, Restore
    <3>2. pc[s] \in Moving
      BY <3>1 DEF Turn, Moving
    <3>3. x \in Runs /\ job[s].run = {x} /\ i \in DOMAIN trash
      BY <3>2, InHandTyped DEF Handling, Typed, Placed
    <3>4. Carries(s)
      BY DEF Inv, Works
    <3>5. trash[i].run = x
      BY <3>2, <3>3, <3>4 DEF Carries
    <3>6. CASE p \notin store[x]
      BY <3>1, <3>6
    <3>7. CASE p \in store[x]
      <4>1. /\ store' = [store EXCEPT ![x] = @ \ {p}]
            /\ trash' = [trash EXCEPT ![i] = [trash[i] EXCEPT !.moved = @ \cup {p}]]
        BY <3>1, <3>7 DEF Rename
      <4>2. trash[i] \in Intents /\ trash \in Seq(Intents)
        BY <3>3, IntentFields DEF Typed, Kept
      <4>3. p \in trash'[i].moved
        <5> HIDE DEF i
        <5>1. trash'[i] = [trash[i] EXCEPT !.moved = @ \cup {p}]
          BY <3>3, <4>1, <4>2
        <5> QED  BY <4>2, <5>1 DEF Intents
      <4>4. p \notin trash[i].moved
        <5>1. Ref \notin Files
          BY DEF Files, Ref, Log, Tries, Lease, Record, Session
        <5>2. CASE Turn(s, "pruning", p)
          BY <3>2, <3>4, <3>5, <5>1, <5>2 DEF Carries, Turn
        <5> QED  BY <3>1, <3>7, <5>2
      <4>5. \A r \in Runs : \A q \in store[r] \ store'[r] : r = x /\ q = p
        <5> HIDE DEF x
        <5> QED  BY <4>1 DEF Typed, Kept
      <4> QED  BY <3>3, <3>5, <4>3, <4>4, <4>5
    <3> QED  BY <3>6, <3>7
  <2>2. ASSUME NEW s \in Seats, Prune(s), ~Move(s), ~Restore(s) PROVE Trashed
    <3>1. \A r \in Runs : store[r] \subseteq store'[r]
      <4>1. CASE NextIntent(s)
        BY <4>1 DEF NextIntent, Typed, Kept
      <4>2. CASE TakeRun(s)
        <5>1. PICK y \in DOMAIN job[s].picks :
                store' = [store EXCEPT ![y] = @ \cup {Lease}] \/ UNCHANGED store
          BY <4>2 DEF TakeRun
        <5> QED  BY <5>1 DEF Typed, Kept
      <4>3. CASE ~NextIntent(s) /\ ~TakeRun(s)
        <5>1. UNCHANGED store
          BY <2>2, <4>3 DEF Prune, Describe, TakeLease, LeaseRefused, RootMissing, Assess,
             Spare, WriteManifest, DropRef, RestoreRefused, Throw, Finish, EndPrune, files
        <5> QED  BY <5>1
      <4> QED  BY <4>1, <4>2, <4>3
    <3> QED  BY <3>1
  <2>3. ASSUME NEW s \in Seats, Attempts(s) \/ Pinning(s) \/ Crash(s) \/ Open(s)
        PROVE  Trashed
    <3>1. \A r \in Runs : store[r] \subseteq store'[r]
      BY <2>3 DEF Attempts, Ask, StartAttempt, StartRefused, Settle, Pinning, Pin, Unpin,
         Crash, Open, files, Typed, Kept
    <3> QED  BY <3>1
  <2> QED  BY <2>1, <2>2, <2>3 DEF Next
<1> QED
  BY <1>1, Invariant, PTL DEF NeverDeleted, Spec
==============================================================================
