---------------------------- MODULE BudgetProofs ----------------------------
(***************************************************************************)
(* Theorems about Budget, for every limit, count and bound: what an        *)
(* attempt has spent is gone for the next one, and no more than that; and  *)
(* the reminders of an attempt rise.                                       *)
(*                                                                         *)
(* The first two are not inductive: a plan is written from the result in   *)
(* memory, the result comes from the session, from a snapshot or from a    *)
(* checkpoint, and the checkpoints wait in the tail.  Inv follows the      *)
(* usage of the latest attempt through all of them.  The reminders rise    *)
(* because the queue does, from above what is written up to the highest    *)
(* stage remembered (Reminding).                                           *)
(***************************************************************************)
EXTENDS Budget, SequenceTheorems, TLAPS

Latest == Len(plans)
Executing == phase \in {"begun", "running", "stopped"}
InSession == phase \in {"running", "stopped"}

\* every plan takes one of the counts; the attempt executed is the latest
Lineage ==
  /\ plans # <<>> =>
       plans[Latest].retries + plans[Latest].resumes + Latest = MaxAttempts
  /\ mine <= Latest
  /\ Executing => plans # <<>> /\ mine = Latest
  /\ phase = "prepared" => plans # <<>>
  /\ started \subseteq 1..Latest
  /\ InSession => Latest \in started
  /\ phase = "idle" /\ mine # Latest => Latest \notin started
  /\ plans = <<>> => snapshot = NoSnapshot /\ result = NoResult

\* an attempt that has not got to its session has no checkpoint
Unspent ==
  /\ \A n \in Attempts : n \notin started => checkpoint[n] = 0
  /\ phase = "begun" => checkpoint[Latest] = 0
  /\ phase = "prepared" => Latest \notin started

\* what the session holds beyond the baseline covers what was written of it
Counting ==
  /\ InSession => /\ baseline <= session
                  /\ checkpoint[Latest] <= session - baseline
                  /\ session - baseline <= spent[Latest]
  /\ ~InSession => tail = <<>>
  /\ \A i \in DOMAIN tail :
       tail[i].type = "checkpoint" => tail[i].usage <= session - baseline

\* the usage of a result in memory, of the latest attempt, lies between what
\* was written of it and what it spent
Remembered ==
  /\ \A n \in Attempts : checkpoint[n] <= spent[n]
  /\ phase = "idle" /\ result # NoResult /\ mine = Latest =>
       /\ Latest \notin Unsettled => checkpoint[Latest] <= result.usage
       /\ Latest \in started => result.usage <= spent[Latest]

\* so does that of a snapshot which covers it
Saved ==
  /\ snapshot.seen \subseteq started
  /\ Executing \/ phase = "prepared" => Latest \notin snapshot.seen
  /\ Latest \in snapshot.seen =>
       /\ Latest \notin Unsettled => checkpoint[Latest] <= snapshot.usage
       /\ snapshot.usage <= spent[Latest]

\* a run without a result was not left cleanup-blocked by its snapshot
Settled ==
  Latest \notin Unsettled =>
    /\ Executing \/ phase = "prepared" \/ (mine > 0 /\ result = NoResult) =>
         (snapshot # NoSnapshot => snapshot.disp # "blocked")

Inv == /\ TypeOK /\ Lineage /\ Unspent /\ Counting /\ Remembered /\ Saved
       /\ Settled /\ SettledAttemptsPay /\ ChargedForItsOwn
------------------------------------------------------------------------------
(* Facts the steps share.                                                  *)

(* An attempt that has a record has one of the ordinals the counts allow.  *)
LEMMA LatestIsAttempt ==
  ASSUME TypeOK, Lineage, plans # <<>>
  PROVE  /\ Latest \in Attempts /\ Latest \in Nat /\ Latest >= 1
         /\ plans[Latest] \in Plan
<1>0. plans \in Seq(Plan)
  BY DEF TypeOK
<1>1. /\ Latest \in Nat /\ Latest >= 1 /\ Latest \in DOMAIN plans
      /\ plans[Latest] \in Plan
  BY <1>0 DEF Latest
<1>2. Latest <= MaxAttempts /\ MaxAttempts \in Nat
  BY <1>1, CountsAssumption DEF Lineage, MaxAttempts, Plan
<1> QED BY <1>1, <1>2 DEF Attempts

(* The jobs a turn queues behind its checkpoint are stages.                *)
LEMMA StageJobsAreStages ==
  ASSUME NEW S
  PROVE  /\ StageJobs(S) \in Seq(Jobs)
         /\ \A i \in DOMAIN StageJobs(S) : StageJobs(S)[i].type = "stage"
<1> DEFINE A == IF 7 \in S THEN <<[type |-> "stage", stage |-> 7]>> ELSE <<>>
           B == IF 9 \in S THEN <<[type |-> "stage", stage |-> 9]>> ELSE <<>>
<1>1. /\ [type |-> "stage", stage |-> 7] \in Jobs
      /\ [type |-> "stage", stage |-> 9] \in Jobs
  BY DEF Jobs, Stages
<1>2. /\ A \in Seq(Jobs) /\ B \in Seq(Jobs)
      /\ Len(A) \in {0, 1} /\ Len(B) \in {0, 1}
      /\ \A i \in 1..Len(A) : A[i].type = "stage"
      /\ \A i \in 1..Len(B) : B[i].type = "stage"
  <2>1. CASE 7 \in S /\ 9 \in S  BY <1>1, <2>1
  <2>2. CASE 7 \in S /\ 9 \notin S  BY <1>1, <2>2
  <2>3. CASE 7 \notin S /\ 9 \in S  BY <1>1, <2>3
  <2>4. CASE 7 \notin S /\ 9 \notin S  BY <1>1, <2>4
  <2> QED BY <2>1, <2>2, <2>3, <2>4
<1> HIDE DEF A, B
<1>3. A \o B \in Seq(Jobs)
  BY <1>2
<1>4. \A i \in DOMAIN (A \o B) : (A \o B)[i].type = "stage"
  BY <1>2
<1>5. StageJobs(S) = A \o B
  BY DEF StageJobs, A, B
<1> QED BY <1>3, <1>4, <1>5

(* Whatever stands in a queue after something was put behind it stood      *)
(* there before or was put there.                                          *)
LEMMA QueueMembers ==
  ASSUME NEW S, NEW a \in Seq(S), NEW b \in Seq(S)
  PROVE  /\ a \o b \in Seq(S)
         /\ \A i \in DOMAIN (a \o b) :
              \/ i \in DOMAIN a /\ (a \o b)[i] = a[i]
              \/ \E j \in DOMAIN b : (a \o b)[i] = b[j]
<1>1. /\ a \o b \in Seq(S) /\ Len(a \o b) = Len(a) + Len(b)
      /\ \A i \in 1..(Len(a) + Len(b)) :
           (a \o b)[i] = IF i <= Len(a) THEN a[i] ELSE b[i - Len(a)]
  BY ConcatProperties
<1>2. ASSUME NEW i \in DOMAIN (a \o b)
      PROVE  \/ i \in DOMAIN a /\ (a \o b)[i] = a[i]
             \/ \E j \in DOMAIN b : (a \o b)[i] = b[j]
  <2>1. i \in 1..(Len(a) + Len(b)) /\ Len(a) \in Nat /\ Len(b) \in Nat
    BY <1>1
  <2>2. CASE i <= Len(a)
    BY <1>1, <2>1, <2>2
  <2>3. CASE i > Len(a)
    <3>1. i - Len(a) \in DOMAIN b
      BY <2>1, <2>3
    <3>2. (a \o b)[i] = b[i - Len(a)]
      BY <1>1, <2>1, <2>3
    <3> QED BY <3>1, <3>2
  <2> QED BY <2>1, <2>2, <2>3
<1> QED BY <1>1, <1>2

(* One more of what is bounded by a count.                                 *)
LEMMA FaultCounts ==
  ASSUME TypeOK, Fault
  PROVE  faults' \in 0..MaxFaults
BY FaultsAssumption DEF TypeOK, Fault

(* What an attempt reports is a number.                                    *)
LEMMA ReportedIsNat ==
  ASSUME TypeOK, Counting, Over
  PROVE  Reported \in Nat
BY DEF TypeOK, Counting, Over, InSession, Reported, OwnUsage

(* A snapshot of a result keeps its type.                                  *)
LEMMA SaveTyped ==
  ASSUME TypeOK, NEW disp \in Dispositions, NEW usage \in Nat
  PROVE  /\ Result(disp, usage) \in [disp : Dispositions, usage : Nat]
         /\ Save(Result(disp, usage)) \in
              [disp : Dispositions, usage : Nat, seen : SUBSET Nat]
BY DEF TypeOK, Result, Save

(* What a step that ends the attempt leaves behind.                        *)
LEMMA LeaveTyped ==
  ASSUME TypeOK, Leave
  PROVE  /\ phase' = "idle" /\ baseline' \in Nat /\ prior' \in Nat
         /\ highest' \in {0} \cup Stages /\ aborted' \in BOOLEAN
         /\ tail' \in Seq(Jobs)
         /\ UNCHANGED <<plans, started, checkpoint, notices, session, spent, sent,
                        mine, crashes>>
<1>1. <<>> \in Seq(Jobs)
  OBVIOUS
<1>2. tail' = <<>> /\ highest' = 0 /\ baseline' = 0 /\ prior' = 0 /\ aborted' = FALSE
  BY DEF Leave
<1>3. UNCHANGED <<plans, started, checkpoint, notices, session, spent, sent,
                  mine, crashes>>
  BY DEF Leave, truth
<1>4. phase' = "idle"
  BY DEF Leave
<1> QED BY <1>1, <1>2, <1>3, <1>4

------------------------------------------------------------------------------
(* The type invariant.                                                     *)

LEMMA TypeStep ==
  ASSUME TypeOK, Lineage, Counting, [Next]_vars
  PROVE  TypeOK'
<1> USE DEF durable, truth, seat, steering, bounds
<1>1. CASE Launch
  <2>1. plans' \in Seq(Plan)
    BY <1>1, LimitAssumption, CountsAssumption DEF Launch, Plan, Kinds
  <2> QED BY <1>1, <2>1 DEF Launch, TypeOK
<1>2. ASSUME NEW kind \in {"retry", "resume", "handoff"}, Relaunch(kind)
      PROVE  TypeOK'
  <2>1. mine = Latest /\ plans # <<>>
    BY <1>2 DEF Relaunch, Latest, Lineage
  <2>2. plans[mine] \in Plan
    BY <2>1, LatestIsAttempt
  <2>3. result.usage \in Nat
    BY <1>2 DEF Relaunch, TypeOK
  <2>4. PICK plan \in Plan : plans' = Append(plans, plan)
    BY <1>2, <2>2, <2>3 DEF Relaunch, Remainder, Plan, Kinds
  <2>5. plans' \in Seq(Plan)
    BY <2>4 DEF TypeOK
  <2> QED BY <1>2, <2>5 DEF Relaunch, TypeOK
<1>3. CASE FailStart
  BY <1>3, FaultCounts DEF FailStart, TypeOK
<1>4. CASE Begin
  <2>1. Latest \in Nat
    BY DEF Latest, TypeOK
  <2>2. started' \subseteq Nat /\ faults' \in 0..MaxFaults
    BY <1>4, <2>1, FaultCounts DEF Begin, Latest, TypeOK
  <2> QED BY <1>4, <2>1, <2>2 DEF Begin, Latest, TypeOK
<1>5. CASE OpenSession
  BY <1>5 DEF OpenSession, TypeOK
<1>6. ASSUME NEW c \in 1..MaxTurn, Turn(c)
      PROVE  TypeOK'
  <2> DEFINE used == OwnUsage + c
             job == <<[type |-> "checkpoint", usage |-> used]>>
  <2>1. used \in Nat
    BY <1>6, TurnsAssumption
       DEF Turn, TypeOK, Counting, InSession, OwnUsage
  <2>2. job \in Seq(Jobs)
    BY <2>1 DEF Jobs
  <2>3. StageJobs(Reached(used)) \in Seq(Jobs)
    BY StageJobsAreStages
  <2>4. tail \in Seq(Jobs)
    BY DEF TypeOK
  <2> HIDE DEF used, job
  <2>5. tail \o job \o StageJobs(Reached(used)) \in Seq(Jobs)
    BY <2>2, <2>3, <2>4
  <2>6. tail' \in Seq(Jobs)
    BY <1>6, <2>4, <2>5 DEF Turn, used, job
  <2>7. highest' \in {0} \cup Stages
    BY <1>6 DEF Turn, TypeOK, Remember, Stages
  <2>8. c \in Nat
    BY TurnsAssumption
  <2>9. spent' \in [Attempts -> Nat]
    <3>1. spent \in [Attempts -> Nat] /\ spent' = [spent EXCEPT ![mine] = @ + c]
      BY <1>6 DEF Turn, TypeOK
    <3>2. mine \in Attempts => spent[mine] + c \in Nat
      BY <2>8, <3>1
    <3> QED BY <3>1, <3>2
  <2>10. session' \in Nat
    BY <1>6, <2>8 DEF Turn, TypeOK
  <2> QED BY <1>6, <2>6, <2>7, <2>9, <2>10 DEF Turn, TypeOK
<1>7. ASSUME NEW s \in Clocks, Timer(s)
      PROVE  TypeOK'
  <2>1. tail' \in Seq(Jobs)
    BY <1>7, StageJobsAreStages DEF Timer, TypeOK
  <2>2. highest' \in {0} \cup Stages
    BY <1>7 DEF Timer, TypeOK, Remember, Stages
  <2> QED BY <1>7, <2>1, <2>2 DEF Timer, TypeOK
<1>8. CASE Drain
  <2>1. tail \in Seq(Jobs) /\ tail # <<>> /\ Head(tail) \in Jobs
    BY <1>8 DEF Drain, TypeOK
  <2>2. tail' \in Seq(Jobs)
    BY <1>8, <2>1 DEF Drain
  <2>3. checkpoint' \in [Attempts -> Nat]
    BY <1>8, <2>1 DEF Drain, TypeOK, Jobs
  <2>4. Head(tail).type = "stage" => Head(tail).stage \in Stages
    BY <2>1 DEF Jobs
  <2> DEFINE with(f) == [f EXCEPT ![mine] = Append(@, Head(tail).stage)]
  <2>a. ASSUME NEW f \in [Attempts -> Seq(Stages)], Head(tail).type = "stage"
        PROVE  with(f) \in [Attempts -> Seq(Stages)]
    <3>1. CASE mine \in Attempts
      <4>1. Append(f[mine], Head(tail).stage) \in Seq(Stages)
        BY <2>4, <2>a, <3>1
      <4> QED BY <2>a, <4>1
    <3>2. CASE mine \notin Attempts
      BY <2>a, <3>2
    <3> QED BY <3>1, <3>2
  <2>b. notices' = notices \/ (Head(tail).type = "stage" /\ notices' = with(notices))
    BY <1>8 DEF Drain
  <2>c. sent' = sent \/ (Head(tail).type = "stage" /\ sent' = with(sent))
    BY <1>8 DEF Drain
  <2> HIDE DEF with
  <2>5. notices' \in [Attempts -> Seq(Stages)]
    BY <2>a, <2>b DEF TypeOK
  <2>6. sent' \in [Attempts -> Seq(Stages)]
    BY <2>a, <2>c DEF TypeOK
  <2>7. faults' \in 0..MaxFaults
    BY <1>8, FaultCounts DEF Drain, TypeOK
  <2> QED BY <1>8, <2>2, <2>3, <2>5, <2>6, <2>7 DEF Drain, TypeOK
<1>9. CASE Abort \/ Stop
  BY <1>9 DEF Abort, Stop, TypeOK
<1>10. ASSUME NEW disp \in Dispositions, Settle(disp)
       PROVE  TypeOK'
  <2>1. Reported \in Nat
    BY <1>10, ReportedIsNat DEF Settle
  <2>2. ended' \in Nat /\ faults' \in 0..MaxFaults
    BY <1>10, <2>1, FaultCounts DEF Settle, TypeOK
  <2>3. /\ result' \in [disp : Dispositions, usage : Nat]
        /\ snapshot' \in [disp : Dispositions, usage : Nat, seen : SUBSET Nat]
    BY <1>10, <2>1, SaveTyped DEF Settle
  <2> QED BY <1>10, <2>2, <2>3, LeaveTyped DEF Settle, TypeOK
<1>11. CASE Reject
  <2>1. Reported \in Nat
    BY <1>11, ReportedIsNat DEF Reject
  <2>2. ended' \in Nat /\ faults' \in 0..MaxFaults
    BY <1>11, <2>1, FaultCounts DEF Reject, TypeOK
  <2> QED BY <1>11, <2>2, LeaveTyped DEF Reject, TypeOK
<1>12. CASE SettleUnsettled
  <2>1. Reported \in Nat
    BY <1>12, ReportedIsNat DEF SettleUnsettled
  <2>2. ended' \in Nat /\ faults' \in 0..MaxFaults
    BY <1>12, <2>1, FaultCounts DEF SettleUnsettled, TypeOK
  <2>3. "blocked" \in Dispositions
    BY DEF Dispositions
  <2>4. snapshot' \in [disp : Dispositions, usage : Nat, seen : SUBSET Nat]
    BY <1>12, <2>1, <2>3, SaveTyped DEF SettleUnsettled
  <2> QED BY <1>12, <2>2, <2>4, LeaveTyped DEF SettleUnsettled, TypeOK
<1>13. ASSUME NEW disp \in Dispositions, Reconcile(disp)
       PROVE  TypeOK'
  <2>1. result.usage \in Nat
    BY DEF TypeOK, NoResult
  <2>2. /\ result' \in [disp : Dispositions, usage : Nat]
        /\ snapshot' \in [disp : Dispositions, usage : Nat, seen : SUBSET Nat]
    BY <1>13, <2>1, SaveTyped DEF Reconcile, Save
  <2> QED BY <1>13, <2>2 DEF Reconcile, TypeOK
<1>14. CASE Crash
  <2>1. crashes' \in 0..MaxCrashes
    BY <1>14, FaultsAssumption DEF Crash, TypeOK
  <2>2. /\ highest' \in {0} \cup Stages /\ aborted' \in BOOLEAN
        /\ tail' = <<>> /\ result' \in {NoResult}
    BY <1>14 DEF Crash
  <2>3. <<>> \in Seq(Jobs)
    OBVIOUS
  <2> QED BY <1>14, <2>1, <2>2, <2>3 DEF Crash, TypeOK
<1>15. CASE Recover
  <2>1. mine' \in Nat
    BY <1>15 DEF Recover, TypeOK
  <2>2. CASE plans = <<>>
    BY <1>15, <2>1, <2>2 DEF Recover, TypeOK
  <2>3. CASE plans # <<>> /\ Covered(mine')
    <3>1. result' \in [disp : Dispositions, usage : Nat]
      BY <1>15, <2>3, SaveTyped DEF Recover, Covered, TypeOK
    <3> QED BY <1>15, <2>1, <2>3, <3>1 DEF Recover, TypeOK
  <2>4. CASE plans # <<>> /\ ~Covered(mine')
    <3>1. checkpoint[mine'] \in Nat
      BY <1>15, <2>4, LatestIsAttempt DEF Recover, Latest, TypeOK
    <3>2. "blocked" \in Dispositions
      BY DEF Dispositions
    <3>3. /\ result' \in [disp : Dispositions, usage : Nat]
          /\ snapshot' \in [disp : Dispositions, usage : Nat, seen : SUBSET Nat]
      BY <1>15, <2>4, <3>1, <3>2, SaveTyped DEF Recover, Save
    <3> QED BY <1>15, <2>1, <3>3 DEF Recover, TypeOK
  <2> QED BY <2>2, <2>3, <2>4
<1>16. CASE UNCHANGED vars
  BY <1>16 DEF vars, TypeOK
<1> QED
  BY <1>1, <1>2, <1>3, <1>4, <1>5, <1>6, <1>7, <1>8, <1>9, <1>10, <1>11, <1>12,
     <1>13, <1>14, <1>15, <1>16 DEF Next, Attempting, Ending

------------------------------------------------------------------------------
(* The steps that touch what an attempt has spent, one by one.             *)

\* the steps that leave plans, usage and results alone
Quiet == FailStart \/ Abort \/ Stop \/ (\E s \in Clocks : Timer(s)) \/ UNCHANGED vars

LEMMA LineageStep ==
  ASSUME Inv, [Next]_vars
  PROVE  Lineage'
<1> USE DEF durable, truth, seat, steering, bounds, Latest, Executing, InSession
<1>0. plans # <<>> => Latest \in Attempts /\ plans[Latest] \in Plan
  BY LatestIsAttempt DEF Inv
<1>1. CASE Launch
  <2>1. /\ Len(plans') = 1 /\ plans' # <<>>
        /\ plans'[1].retries = Retries /\ plans'[1].resumes = Resumes
    BY <1>1 DEF Launch
  <2>2. mine = 0 /\ started = {} /\ phase' = "prepared" /\ UNCHANGED <<mine, started>>
    BY <1>1 DEF Launch, Inv, TypeOK, Lineage
  <2> QED BY <2>1, <2>2, CountsAssumption DEF Lineage, MaxAttempts
<1>2. ASSUME NEW kind \in {"retry", "resume", "handoff"}, Relaunch(kind)
      PROVE  Lineage'
  <2>1. mine = Latest /\ plans # <<>> /\ plans \in Seq(Plan)
    BY <1>2 DEF Relaunch, Inv, Lineage, TypeOK
  <2>2. /\ plans[Latest].retries \in Nat /\ plans[Latest].resumes \in Nat
        /\ plans[Latest].retries + plans[Latest].resumes + Latest = MaxAttempts
    BY <1>0, <2>1 DEF Plan, Inv, Lineage
  <2>3. plans' # <<>> /\ Len(plans') = Latest + 1
    BY <1>2, <2>1 DEF Relaunch
  <2>4. UNCHANGED <<mine, started>> /\ phase' = "prepared"
    BY <1>2 DEF Relaunch
  <2>5. LET next == plans'[Len(plans')] IN
        \/ /\ next.retries = plans[Latest].retries - 1
           /\ next.resumes = plans[Latest].resumes
        \/ /\ next.retries = plans[Latest].retries
           /\ next.resumes = plans[Latest].resumes - 1
    BY <1>2, <2>1 DEF Relaunch
  <2>6. plans'[Len(plans')].retries + plans'[Len(plans')].resumes + Len(plans')
          = MaxAttempts
    <3>1. Latest \in Nat /\ MaxAttempts \in Nat
      BY CountsAssumption DEF MaxAttempts, Inv, TypeOK
    <3>2. CASE /\ plans'[Len(plans')].retries = plans[Latest].retries - 1
               /\ plans'[Len(plans')].resumes = plans[Latest].resumes
      BY <2>2, <2>3, <3>1, <3>2
    <3>3. CASE /\ plans'[Len(plans')].retries = plans[Latest].retries
               /\ plans'[Len(plans')].resumes = plans[Latest].resumes - 1
      BY <2>2, <2>3, <3>1, <3>3
    <3> QED BY <2>5, <3>2, <3>3
  <2> QED BY <2>1, <2>3, <2>4, <2>6 DEF Inv, Lineage, TypeOK
<1>3. CASE Begin
  <2>1. plans # <<>> /\ Latest \in Nat /\ Latest >= 1
    BY <1>3, LatestIsAttempt DEF Begin, Inv, Lineage
  <2>2. started' \subseteq started \cup {Latest}
    BY <1>3 DEF Begin
  <2>3. started' \subseteq 1..Latest
    BY <2>1, <2>2 DEF Inv, Lineage
  <2> QED BY <1>3, <2>1, <2>3 DEF Begin, Inv, Lineage
<1>4. CASE OpenSession
  BY <1>4 DEF OpenSession, Inv, Lineage
<1>5. CASE Drain
  BY <1>5 DEF Drain, Inv, Lineage
<1>6. ASSUME NEW c \in 1..MaxTurn, Turn(c)
      PROVE  Lineage'
  BY <1>6 DEF Turn, Inv, Lineage
<1>7. CASE \/ \E disp \in Dispositions : Settle(disp) \/ Reconcile(disp)
           \/ Reject \/ SettleUnsettled
  BY <1>7 DEF Settle, Reconcile, Reject, SettleUnsettled, Leave, Over, Inv, Lineage
<1>8. CASE Crash
  BY <1>8 DEF Crash, Inv, Lineage, TypeOK
<1>9. CASE Recover
  BY <1>9 DEF Recover, Inv, Lineage, TypeOK
<1>10. CASE Quiet
  BY <1>10 DEF Quiet, FailStart, Abort, Stop, Timer, vars, Inv, Lineage, Unspent
<1> QED
  BY <1>1, <1>2, <1>3, <1>4, <1>5, <1>6, <1>7, <1>8, <1>9, <1>10
     DEF Next, Attempting, Ending, Quiet

(* Only Drain writes a checkpoint: one of the latest attempt, of its own    *)
(* usage so far.                                                           *)
LEMMA DrainedCheckpoint ==
  ASSUME Inv, Drain
  PROVE  /\ InSession /\ mine = Latest /\ Latest \in Attempts
         /\ \/ UNCHANGED checkpoint
            \/ \E usage \in Nat :
                 /\ usage <= session - baseline
                 /\ checkpoint' = [checkpoint EXCEPT ![Latest] = usage]
<1>1. tail # <<>> /\ tail \in Seq(Jobs) /\ InSession
  BY DEF Drain, Inv, TypeOK, Counting
<1>2. mine = Latest /\ Latest \in Attempts
  BY <1>1, LatestIsAttempt DEF Inv, Lineage, Executing, InSession
<1>3. Head(tail) = tail[1] /\ 1 \in DOMAIN tail /\ tail[1] \in Jobs
  BY <1>1
<1>4. \/ UNCHANGED checkpoint
      \/ /\ tail[1].type = "checkpoint"
         /\ checkpoint' = [checkpoint EXCEPT ![Latest] = tail[1].usage]
  BY <1>2, <1>3 DEF Drain
<1>5. tail[1].type = "checkpoint" =>
        tail[1].usage \in Nat /\ tail[1].usage <= session - baseline
  BY <1>3 DEF Inv, Counting, Jobs
<1> QED BY <1>1, <1>2, <1>4, <1>5

LEMMA UnspentStep ==
  ASSUME Inv, [Next]_vars
  PROVE  Unspent'
<1> USE DEF durable, truth, seat, steering, bounds, Latest
<1>0. plans # <<>> => Latest \in Attempts
  BY LatestIsAttempt DEF Inv
<1>1. CASE Launch
  BY <1>1 DEF Launch, Inv, Lineage, Unspent
<1>2. ASSUME NEW kind \in {"retry", "resume", "handoff"}, Relaunch(kind)
      PROVE  Unspent'
  <2>1. Len(plans') = Latest + 1 /\ Latest \in Nat
    BY <1>2 DEF Relaunch, Inv, TypeOK
  <2> QED BY <1>2, <2>1 DEF Relaunch, Inv, Lineage, Unspent
<1>3. CASE Begin
  BY <1>0, <1>3 DEF Begin, Inv, Lineage, Unspent
<1>4. CASE Drain
  <2>1. InSession /\ Latest \in started
    BY <1>4, DrainedCheckpoint DEF Inv, Lineage
  <2>2. \A n \in Attempts : n # Latest => checkpoint'[n] = checkpoint[n]
    BY <1>4, DrainedCheckpoint DEF Inv, TypeOK
  <2> QED BY <1>4, <2>1, <2>2 DEF Drain, InSession, Inv, Unspent
<1>5. CASE OpenSession
  BY <1>5 DEF OpenSession, Inv, Unspent
<1>6. ASSUME NEW c \in 1..MaxTurn, Turn(c)
      PROVE  Unspent'
  BY <1>6 DEF Turn, Inv, Unspent
<1>7. CASE \/ \E disp \in Dispositions : Settle(disp) \/ Reconcile(disp)
           \/ Reject \/ SettleUnsettled
  BY <1>7 DEF Settle, Reconcile, Reject, SettleUnsettled, Leave, Inv, Unspent
<1>8. CASE Crash \/ Recover
  BY <1>8 DEF Crash, Recover, Inv, Unspent
<1>9. CASE Quiet
  BY <1>9 DEF Quiet, FailStart, Abort, Stop, Timer, vars, Inv, Unspent
<1> QED
  BY <1>1, <1>2, <1>3, <1>4, <1>5, <1>6, <1>7, <1>8, <1>9
     DEF Next, Attempting, Ending, Quiet

LEMMA CountingStep ==
  ASSUME Inv, [Next]_vars
  PROVE  Counting'
<1> USE DEF durable, truth, seat, steering, bounds, Latest, InSession
<1>0. plans # <<>> => Latest \in Attempts
  BY LatestIsAttempt DEF Inv
<1>1. CASE OpenSession
  BY <1>0, <1>1
     DEF OpenSession, Inv, TypeOK, Lineage, Unspent, Counting, Executing
<1>2. ASSUME NEW c \in 1..MaxTurn, Turn(c)
      PROVE  Counting'
  <2>1. /\ mine = Latest /\ Latest \in Attempts /\ c \in Nat
        /\ session' = session + c /\ spent'[Latest] = spent[Latest] + c
    BY <1>0, <1>2, TurnsAssumption DEF Turn, Inv, TypeOK, Lineage, Executing
  <2>2. /\ baseline' <= session' /\ checkpoint'[Latest] <= session' - baseline'
        /\ session' - baseline' <= spent'[Latest]
    <3>1. /\ session \in Nat /\ baseline \in Nat /\ spent[Latest] \in Nat
          /\ checkpoint[Latest] \in Nat /\ UNCHANGED <<baseline, checkpoint>>
      BY <1>2, <2>1 DEF Turn, Inv, TypeOK
    <3>2. /\ baseline <= session /\ checkpoint[Latest] <= session - baseline
          /\ session - baseline <= spent[Latest] /\ UNCHANGED plans
      BY <1>2 DEF Turn, Inv, Counting
    <3> QED BY <2>1, <3>1, <3>2
  <2>a. OwnUsage + c = session' - baseline' /\ OwnUsage + c \in Nat
    BY <1>2, <2>1, <2>2 DEF Turn, OwnUsage, Inv, TypeOK
  <2> DEFINE job == <<[type |-> "checkpoint", usage |-> OwnUsage + c]>>
             stages == StageJobs(Reached(OwnUsage + c))
  <2>3. /\ stages \in Seq(Jobs)
        /\ \A i \in DOMAIN stages : stages[i].type = "stage"
    BY StageJobsAreStages
  <2>4. tail' = tail \/ tail' = (tail \o job) \o stages
    BY <1>2 DEF Turn
  <2> HIDE DEF stages
  <2>5. tail \in Seq(Jobs) /\ Len(job) = 1 /\ job[1].usage = OwnUsage + c
        /\ job \in Seq(Jobs)
    BY <2>a DEF Inv, TypeOK, Jobs
  <2> HIDE DEF job
  <2>6. \A i \in DOMAIN tail : tail[i].type = "checkpoint" =>
                                 tail[i].usage <= session' - baseline'
    <3>1. SUFFICES ASSUME NEW i \in DOMAIN tail, tail[i].type = "checkpoint"
                   PROVE  tail[i].usage <= session' - baseline'
      OBVIOUS
    <3>2. tail[i] \in Jobs /\ tail[i].usage <= session - baseline
      BY <2>5, <3>1 DEF Inv, Counting
    <3>3. tail[i].usage \in Nat
      BY <3>1, <3>2 DEF Jobs
    <3> QED BY <1>2, <2>1, <3>2, <3>3 DEF Turn, Inv, TypeOK
  <2>8. ASSUME NEW i \in DOMAIN tail', tail'[i].type = "checkpoint",
               tail' = (tail \o job) \o stages
        PROVE  tail'[i].usage <= session' - baseline'
    <3> DEFINE front == tail \o job
    <3>1. front \in Seq(Jobs) /\ \A k \in DOMAIN front :
             (k \in DOMAIN tail /\ front[k] = tail[k]) \/ front[k] = job[1]
      BY <2>5, QueueMembers
    <3> HIDE DEF front
    <3>2. \/ i \in DOMAIN front /\ tail'[i] = front[i]
          \/ \E j \in DOMAIN stages : tail'[i] = stages[j]
      BY <2>3, <2>8, <3>1, QueueMembers DEF front
    <3>3. tail'[i] = job[1] \/ (i \in DOMAIN tail /\ tail'[i] = tail[i])
      BY <2>3, <2>8, <3>1, <3>2
    <3> QED BY <2>5, <2>6, <2>8, <2>a, <2>2, <3>3
  <2>9. /\ \A i \in DOMAIN tail' :
             tail'[i].type = "checkpoint" => tail'[i].usage <= session' - baseline'
        /\ InSession' /\ UNCHANGED plans
    BY <1>2, <2>4, <2>6, <2>8 DEF Turn
  <2> QED BY <2>2, <2>9 DEF Counting
<1>3. ASSUME NEW s \in Clocks, Timer(s)
      PROVE  Counting'
  <2> DEFINE stages == StageJobs({s})
  <2>1. /\ stages \in Seq(Jobs)
        /\ \A i \in DOMAIN stages : stages[i].type = "stage"
    BY StageJobsAreStages
  <2>2. tail' = tail \o stages /\ tail \in Seq(Jobs)
    BY <1>3 DEF Timer, Inv, TypeOK
  <2> HIDE DEF stages
  <2>3. ASSUME NEW i \in DOMAIN tail', tail'[i].type = "checkpoint"
        PROVE  i \in DOMAIN tail /\ tail'[i] = tail[i]
    BY <2>1, <2>2, <2>3, QueueMembers
  <2> QED BY <1>3, <2>3 DEF Timer, Inv, Counting
<1>4. CASE Drain
  <2>1. checkpoint'[Latest] <= session - baseline
    BY <1>4, DrainedCheckpoint DEF Inv, TypeOK, Counting
  <2>2. ASSUME NEW i \in DOMAIN tail'
        PROVE  i + 1 \in DOMAIN tail /\ tail'[i] = tail[i + 1]
    BY <1>4, <2>2 DEF Drain, Inv, TypeOK
  <2>3. InSession' /\ UNCHANGED <<plans, session, baseline, spent>> /\ InSession
    BY <1>4, DrainedCheckpoint DEF Drain
  <2> QED BY <2>1, <2>2, <2>3 DEF Inv, Counting
<1>5. CASE Launch \/ Begin \/ Crash \/ Recover
  BY <1>5 DEF Launch, Begin, Crash, Recover, Inv, Counting
<1>6. ASSUME NEW kind \in {"retry", "resume", "handoff"}, Relaunch(kind)
      PROVE  Counting'
  BY <1>6 DEF Relaunch, Inv, Counting
<1>7. CASE \/ \E disp \in Dispositions : Settle(disp) \/ Reconcile(disp)
           \/ Reject \/ SettleUnsettled
  BY <1>7 DEF Settle, Reconcile, Reject, SettleUnsettled, Leave, Inv, Counting
<1>8. CASE FailStart \/ Abort \/ Stop \/ UNCHANGED vars
  BY <1>8 DEF FailStart, Abort, Stop, vars, Inv, Counting
<1> QED
  BY <1>1, <1>2, <1>3, <1>4, <1>5, <1>6, <1>7, <1>8 DEF Next, Attempting, Ending

\* where the two bounds on a recovered or remembered result come from
LEMMA RememberedStep ==
  ASSUME Inv, [Next]_vars
  PROVE  Remembered'
<1> USE DEF durable, truth, seat, steering, bounds, Latest
<1>0. plans # <<>> => Latest \in Attempts
  BY LatestIsAttempt DEF Inv
<1>1. CASE Launch
  BY <1>1 DEF Launch, Inv, Remembered
<1>2. ASSUME NEW kind \in {"retry", "resume", "handoff"}, Relaunch(kind)
      PROVE  Remembered'
  BY <1>2 DEF Relaunch, Inv, Remembered
<1>3. CASE Drain
  <2>1. InSession /\ Latest \in Attempts /\ UNCHANGED <<plans, phase, spent>>
    BY <1>3, DrainedCheckpoint DEF Drain
  <2>2. session - baseline <= spent[Latest] /\ session - baseline \in Nat
    BY <2>1 DEF Inv, TypeOK, Counting, InSession
  <2>3. checkpoint'[Latest] <= spent[Latest]
    <3>1. CASE UNCHANGED checkpoint
      BY <2>1, <3>1 DEF Inv, Remembered
    <3>2. ASSUME NEW usage \in Nat, usage <= session - baseline,
                 checkpoint' = [checkpoint EXCEPT ![Latest] = usage]
          PROVE  checkpoint'[Latest] <= spent[Latest]
      <4>1. checkpoint'[Latest] = usage /\ spent[Latest] \in Nat
        BY <2>1, <3>2 DEF Inv, TypeOK
      <4> QED BY <2>2, <3>2, <4>1
    <3> QED BY <1>3, <3>1, <3>2, DrainedCheckpoint
  <2>4. \A n \in Attempts : n # Latest => checkpoint'[n] = checkpoint[n]
    BY <1>3, DrainedCheckpoint DEF Inv, TypeOK
  <2>5. \A n \in Attempts : checkpoint'[n] <= spent'[n]
    BY <2>1, <2>3, <2>4 DEF Inv, Remembered
  <2> QED BY <2>1, <2>5 DEF InSession, Remembered
<1>4. ASSUME NEW c \in 1..MaxTurn, Turn(c)
      PROVE  Remembered'
  <2>1. c \in Nat /\ UNCHANGED <<plans, phase, checkpoint>>
    BY <1>4, TurnsAssumption DEF Turn
  <2>2. ASSUME NEW n \in Attempts
        PROVE  checkpoint'[n] <= spent'[n]
    <3>1. spent'[n] \in {spent[n], spent[n] + c}
      BY <1>4 DEF Turn, Inv, TypeOK
    <3>2. checkpoint[n] <= spent[n] /\ checkpoint[n] \in Nat /\ spent[n] \in Nat
      BY DEF Inv, TypeOK, Remembered
    <3> QED BY <2>1, <3>1, <3>2
  <2> QED BY <1>4, <2>1, <2>2 DEF Turn, Remembered
<1>5. ASSUME Over, Leave, NEW disp, result' = Result(disp, Reported)
      PROVE  Remembered'
  <2>1. /\ plans # <<>> /\ UNCHANGED <<plans, started, checkpoint, spent>>
        /\ result'.usage = Reported
    BY <1>5 DEF Over, Leave, Inv, Lineage, Executing, Result
  <2>2. CASE phase = "begun"
    BY <1>0, <2>1, <2>2
       DEF Reported, Inv, TypeOK, Unspent, Remembered
  <2>3. CASE phase = "stopped"
    BY <1>0, <2>1, <2>3
       DEF Reported, OwnUsage, Inv, Counting, InSession, Remembered
  <2> QED BY <1>5, <2>2, <2>3 DEF Over
<1>6. ASSUME NEW disp \in Dispositions, Reconcile(disp)
      PROVE  Remembered'
  <2>1. /\ UNCHANGED <<plans, started, checkpoint, spent, mine, phase>>
        /\ result'.usage = result.usage /\ phase = "idle" /\ mine > 0
    BY <1>6 DEF Reconcile, Result
  <2>2. CASE result # NoResult
    BY <2>1, <2>2 DEF Inv, Remembered
  <2>3. CASE result = NoResult
    <3>1. (mine = Latest => Latest \in Unsettled) /\ result.usage = 0
      BY <1>6, <2>3 DEF Reconcile, Inv, Settled, NoResult
    <3>2. plans # <<>> => spent[Latest] \in Nat
      BY <1>0 DEF Inv, TypeOK
    <3> QED BY <2>1, <3>1, <3>2 DEF Inv, Lineage, Remembered
  <2> QED BY <2>2, <2>3
<1>7. CASE Recover
  <2>1. UNCHANGED <<plans, started, checkpoint, spent>> /\ mine' = Latest
    BY <1>7 DEF Recover
  <2>2. CASE plans = <<>>
    BY <1>7, <2>1, <2>2 DEF Recover, Inv, Lineage, Remembered
  <2>3. CASE plans # <<>> /\ Covered(mine')
    <3>1. result'.usage = snapshot.usage /\ snapshot.usage \in Nat
      BY <1>7, <2>3 DEF Recover, Covered, Result, Inv, TypeOK
    <3>2. CASE Latest \in started
      BY <2>1, <2>3, <3>1, <3>2 DEF Covered, Inv, Saved, Remembered
    <3>3. CASE Latest \notin started
      <4>1. checkpoint[Latest] = 0
        BY <1>0, <2>3, <3>3 DEF Inv, Unspent
      <4> QED BY <2>1, <3>1, <3>3, <4>1 DEF Inv, Remembered
    <3> QED BY <3>2, <3>3
  <2>4. CASE plans # <<>> /\ ~Covered(mine')
    <3>1. result'.usage = checkpoint[Latest] /\ checkpoint[Latest] \in Nat
      BY <1>0, <1>7, <2>1, <2>4 DEF Recover, Result, Inv, TypeOK
    <3> QED BY <1>0, <2>1, <2>4, <3>1 DEF Inv, Remembered
  <2> QED BY <2>2, <2>3, <2>4
<1>8. CASE Begin \/ OpenSession \/ Abort \/ Stop \/ Crash \/ UNCHANGED vars
  BY <1>8 DEF Begin, OpenSession, Abort, Stop, Crash, vars, Inv, Remembered
<1>9. CASE FailStart
  <2>1. checkpoint[Latest] = 0 /\ Latest \notin started
    BY <1>0, <1>9 DEF FailStart, Inv, Lineage, Unspent
  <2>2. result # NoResult => result.usage \in Nat
    BY DEF Inv, TypeOK
  <2> QED BY <1>9, <2>1, <2>2 DEF FailStart, Inv, Remembered
<1>10. ASSUME NEW s \in Clocks, Timer(s)
       PROVE  Remembered'
  BY <1>10 DEF Timer, Inv, Remembered
<1>11. CASE Reject \/ SettleUnsettled
  BY <1>11 DEF Reject, SettleUnsettled, Leave, Inv, Remembered
<1> QED
  BY <1>1, <1>2, <1>3, <1>4, <1>5, <1>6, <1>7, <1>8, <1>9, <1>10, <1>11
     DEF Next, Attempting, Ending, Settle

LEMMA SavedStep ==
  ASSUME Inv, [Next]_vars
  PROVE  Saved'
<1> USE DEF durable, truth, seat, steering, bounds, Latest, Executing
<1>0. plans # <<>> => Latest \in Attempts
  BY LatestIsAttempt DEF Inv
<1>1. CASE Launch
  BY <1>1 DEF Launch, NoSnapshot, Inv, Lineage, Saved
<1>2. ASSUME NEW kind \in {"retry", "resume", "handoff"}, Relaunch(kind)
      PROVE  Saved'
  <2>1. Len(plans') = Latest + 1 /\ Latest \in Nat
    BY <1>2 DEF Relaunch, Inv, TypeOK
  <2> QED BY <1>2, <2>1 DEF Relaunch, Inv, Lineage, Saved
<1>3. CASE Begin
  BY <1>3 DEF Begin, Inv, Saved
<1>4. CASE Drain
  <2>1. InSession /\ UNCHANGED <<plans, phase, snapshot, started, spent>>
    BY <1>4, DrainedCheckpoint DEF Drain
  <2> QED BY <2>1 DEF InSession, Inv, Saved
<1>5. ASSUME NEW c \in 1..MaxTurn, Turn(c)
      PROVE  Saved'
  BY <1>5 DEF Turn, Inv, Saved
<1>6. ASSUME Over, Leave, NEW disp, snapshot' = Save(Result(disp, Reported))
      PROVE  Saved'
  <2>1. /\ plans # <<>> /\ UNCHANGED <<plans, started, checkpoint, spent>>
        /\ snapshot'.usage = Reported /\ snapshot'.seen = started /\ phase' = "idle"
    BY <1>6 DEF Over, Leave, Inv, Lineage, Result, Save
  <2>2. CASE phase = "begun"
    BY <1>0, <2>1, <2>2 DEF Reported, Inv, TypeOK, Unspent, Saved
  <2>3. CASE phase = "stopped"
    BY <1>0, <2>1, <2>3
       DEF Reported, OwnUsage, Inv, Counting, InSession, Saved
  <2> QED BY <1>6, <2>2, <2>3 DEF Over
<1>7. ASSUME NEW disp \in Dispositions, Reconcile(disp)
      PROVE  Saved'
  <2>1. /\ UNCHANGED <<plans, started, checkpoint, spent, mine, phase>>
        /\ snapshot'.usage = result.usage /\ snapshot'.seen = started
        /\ phase = "idle" /\ mine > 0
    BY <1>7 DEF Reconcile, Result, Save
  <2>2. CASE mine # Latest
    BY <2>1, <2>2 DEF Inv, Lineage, Saved
  <2>3. CASE mine = Latest /\ result # NoResult
    BY <2>1, <2>3 DEF Inv, Remembered, Saved
  <2>4. CASE mine = Latest /\ result = NoResult
    <3>1. Latest \in Unsettled /\ result.usage = 0
      BY <1>7, <2>4 DEF Reconcile, Inv, Settled, NoResult
    <3>2. plans # <<>> => spent[Latest] \in Nat
      BY <1>0 DEF Inv, TypeOK
    <3>3. plans # <<>>
      BY <2>1, <2>4 DEF Inv, TypeOK
    <3> QED BY <2>1, <3>1, <3>2, <3>3 DEF Saved
  <2> QED BY <2>2, <2>3, <2>4
<1>8. CASE Recover
  <2>1. UNCHANGED <<plans, started, checkpoint, spent>> /\ mine' = Latest
        /\ phase' = "idle"
    BY <1>8 DEF Recover
  <2>2. CASE UNCHANGED snapshot
    BY <2>1, <2>2 DEF Inv, Saved
  <2>3. CASE plans # <<>> /\ ~Covered(mine')
    <3>1. /\ snapshot'.usage = checkpoint[Latest] /\ snapshot'.seen = started
      BY <1>8, <2>1, <2>3 DEF Recover, Result, Save
    <3>2. checkpoint[Latest] <= spent[Latest] /\ checkpoint[Latest] \in Nat
      BY <1>0, <2>3 DEF Inv, TypeOK, Remembered
    <3> QED BY <2>1, <3>1, <3>2 DEF Saved
  <2> QED BY <1>8, <2>2, <2>3 DEF Recover
<1>9. CASE FailStart \/ OpenSession \/ Abort \/ Stop \/ Crash \/ UNCHANGED vars
  BY <1>9 DEF FailStart, OpenSession, Abort, Stop, Crash, vars, Inv, Saved
<1>10. ASSUME NEW s \in Clocks, Timer(s)
       PROVE  Saved'
  BY <1>10 DEF Timer, Inv, Saved
<1>11. CASE Reject
  BY <1>11 DEF Reject, Leave, Inv, Saved
<1> QED
  BY <1>1, <1>2, <1>3, <1>4, <1>5, <1>6, <1>7, <1>8, <1>9, <1>10, <1>11
     DEF Next, Attempting, Ending, Settle, SettleUnsettled

LEMMA SettledStep ==
  ASSUME Inv, [Next]_vars
  PROVE  Settled'
<1> USE DEF durable, truth, seat, steering, bounds, Latest, Executing
<1>1. CASE Launch
  BY <1>1 DEF Launch, Inv, Lineage, Settled
<1>2. ASSUME NEW kind \in {"retry", "resume", "handoff"}, Relaunch(kind)
      PROVE  Settled'
  BY <1>2 DEF Relaunch, Settled
<1>3. ASSUME Leave, NEW disp \in Dispositions, result' = Result(disp, Reported)
      PROVE  Settled'
  BY <1>3 DEF Leave, Result, NoResult, Settled
<1>4. CASE Reject
  BY <1>4 DEF Reject, Leave, Over, Inv, Settled
<1>5. CASE SettleUnsettled
  BY <1>5 DEF SettleUnsettled, Leave, Over, Inv, Lineage, Settled
<1>6. ASSUME NEW disp \in Dispositions, Reconcile(disp)
      PROVE  Settled'
  BY <1>6 DEF Reconcile, Result, NoResult, Settled
<1>7. CASE Crash
  BY <1>7 DEF Crash, Settled
<1>8. CASE Recover
  <2>1. CASE plans = <<>>
    BY <1>8, <2>1 DEF Recover, Inv, Lineage, Settled
  <2>2. CASE plans # <<>>
    <3>a. PICK disp, usage : result' = Result(disp, usage)
      BY <1>8, <2>2 DEF Recover
    <3>1. result' # NoResult /\ phase' = "idle"
      BY <1>8, <3>a DEF Recover, Result, NoResult
    <3> QED BY <3>1 DEF Settled
  <2> QED BY <2>1, <2>2
<1>9. CASE Begin \/ OpenSession \/ Drain
  BY <1>9 DEF Begin, OpenSession, Drain, Inv, Settled
<1>10. ASSUME NEW c \in 1..MaxTurn, Turn(c)
       PROVE  Settled'
  BY <1>10 DEF Turn, Inv, Settled
<1>11. CASE Quiet
  BY <1>11 DEF Quiet, FailStart, Abort, Stop, Timer, vars, Inv, Settled
<1> QED
  BY <1>1, <1>2, <1>3, <1>4, <1>5, <1>6, <1>7, <1>8, <1>9, <1>10, <1>11
     DEF Next, Attempting, Ending, Settle, Quiet

------------------------------------------------------------------------------
(* The properties.                                                         *)

\* the step that writes a plan writes what Remembered allows
LEMMA PlansStep ==
  ASSUME Inv, [Next]_vars
  PROVE  SettledAttemptsPay' /\ ChargedForItsOwn'
<1> USE DEF durable, truth, seat, steering, bounds, Latest
<1>0. plans # <<>> => Latest \in Attempts /\ plans[Latest] \in Plan
  BY LatestIsAttempt DEF Inv
<1>1. CASE Launch
  BY <1>1 DEF Launch, SettledAttemptsPay, ChargedForItsOwn
<1>2. ASSUME NEW kind \in {"retry", "resume", "handoff"}, Relaunch(kind)
      PROVE  SettledAttemptsPay' /\ ChargedForItsOwn'
  <2>1. /\ mine = Latest /\ plans # <<>> /\ plans \in Seq(Plan)
        /\ phase = "idle" /\ result # NoResult
        /\ UNCHANGED <<checkpoint, started, spent>>
    BY <1>2 DEF Relaunch, Inv, Lineage, TypeOK
  <2>2. /\ Len(plans') = Latest + 1 /\ Latest \in Nat
        /\ \A n \in 1..Latest : plans'[n] = plans[n]
        /\ plans'[Latest + 1].limit = plans[Latest].limit - result.usage
    BY <1>2, <2>1 DEF Relaunch, Remainder
  <2>3. /\ plans[Latest].limit \in Nat /\ result.usage \in Nat
        /\ checkpoint[Latest] \in Nat /\ spent[Latest] \in Nat
    BY <1>0, <2>1 DEF Plan, Inv, TypeOK
  <2>4. SettledAttemptsPay'
    <3>1. SUFFICES ASSUME NEW n \in 2..(Latest + 1), n - 1 \notin Unsettled
                   PROVE  plans'[n].limit <= plans'[n - 1].limit - checkpoint[n - 1]
      BY <2>1, <2>2 DEF SettledAttemptsPay
    <3>2. CASE n = Latest + 1
      <4>1. Latest \notin Unsettled
        BY <2>2, <3>1, <3>2
      <4>a. checkpoint[Latest] <= result.usage
        BY <2>1, <4>1 DEF Inv, Remembered
      <4>2. Latest \in 1..Latest
        BY <1>0, <2>1, <2>2 DEF Attempts
      <4> HIDE DEF Latest
      <4> QED BY <2>2, <2>3, <3>2, <4>a, <4>2
    <3>3. CASE n # Latest + 1
      BY <2>2, <3>1, <3>3 DEF Inv, SettledAttemptsPay
    <3> QED BY <3>2, <3>3
  <2>5. ChargedForItsOwn'
    <3>1. SUFFICES ASSUME NEW n \in 2..(Latest + 1), n - 1 \in started
                   PROVE  plans'[n].limit >= plans'[n - 1].limit - spent[n - 1]
      BY <2>1, <2>2 DEF ChargedForItsOwn
    <3>2. CASE n = Latest + 1
      <4>1. result.usage <= spent[Latest]
        BY <2>1, <2>2, <3>1, <3>2 DEF Inv, Remembered
      <4>2. Latest \in 1..Latest
        BY <1>0, <2>1, <2>2 DEF Attempts
      <4> HIDE DEF Latest
      <4> QED BY <2>2, <2>3, <3>2, <4>1, <4>2
    <3>3. CASE n # Latest + 1
      BY <2>2, <3>1, <3>3 DEF Inv, ChargedForItsOwn
    <3> QED BY <3>2, <3>3
  <2> QED BY <2>4, <2>5
<1>3. CASE Begin
  <2>1. UNCHANGED <<plans, checkpoint, spent>> /\ started' \subseteq started \cup {Latest}
    BY <1>3 DEF Begin
  <2>2. \A n \in 2..Latest : n - 1 # Latest
    BY DEF Inv, TypeOK
  <2> QED BY <2>1, <2>2 DEF Inv, SettledAttemptsPay, ChargedForItsOwn
<1>4. CASE Drain
  <2>1. UNCHANGED <<plans, started, spent>>
    BY <1>4 DEF Drain
  <2>2. \A n \in 2..Latest : checkpoint'[n - 1] = checkpoint[n - 1]
    <3>1. SUFFICES ASSUME NEW n \in 2..Latest PROVE checkpoint'[n - 1] = checkpoint[n - 1]
      OBVIOUS
    <3>2. n - 1 # Latest
      BY <3>1 DEF Inv, TypeOK
    <3>3. \/ UNCHANGED checkpoint
          \/ \E usage \in Nat : checkpoint' = [checkpoint EXCEPT ![Latest] = usage]
      BY <1>4, DrainedCheckpoint
    <3>a. plans # <<>> /\ Latest \in Nat /\ MaxAttempts \in Nat
      BY <3>1, CountsAssumption DEF Inv, TypeOK, MaxAttempts
    <3>4. n - 1 \in Attempts
      BY <1>0, <3>1, <3>a DEF Attempts
    <3> QED BY <3>2, <3>3, <3>4 DEF Inv, TypeOK
  <2> QED BY <2>1, <2>2 DEF Inv, SettledAttemptsPay, ChargedForItsOwn
<1>5. ASSUME NEW c \in 1..MaxTurn, Turn(c)
      PROVE  SettledAttemptsPay' /\ ChargedForItsOwn'
  <2>1. UNCHANGED <<plans, started, checkpoint>> /\ mine = Latest
    BY <1>5 DEF Turn, Inv, Lineage, Executing
  <2>2. \A n \in 2..Latest : n - 1 # Latest
    BY DEF Inv, TypeOK
  <2>3. \A n \in 2..Latest : spent'[n - 1] = spent[n - 1]
    BY <1>5, <2>1, <2>2, <1>0 DEF Turn, Attempts, Inv, TypeOK
  <2> QED BY <2>1, <2>3 DEF Inv, SettledAttemptsPay, ChargedForItsOwn
<1>6. CASE OpenSession \/ Crash \/ Recover
  BY <1>6
     DEF OpenSession, Crash, Recover, Inv, SettledAttemptsPay, ChargedForItsOwn
<1>7. CASE \/ \E disp \in Dispositions : Settle(disp) \/ Reconcile(disp)
           \/ Reject \/ SettleUnsettled
  <2>1. UNCHANGED <<plans, checkpoint, spent, started>>
    BY <1>7 DEF Settle, Reconcile, Reject, SettleUnsettled, Leave
  <2> QED BY <2>1 DEF Inv, SettledAttemptsPay, ChargedForItsOwn
<1>8. CASE Quiet
  <2>1. UNCHANGED <<plans, checkpoint, spent, started>>
    BY <1>8 DEF Quiet, FailStart, Abort, Stop, Timer, vars
  <2> QED BY <2>1 DEF Inv, SettledAttemptsPay, ChargedForItsOwn
<1> QED
  BY <1>1, <1>2, <1>3, <1>4, <1>5, <1>6, <1>7, <1>8
     DEF Next, Attempting, Ending, Quiet

LEMMA InitInv ==
  Init => Inv
<1> SUFFICES ASSUME Init PROVE Inv
  OBVIOUS
<1>a. /\ checkpoint \in [Attempts -> Nat] /\ spent \in [Attempts -> Nat]
      /\ notices \in [Attempts -> Seq(Stages)] /\ sent \in [Attempts -> Seq(Stages)]
  BY DEF Init
<1>b. plans \in Seq(Plan) /\ tail \in Seq(Jobs) /\ started \subseteq Nat
  BY DEF Init
<1>c. faults \in 0..MaxFaults /\ crashes \in 0..MaxCrashes
  BY FaultsAssumption DEF Init
<1>1. TypeOK
  BY <1>a, <1>b, <1>c DEF Init, TypeOK
<1>2. Lineage /\ Unspent /\ Counting /\ Settled
  BY DEF Init, Lineage, Unspent, Counting, Settled, Latest, Executing, InSession,
         NoResult, NoSnapshot
<1>3. Remembered /\ Saved
  BY DEF Init, Remembered, Saved, Latest, Executing, NoResult, NoSnapshot
<1>4. SettledAttemptsPay /\ ChargedForItsOwn
  BY DEF Init, SettledAttemptsPay, ChargedForItsOwn
<1> QED BY <1>1, <1>2, <1>3, <1>4 DEF Inv

LEMMA StepInv ==
  Inv /\ [Next]_vars => Inv'
<1> SUFFICES ASSUME Inv, [Next]_vars PROVE Inv'
  OBVIOUS
<1>1. TypeOK'
  BY TypeStep DEF Inv
<1>2. Lineage' /\ Unspent' /\ Counting'
  BY LineageStep, UnspentStep, CountingStep
<1>3. Remembered' /\ Saved' /\ Settled'
  BY RememberedStep, SavedStep, SettledStep
<1>4. SettledAttemptsPay' /\ ChargedForItsOwn'
  BY PlansStep
<1> QED BY <1>1, <1>2, <1>3, <1>4 DEF Inv

LEMMA Invariant ==
  Spec => []Inv
<1>1. Init => Inv
  BY InitInv
<1>2. Inv /\ [Next]_vars => Inv'
  BY StepInv
<1> QED BY <1>1, <1>2, PTL DEF Spec

(* Every write of the plans, sessions, checkpoints and results keeps its   *)
(* type, for every limit, count and bound.                                 *)
THEOREM BudgetTyped ==
  Spec => []TypeOK
<1>1. Inv => TypeOK
  BY DEF Inv
<1> QED BY <1>1, Invariant, PTL

(* No retry or resume gets back what the attempt before it was known to    *)
(* have spent, whatever fails or dies, unless that attempt's settlement    *)
(* failed halfway.                                                         *)
THEOREM AttemptsPay ==
  Spec => []SettledAttemptsPay
<1>1. Inv => SettledAttemptsPay
  BY DEF Inv
<1> QED BY <1>1, Invariant, PTL

(* An attempt that started is charged at most what it spent itself.        *)
THEOREM AttemptsChargedForTheirOwn ==
  Spec => []ChargedForItsOwn
<1>1. Inv => ChargedForItsOwn
  BY DEF Inv
<1> QED BY <1>1, Invariant, PTL

------------------------------------------------------------------------------
(* The reminders.                                                          *)

\* the stages queued rise, and how they stand to one
Ascending(q) ==
  \A i, j \in DOMAIN q :
    i < j /\ q[i].type = "stage" /\ q[j].type = "stage" => q[i].stage < q[j].stage
AtMost(q, h) == \A i \in DOMAIN q : q[i].type = "stage" => q[i].stage <= h
Beyond(q, h) == \A i \in DOMAIN q : q[i].type = "stage" => q[i].stage > h

\* a stage is written before any weaker or equal one can follow it: the queue
\* lies between what is written and the highest
Reminding ==
  /\ \A n \in Attempts : n \notin started => notices[n] = <<>>
  /\ phase = "begun" => notices[Latest] = <<>>
  /\ Ascending(tail) /\ AtMost(tail, highest)
  /\ InSession => \A k \in DOMAIN notices[Latest] :
                    /\ notices[Latest][k] <= highest
                    /\ Beyond(tail, notices[Latest][k])

(* A queue put behind another rises where both do and the second starts    *)
(* above the first.                                                        *)
LEMMA QueuesRise ==
  ASSUME NEW a \in Seq(Jobs), NEW b \in Seq(Jobs), NEW h \in Nat,
         Ascending(a), AtMost(a, h), Ascending(b), Beyond(b, h)
  PROVE  Ascending(a \o b)
<1>1. /\ Len(a) \in Nat /\ Len(b) \in Nat /\ Len(a \o b) = Len(a) + Len(b)
      /\ DOMAIN a = 1..Len(a) /\ DOMAIN b = 1..Len(b)
      /\ DOMAIN (a \o b) = 1..(Len(a) + Len(b))
      /\ \A i \in 1..(Len(a) + Len(b)) :
           (a \o b)[i] = IF i <= Len(a) THEN a[i] ELSE b[i - Len(a)]
  BY ConcatProperties
<1>2. \A i \in DOMAIN a : a[i].type = "stage" => a[i].stage \in Nat
  BY DEF Jobs, Stages
<1>3. \A i \in DOMAIN b : b[i].type = "stage" => b[i].stage \in Nat
  BY DEF Jobs, Stages
<1> SUFFICES ASSUME NEW i \in 1..(Len(a) + Len(b)), NEW j \in 1..(Len(a) + Len(b)),
                    i < j, (a \o b)[i].type = "stage", (a \o b)[j].type = "stage"
             PROVE  (a \o b)[i].stage < (a \o b)[j].stage
  BY <1>1 DEF Ascending
<1>4. CASE j <= Len(a)
  <2>1. (a \o b)[i] = a[i] /\ (a \o b)[j] = a[j] /\ i \in DOMAIN a /\ j \in DOMAIN a
    BY <1>1, <1>4
  <2> QED BY <2>1 DEF Ascending
<1>5. CASE i <= Len(a) /\ j > Len(a)
  <2>1. /\ (a \o b)[i] = a[i] /\ (a \o b)[j] = b[j - Len(a)]
        /\ i \in DOMAIN a /\ j - Len(a) \in DOMAIN b
    BY <1>1, <1>5
  <2>2. a[i].stage <= h /\ b[j - Len(a)].stage > h
    BY <2>1 DEF AtMost, Beyond
  <2> QED BY <1>2, <1>3, <2>1, <2>2
<1>6. CASE i > Len(a)
  <2>1. /\ (a \o b)[i] = b[i - Len(a)] /\ (a \o b)[j] = b[j - Len(a)]
        /\ i - Len(a) \in DOMAIN b /\ j - Len(a) \in DOMAIN b
        /\ i - Len(a) < j - Len(a)
    BY <1>1, <1>6
  <2> QED BY <2>1 DEF Ascending
<1> QED BY <1>1, <1>4, <1>5, <1>6

(* The jobs of a set of stages rise, and are of these stages.              *)
LEMMA StageJobsRise ==
  ASSUME NEW S \in SUBSET Stages
  PROVE  /\ Ascending(StageJobs(S))
         /\ \A i \in DOMAIN StageJobs(S) : StageJobs(S)[i].stage \in S
<1> DEFINE A == IF 7 \in S THEN <<[type |-> "stage", stage |-> 7]>> ELSE <<>>
           B == IF 9 \in S THEN <<[type |-> "stage", stage |-> 9]>> ELSE <<>>
<1>1. A \in Seq(Jobs) /\ B \in Seq(Jobs)
  <2>1. /\ [type |-> "stage", stage |-> 7] \in Jobs
        /\ [type |-> "stage", stage |-> 9] \in Jobs
    BY DEF Jobs, Stages
  <2> QED BY <2>1
<1>2. /\ Ascending(A) /\ AtMost(A, 7)
      /\ \A i \in DOMAIN A : A[i].stage \in S
  BY DEF Ascending, AtMost
<1>3. /\ Ascending(B) /\ Beyond(B, 7)
      /\ \A i \in DOMAIN B : B[i].stage \in S
  BY DEF Ascending, Beyond
<1>4. StageJobs(S) = A \o B
  BY DEF StageJobs
<1> HIDE DEF A, B
<1>5. Ascending(A \o B)
  BY <1>1, <1>2, <1>3, QueuesRise
<1>6. \A i \in DOMAIN (A \o B) : (A \o B)[i].stage \in S
  BY <1>1, <1>2, <1>3, QueueMembers
<1> QED BY <1>4, <1>5, <1>6

(* Stages above the highest, queued behind the rest and remembered, keep   *)
(* the queue rising up to the highest (queueBudgetSteering).               *)
LEMMA QueuedAbove ==
  ASSUME NEW q \in Seq(Jobs), NEW S \in SUBSET Stages,
         highest \in Nat, \A s \in S : s > highest,
         Ascending(q), AtMost(q, highest)
  PROVE  /\ q \o StageJobs(S) \in Seq(Jobs)
         /\ Ascending(q \o StageJobs(S))
         /\ AtMost(q \o StageJobs(S), Remember(S))
         /\ highest <= Remember(S) /\ Remember(S) \in Nat
         /\ \A h \in Nat : h <= highest /\ Beyond(q, h) =>
              Beyond(q \o StageJobs(S), h)
<1> DEFINE b == StageJobs(S)
<1>1. /\ b \in Seq(Jobs) /\ Ascending(b)
      /\ \A i \in DOMAIN b : b[i].type = "stage" /\ b[i].stage \in S
  BY StageJobsAreStages, StageJobsRise
<1>2. highest <= Remember(S) /\ Remember(S) \in Nat /\ \A s \in S : s <= Remember(S)
  BY DEF Remember, Stages
<1> HIDE DEF b
<1>3. Beyond(b, highest)
  BY <1>1 DEF Beyond
<1>4. Ascending(q \o b)
  BY <1>1, <1>3, QueuesRise
<1>5. /\ q \o b \in Seq(Jobs)
      /\ \A i \in DOMAIN (q \o b) :
           \/ i \in DOMAIN q /\ (q \o b)[i] = q[i]
           \/ \E j \in DOMAIN b : (q \o b)[i] = b[j]
  BY <1>1, QueueMembers
<1>6. \A i \in DOMAIN q : q[i].type = "stage" => q[i].stage \in Nat
  BY DEF Jobs, Stages
<1>7. AtMost(q \o b, Remember(S))
  BY <1>1, <1>2, <1>5, <1>6 DEF AtMost
<1>8. ASSUME NEW h \in Nat, h <= highest, Beyond(q, h)
      PROVE  Beyond(q \o b, h)
  <2>1. \A s \in S : s > h
    BY <1>8 DEF Stages
  <2>2. \A j \in DOMAIN b : b[j].stage > h
    BY <1>1, <2>1
  <2> QED BY <1>5, <1>8, <2>2 DEF Beyond
<1> QED BY <1>2, <1>4, <1>5, <1>7, <1>8 DEF b

(* What stands in a sequence with one more at its end.                     *)
LEMMA AppendMembers ==
  ASSUME NEW q \in Seq(Stages), NEW s \in Stages
  PROVE  /\ \A i \in DOMAIN Append(q, s) :
              \/ i \in DOMAIN q /\ Append(q, s)[i] = q[i]
              \/ i = Len(q) + 1 /\ Append(q, s)[i] = s
         /\ \A j \in DOMAIN q :
              j \in DOMAIN Append(q, s) /\ Append(q, s)[j] = q[j]
         /\ \E j \in DOMAIN Append(q, s) : Append(q, s)[j] = s
<1>1. /\ DOMAIN Append(q, s) = 1..(Len(q) + 1) /\ DOMAIN q = 1..Len(q)
      /\ Append(q, s)[Len(q) + 1] = s /\ Len(q) \in Nat
      /\ \A i \in 1..Len(q) : Append(q, s)[i] = q[i]
  OBVIOUS
<1> QED BY <1>1

(* Rising stages rise with one above them all at their end.                *)
LEMMA AppendRises ==
  ASSUME NEW q \in Seq(Stages), NEW s \in Stages, Rising(q),
         \A i \in DOMAIN q : q[i] < s
  PROVE  Rising(Append(q, s))
<1>1. /\ DOMAIN Append(q, s) = 1..(Len(q) + 1) /\ DOMAIN q = 1..Len(q)
      /\ Append(q, s)[Len(q) + 1] = s /\ Len(q) \in Nat
      /\ \A i \in 1..Len(q) : Append(q, s)[i] = q[i]
  OBVIOUS
<1> QED BY <1>1 DEF Rising

(* Turns and timers queue only above the highest; a write moves the first *)
(* stage of the queue above all that is written.                           *)
LEMMA RemindingStep ==
  ASSUME Inv, Reminding, StagesRise, [Next]_vars
  PROVE  Reminding' /\ StagesRise'
<1> USE DEF durable, truth, seat, steering, bounds, Latest, InSession
<1>0. plans # <<>> => Latest \in Attempts
  BY LatestIsAttempt DEF Inv
<1>a. Ascending(<<>>) /\ \A h \in Nat : AtMost(<<>>, h) /\ Beyond(<<>>, h)
  BY DEF Ascending, AtMost, Beyond
<1>b. /\ tail \in Seq(Jobs) /\ highest \in Nat
      /\ \A n \in Attempts : notices[n] \in Seq(Stages) /\ sent[n] \in Seq(Stages)
  BY DEF Inv, TypeOK, Stages
<1>1. CASE Launch
  BY <1>1 DEF Launch, Reminding, StagesRise
<1>2. ASSUME NEW kind \in {"retry", "resume", "handoff"}, Relaunch(kind)
      PROVE  Reminding' /\ StagesRise'
  BY <1>2 DEF Relaunch, Reminding, StagesRise
<1>3. CASE Begin
  <2>1. notices[Latest] = <<>> /\ UNCHANGED <<plans, notices, sent, tail, highest>>
        /\ started \subseteq started' /\ phase' = "begun"
    BY <1>0, <1>3 DEF Begin, Inv, Lineage, Unspent, Reminding
  <2> QED BY <2>1 DEF Reminding, StagesRise
<1>4. CASE OpenSession
  <2>1. notices[Latest] = <<>> /\ tail = <<>>
    BY <1>4 DEF OpenSession, Inv, Counting, Reminding
  <2> QED BY <1>4, <1>a, <2>1 DEF OpenSession, Reminding, StagesRise
<1>5. ASSUME NEW q \in Seq(Jobs), NEW S \in SUBSET Stages, InSession,
             \A s \in S : s > highest,
             Ascending(q), AtMost(q, highest),
             \A h \in Nat : Beyond(tail, h) => Beyond(q, h),
             tail' = q \o StageJobs(S), highest' = Remember(S),
             UNCHANGED <<plans, started, notices, sent, phase>>
      PROVE  Reminding' /\ StagesRise'
  <2>1. /\ Ascending(tail') /\ AtMost(tail', highest')
        /\ highest <= highest' /\ highest' \in Nat
        /\ \A h \in Nat : h <= highest /\ Beyond(q, h) => Beyond(tail', h)
    BY <1>5, <1>b, QueuedAbove
  <2>2. plans # <<>>
    BY <1>5 DEF Inv, Lineage, Executing
  <2>3. ASSUME NEW k \in DOMAIN notices[Latest]
        PROVE  notices[Latest][k] <= highest' /\ Beyond(tail', notices[Latest][k])
    <3>1. notices[Latest][k] \in Nat
      BY <1>0, <1>b, <2>2, <2>3 DEF Stages
    <3>2. notices[Latest][k] <= highest /\ Beyond(tail, notices[Latest][k])
      BY <1>5, <2>3 DEF Reminding
    <3> QED BY <1>5, <1>b, <2>1, <3>1, <3>2
  <2> QED BY <1>5, <2>1, <2>3 DEF Reminding, StagesRise
<1>6. ASSUME NEW c \in 1..MaxTurn, Turn(c)
      PROVE  Reminding' /\ StagesRise'
  <2>1. CASE phase = "running"
    <3> DEFINE used == OwnUsage + c
               job == <<[type |-> "checkpoint", usage |-> used]>>
    <3>1. used \in Nat
      BY <1>6, TurnsAssumption DEF Turn, Inv, TypeOK, Counting, OwnUsage
    <3>2. job \in Seq(Jobs) /\ \A i \in DOMAIN job : job[i].type = "checkpoint"
      BY <3>1 DEF Jobs
    <3>3. Reached(used) \in SUBSET Stages /\ \A s \in Reached(used) : s > highest
      BY DEF Reached
    <3>4. tail' = (tail \o job) \o StageJobs(Reached(used))
          /\ highest' = Remember(Reached(used))
      BY <1>6, <2>1 DEF Turn
    <3> HIDE DEF job
    <3>5. /\ Ascending(job) /\ \A h \in Nat : Beyond(job, h)
          /\ tail \o job \in Seq(Jobs)
          /\ \A i \in DOMAIN (tail \o job) :
               \/ i \in DOMAIN tail /\ (tail \o job)[i] = tail[i]
               \/ (tail \o job)[i].type = "checkpoint"
      BY <1>b, <3>2, QueueMembers DEF Ascending, Beyond
    <3>6. Ascending(tail \o job)
      BY <1>b, <3>2, <3>5, QueuesRise DEF Reminding
    <3>7. AtMost(tail \o job, highest)
      BY <3>5 DEF Reminding, AtMost
    <3>8. \A h \in Nat : Beyond(tail, h) => Beyond(tail \o job, h)
      BY <3>5 DEF Beyond
    <3> HIDE DEF used
    <3> QED BY <1>5, <1>6, <2>1, <3>3, <3>4, <3>5, <3>6, <3>7, <3>8 DEF Turn
  <2>2. CASE phase = "stopped"
    BY <1>6, <2>2 DEF Turn, Reminding, StagesRise
  <2> QED BY <1>6, <2>1, <2>2 DEF Turn
<1>7. ASSUME NEW s \in Clocks, Timer(s)
      PROVE  Reminding' /\ StagesRise'
  <2>1. {s} \in SUBSET Stages /\ \A x \in {s} : x > highest
    BY <1>7, TurnsAssumption DEF Timer, Stages
  <2>2. Ascending(tail) /\ AtMost(tail, highest)
    BY DEF Reminding
  <2> QED BY <1>5, <1>7, <1>b, <2>1, <2>2 DEF Timer
<1>8. CASE Drain
  <2> DEFINE job == Head(tail)
  <2>0. /\ InSession /\ mine = Latest /\ Latest \in Attempts
        /\ UNCHANGED <<plans, started, phase, highest>>
    BY <1>8, DrainedCheckpoint DEF Drain
  <2>1. /\ job = tail[1] /\ 1 \in DOMAIN tail /\ job \in Jobs
        /\ tail' = Tail(tail) /\ Len(tail') = Len(tail) - 1
        /\ \A i \in DOMAIN tail' :
             i + 1 \in DOMAIN tail /\ i + 1 > 1 /\ tail'[i] = tail[i + 1]
    BY <1>8, <1>b DEF Drain
  <2> HIDE DEF job
  <2>2. Ascending(tail')
    <3>1. ASSUME NEW i \in DOMAIN tail', NEW j \in DOMAIN tail', i < j
          PROVE  i + 1 < j + 1
      BY <1>8, <1>b, <3>1 DEF Drain
    <3> QED BY <2>1, <3>1 DEF Reminding, Ascending
  <2>3. AtMost(tail', highest)
    BY <2>1 DEF Reminding, AtMost
  <2>4. \A h \in Nat : Beyond(tail, h) => Beyond(tail', h)
    BY <2>1 DEF Beyond
  <2>5. job.type = "stage" => /\ Beyond(tail', job.stage)
                              /\ job.stage <= highest /\ job.stage \in Stages
    BY <2>1 DEF Reminding, Ascending, AtMost, Beyond, Jobs
  <2>6. ASSUME NEW k \in DOMAIN notices[Latest]
        PROVE  /\ notices[Latest][k] \in Nat /\ notices[Latest][k] <= highest
               /\ Beyond(tail', notices[Latest][k])
               /\ job.type = "stage" => notices[Latest][k] < job.stage
    <3>1. notices[Latest][k] \in Nat
      BY <1>b, <2>0, <2>6 DEF Stages
    <3>2. notices[Latest][k] <= highest /\ Beyond(tail, notices[Latest][k])
      BY <2>0, <2>6 DEF Reminding
    <3>3. job.type = "stage" => notices[Latest][k] < job.stage
      BY <2>1, <2>5, <3>1, <3>2 DEF Beyond, Stages
    <3> QED BY <2>4, <3>1, <3>2, <3>3
  <2>7. CASE UNCHANGED <<notices, sent>>
    BY <2>0, <2>2, <2>3, <2>6, <2>7 DEF Reminding, StagesRise
  <2>8. CASE /\ job.type = "stage"
             /\ notices' = [notices EXCEPT ![Latest] = Append(@, job.stage)]
             /\ \/ sent' = [sent EXCEPT ![Latest] = Append(@, job.stage)]
                \/ UNCHANGED sent
    <3> DEFINE note == notices[Latest]
               was == sent[Latest]
               s == job.stage
    <3>1. /\ note \in Seq(Stages) /\ was \in Seq(Stages) /\ s \in Stages
          /\ Rising(note) /\ Rising(was)
          /\ \A i \in DOMAIN was : \E j \in DOMAIN note : note[j] = was[i]
          /\ \A k \in DOMAIN note : note[k] < s
      BY <1>b, <2>0, <2>5, <2>6, <2>8 DEF StagesRise
    <3>2. /\ notices'[Latest] = Append(note, s)
          /\ sent'[Latest] = Append(was, s) \/ sent'[Latest] = was
          /\ \A n \in Attempts \ {Latest} :
               notices'[n] = notices[n] /\ sent'[n] = sent[n]
      BY <2>0, <2>8 DEF Inv, TypeOK
    <3> HIDE DEF note, was, s
    <3>3. \A i \in DOMAIN was : was[i] < s
      BY <3>1
    <3>4. Rising(Append(note, s)) /\ Rising(Append(was, s))
      BY <3>1, <3>3, AppendRises
    <3>5. /\ \A i \in DOMAIN Append(note, s) :
               \/ i \in DOMAIN note /\ Append(note, s)[i] = note[i]
               \/ Append(note, s)[i] = s
          /\ \A i \in DOMAIN Append(was, s) :
               \/ i \in DOMAIN was /\ Append(was, s)[i] = was[i]
               \/ Append(was, s)[i] = s
          /\ \A j \in DOMAIN note :
               j \in DOMAIN Append(note, s) /\ Append(note, s)[j] = note[j]
          /\ \E j \in DOMAIN Append(note, s) : Append(note, s)[j] = s
      BY <3>1, AppendMembers
    <3>6. \A i \in DOMAIN sent'[Latest] :
            \E j \in DOMAIN notices'[Latest] : notices'[Latest][j] = sent'[Latest][i]
      <4>1. SUFFICES ASSUME NEW i \in DOMAIN sent'[Latest]
                     PROVE  \E j \in DOMAIN notices'[Latest] :
                              notices'[Latest][j] = sent'[Latest][i]
        OBVIOUS
      <4>2. CASE sent'[Latest][i] = s
        BY <3>2, <3>5, <4>2
      <4>3. CASE i \in DOMAIN was /\ sent'[Latest][i] = was[i]
        <5>1. PICK j \in DOMAIN note : note[j] = was[i]
          BY <3>1, <4>3
        <5>2. j \in DOMAIN notices'[Latest] /\ notices'[Latest][j] = note[j]
          BY <3>2, <3>5, <5>1
        <5> QED BY <4>3, <5>1, <5>2
      <4> QED BY <3>2, <3>5, <4>1, <4>2, <4>3
    <3>7. StagesRise'
      <4>1. \A n \in Attempts \ {Latest} :
              /\ Rising(notices'[n]) /\ Rising(sent'[n])
              /\ \A i \in DOMAIN sent'[n] :
                   \E j \in DOMAIN notices'[n] : notices'[n][j] = sent'[n][i]
        BY <3>2 DEF StagesRise
      <4>2. Rising(notices'[Latest]) /\ Rising(sent'[Latest])
        BY <3>1, <3>2, <3>4
      <4> QED BY <3>6, <4>1, <4>2 DEF StagesRise, Rising
    <3>8. \A k \in DOMAIN notices'[Latest] :
            notices'[Latest][k] <= highest /\ Beyond(tail', notices'[Latest][k])
      BY <2>5, <2>6, <2>8, <3>2, <3>5 DEF note, s
    <3>9. \A n \in Attempts : n \notin started => n # Latest
      BY <2>0 DEF Inv, Lineage
    <3> QED BY <2>0, <2>2, <2>3, <3>2, <3>7, <3>8, <3>9 DEF Reminding
  <2> QED BY <1>8, <2>0, <2>7, <2>8 DEF Drain, job
<1>9. CASE Crash
  BY <1>9, <1>a DEF Crash, Reminding, StagesRise
<1>10. CASE \/ \E disp \in Dispositions : Settle(disp)
            \/ Reject \/ SettleUnsettled
  <2>1. Leave
    BY <1>10 DEF Settle, Reject, SettleUnsettled
  <2> QED BY <1>a, <2>1 DEF Leave, Reminding, StagesRise
<1>11. CASE \/ \E disp \in Dispositions : Reconcile(disp)
            \/ Recover \/ FailStart \/ Abort \/ Stop \/ UNCHANGED vars
  BY <1>11 DEF Reconcile, Recover, FailStart, Abort, Stop, vars, Reminding, StagesRise
<1> QED
  BY <1>1, <1>2, <1>3, <1>4, <1>6, <1>7, <1>8, <1>9, <1>10, <1>11
     DEF Next, Attempting, Ending

(* Four timers, the pressure of two counts and a slow journal never give   *)
(* an attempt the same or a weaker reminder again, and none is sent before *)
(* it is written.                                                          *)
THEOREM RemindersRise ==
  Spec => []StagesRise
<1>1. Init => Reminding /\ StagesRise
  BY DEF Init, Reminding, StagesRise, Rising, Ascending, AtMost, InSession
<1>2. /\ Inv /\ [Next]_vars /\ Reminding /\ StagesRise
      => Reminding' /\ StagesRise'
  BY RemindingStep
<1> QED BY <1>1, <1>2, Invariant, PTL DEF Spec
==============================================================================
