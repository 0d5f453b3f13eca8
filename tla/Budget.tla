------------------------------- MODULE Budget -------------------------------
(***************************************************************************)
(* What a run may still spend.  The limits of a run are run-wide: the plan *)
(* of a retry or a resume is the plan before it less what the result says  *)
(* was spent (retryPlan and resumePlan of src/service.ts), written to the  *)
(* attempt record before the attempt starts.  The attempt                  *)
(* (src/runtime/attempt.ts, src/runtime/budget.ts) counts its own spending *)
(* against a session that may hold earlier attempts' messages, queues      *)
(* checkpoints and reminders on a tail of journal writes, and ends with a  *)
(* terminal event and a snapshot; a seat that opens the store pieces what  *)
(* was spent together again.                                               *)
(*                                                                         *)
(* One resource stands for tokens, cost and runtime, which are subtracted  *)
(* alike; the least remainder worth an attempt is 1.  A result is what it  *)
(* permits next (disp) and the usage it reports.  Left out: leases, trees  *)
(* and sandboxes (RunService, Attempt), abandonment, and which failure     *)
(* gives which disp.  Bounds: Limit, Retries, Resumes, MaxTurn, MaxSpend,  *)
(* MaxTail, Clocks, MaxFaults, MaxCrashes.                                 *)
(***************************************************************************)
EXTENDS Integers, Sequences

CONSTANTS
  Limit,        \* the run's budget
  Retries,      \* limits.retries and limits.resumes of the first plan
  Resumes,
  MaxTurn,      \* the most one turn spends
  MaxSpend,     \* no turn starts once an attempt has spent this much
  Clocks,       \* the stages a timer may reach
  MaxTail,      \* nothing more happens while this many writes are queued
  MaxFaults,    \* journal and snapshot writes that fail
  MaxCrashes,
  Unsettled     \* the attempts whose settlement may fail when they end
                \* cleanup-blocked, after which the same seat reconciles a
                \* run it has no result of

ASSUME LimitAssumption == Limit \in Nat \ {0}
ASSUME CountsAssumption == Retries \in Nat /\ Resumes \in Nat
ASSUME TurnsAssumption == MaxTurn \in Nat \ {0} /\ MaxSpend \in Nat
                          /\ MaxTail \in Nat /\ Clocks \subseteq {7, 9}
ASSUME FaultsAssumption == MaxFaults \in Nat /\ MaxCrashes \in Nat
ASSUME UnsettledAssumption == Unsettled \subseteq Nat

VARIABLES
  plans,       \* attempt records, by ordinal: [kind, limit, retries, resumes]
  started,     \* the attempts with an attempt-starting event
  checkpoint,  \* the last usage-checkpoint of each attempt, 0 without one
  notices,     \* the budget-steering events of each attempt
  ended,       \* the sum of the usages in the journal's terminal events
  snapshot,    \* [disp, usage, seen] or NoSnapshot; seen: started back then
  session,     \* usage of the messages in the run's session file
  spent,       \* what each attempt really spent (nobody reads it)
  sent,        \* the stages each attempt's session was really sent
  phase,       \* of the seat and of the attempt it executes
  mine,        \* the attempt whose plan is in memory
  result,      \* [disp, usage] or NoResult
  baseline,    \* session usage when the attempt opened it
  prior,       \* the terminal events' usage at that moment
  highest,     \* the highest stage queued
  aborted,
  tail,        \* journal writes queued, in order
  faults,
  crashes

durable == <<plans, started, checkpoint, notices, ended, snapshot, session>>
truth == <<spent, sent>>
seat == <<mine, result>>
steering == <<baseline, prior, highest, aborted, tail>>
bounds == <<faults, crashes>>
vars == <<durable, truth, phase, seat, steering, bounds>>

MaxAttempts == 1 + Retries + Resumes
Attempts == 1..MaxAttempts
Stages == {7, 9}      \* tenths
Dispositions == {"retry",      \* failed, manual or backoff, no hand-off
                 "resume",     \* interrupted, with a session
                 "handoff",    \* completed, failed or cancelled, handed off
                 "blocked",    \* cleanup-blocked
                 "over"}       \* nothing may follow
Kinds == {"initial", "retry", "resume", "handoff"}
NoResult == [usage |-> 0]
NoSnapshot == [seen |-> {}]
Plan == [kind : Kinds, limit : Nat, retries : Nat, resumes : Nat]
Result(disp, usage) == [disp |-> disp, usage |-> usage]
Save(r) == [disp |-> r.disp, usage |-> r.usage, seen |-> started]
Jobs == [type : {"checkpoint"}, usage : Nat] \cup [type : {"stage"}, stage : Stages]

TypeOK ==
  /\ plans \in Seq(Plan)
  /\ started \subseteq Nat
  /\ checkpoint \in [Attempts -> Nat]
  /\ notices \in [Attempts -> Seq(Stages)]
  /\ ended \in Nat
  /\ snapshot \in {NoSnapshot}
       \cup [disp : Dispositions, usage : Nat, seen : SUBSET Nat]
  /\ session \in Nat
  /\ spent \in [Attempts -> Nat]
  /\ sent \in [Attempts -> Seq(Stages)]
  /\ phase \in {"down", "idle", "prepared", "begun", "running", "stopped"}
  /\ mine \in Nat
  /\ result \in {NoResult} \cup [disp : Dispositions, usage : Nat]
  /\ baseline \in Nat /\ prior \in Nat
  /\ highest \in {0} \cup Stages
  /\ aborted \in BOOLEAN
  /\ tail \in Seq(Jobs)
  /\ faults \in 0..MaxFaults /\ crashes \in 0..MaxCrashes

Init ==
  /\ plans = <<>>
  /\ started = {}
  /\ checkpoint = [n \in Attempts |-> 0]
  /\ notices = [n \in Attempts |-> <<>>]
  /\ ended = 0
  /\ snapshot = NoSnapshot
  /\ session = 0
  /\ spent = [n \in Attempts |-> 0]
  /\ sent = [n \in Attempts |-> <<>>]
  /\ phase = "idle"
  /\ mine = 0
  /\ result = NoResult
  /\ baseline = 0 /\ prior = 0 /\ highest = 0
  /\ aborted = FALSE
  /\ tail = <<>>
  /\ faults = 0 /\ crashes = 0

Fault == faults < MaxFaults /\ faults' = faults + 1

------------------------------------------------------------------------------
(* Slips: the forms the code might have had.                               *)

\* the session's whole usage, the messages of earlier attempts included
OwnUsageOfSession == session

\* recovery trusts the snapshot of the attempt before
CoveredAlways(n) == snapshot # NoSnapshot

\* the stage is remembered when its event is written, not when it is queued
RememberLate(stages) == highest

------------------------------------------------------------------------------
(* The plans of attempts.                                                  *)

\* remainingRuntimeMs, remainingTotalTokens, remainingCost
Remainder(limit, r) == limit - r.usage

Launch ==
  /\ phase = "idle" /\ plans = <<>>
  /\ plans' = <<[kind |-> "initial", limit |-> Limit, retries |-> Retries,
                 resumes |-> Resumes]>>
  /\ phase' = "prepared"
  /\ UNCHANGED <<started, checkpoint, notices, ended, snapshot, session, truth,
                 seat, steering, bounds>>

\* retry, resume and resume at a hand-off: the result permits it, the plan in
\* memory is the latest attempt's, the snapshot still says the same, a count
\* and a remainder are left; the new plan goes to the attempt record
Relaunch(kind) ==
  /\ phase = "idle" /\ result # NoResult
  /\ result.disp = kind
  /\ mine = Len(plans)
  /\ snapshot # NoSnapshot /\ snapshot.disp = result.disp
  /\ LET current == plans[mine]
         retry == kind = "retry"
         left == Remainder(current.limit, result)
     IN
     /\ IF retry THEN current.retries >= 1 ELSE current.resumes >= 1
     /\ left >= 1
     /\ plans' = Append(plans,
          [kind |-> kind, limit |-> left,
           retries |-> IF retry THEN current.retries - 1 ELSE current.retries,
           resumes |-> IF retry THEN current.resumes ELSE current.resumes - 1])
  /\ phase' = "prepared"
  /\ UNCHANGED <<started, checkpoint, notices, ended, snapshot, session, truth,
                 seat, steering, bounds>>

\* the step between the attempt record and the attempt (execution()) fails;
\* memory keeps the plan before, the record stays
FailStart ==
  /\ phase = "prepared" /\ Fault
  /\ phase' = "idle"
  /\ UNCHANGED <<durable, truth, seat, steering, crashes>>

\* the run is the new attempt's; attempt-starting is appended, or fails
Begin ==
  /\ phase = "prepared"
  /\ phase' = "begun"
  /\ mine' = Len(plans) /\ result' = NoResult
  /\ \/ started' = started \cup {Len(plans)} /\ UNCHANGED faults
     \/ Fault /\ UNCHANGED started
  /\ UNCHANGED <<plans, checkpoint, notices, ended, snapshot, session, truth,
                 steering, crashes>>

------------------------------------------------------------------------------
(* The attempt.                                                            *)

\* the attempt reached attempt-starting: a fresh session, or the retained one;
\* the reminders start over
OpenSession ==
  /\ phase = "begun" /\ mine \in started
  /\ phase' = "running"
  /\ session' = IF plans[mine].kind \in {"initial", "retry"} THEN 0 ELSE session
  /\ baseline' = session'
  /\ prior' = ended
  /\ highest' = 0
  /\ UNCHANGED <<plans, started, checkpoint, notices, ended, snapshot, truth, seat,
                 aborted, tail, bounds>>

\* subtractUsage of the session's usage and the baseline
OwnUsage == session - baseline

\* stages the pressure has reached and nothing has queued; none after an abort
Reached(used) ==
  {s \in Stages : /\ ~aborted /\ s > highest
                  /\ 10 * (prior + used) >= s * (prior + plans[mine].limit)}

\* highestBudgetStage, once these are queued
Remember(stages) ==
  IF 9 \in stages THEN 9 ELSE IF 7 \in stages THEN 7 ELSE highest

StageJobs(stages) ==
  (IF 7 \in stages THEN <<[type |-> "stage", stage |-> 7]>> ELSE <<>>) \o
  (IF 9 \in stages THEN <<[type |-> "stage", stage |-> 9]>> ELSE <<>>)

\* a turn ends: its checkpoint is queued, then the stages it has reached; what
\* a turn spends before the agent has stopped counts, but nobody hears of it
Turn(c) ==
  /\ phase \in {"running", "stopped"} /\ spent[mine] < MaxSpend
  /\ Len(tail) < MaxTail
  /\ spent' = [spent EXCEPT ![mine] = @ + c]
  /\ session' = session + c
  /\ LET used == OwnUsage + c
         reached == Reached(used)
     IN IF phase = "running"
        THEN /\ tail' = tail \o <<[type |-> "checkpoint", usage |-> used]>>
                             \o StageJobs(reached)
             /\ highest' = Remember(reached)
        ELSE UNCHANGED <<tail, highest>>
  /\ UNCHANGED <<plans, started, checkpoint, notices, ended, snapshot, sent, phase,
                 seat, baseline, prior, aborted, bounds>>

\* a timer of the cumulative runtime or of the attempt's timeout fires
Timer(s) ==
  /\ phase = "running" /\ ~aborted /\ s > highest /\ Len(tail) < MaxTail
  /\ tail' = tail \o StageJobs({s})
  /\ highest' = Remember({s})
  /\ UNCHANGED <<durable, truth, phase, seat, baseline, prior, aborted, bounds>>

Abort ==
  /\ phase = "running" /\ ~aborted
  /\ aborted' = TRUE
  /\ UNCHANGED <<durable, truth, phase, seat, baseline, prior, highest, tail,
                 bounds>>

\* the next write of the tail: a stage is sent once its event is in the
\* journal, unless the session refuses it; a failed write is dropped
Drain ==
  /\ tail # <<>>
  /\ tail' = Tail(tail)
  /\ LET job == Head(tail) IN
     \/ /\ job.type = "checkpoint"
        /\ checkpoint' = [checkpoint EXCEPT ![mine] = job.usage]
        /\ UNCHANGED <<notices, sent, faults>>
     \/ /\ job.type = "stage"
        /\ notices' = [notices EXCEPT ![mine] = Append(@, job.stage)]
        /\ \/ sent' = [sent EXCEPT ![mine] = Append(@, job.stage)]
              /\ UNCHANGED faults
           \/ Fault /\ UNCHANGED sent
        /\ UNCHANGED checkpoint
     \/ Fault /\ UNCHANGED <<checkpoint, notices, sent>>
  /\ UNCHANGED <<plans, started, ended, snapshot, session, spent, phase, seat,
                 baseline, prior, highest, aborted, crashes>>

\* stopBudgetSteering: timers and the subscription go first, then the tail is
\* awaited; also after a failure anywhere in the session
Stop ==
  /\ phase = "running"
  /\ phase' = "stopped"
  /\ UNCHANGED <<durable, truth, seat, steering, bounds>>

\* the attempt is over: a failure before the session reports no usage
Over == \/ phase = "begun"
        \/ phase = "stopped" /\ tail = <<>>

Reported == IF phase = "begun" THEN 0 ELSE OwnUsage

Leave ==
  /\ phase' = "idle"
  /\ baseline' = 0 /\ prior' = 0 /\ highest' = 0 /\ aborted' = FALSE /\ tail' = <<>>
  /\ UNCHANGED <<plans, started, checkpoint, notices, session, truth, mine,
                 crashes>>

\* the terminal event, the snapshot, the result.  When the snapshot of a
\* completed attempt fails, the catch branch writes a second terminal event.
Settle(disp) ==
  /\ Over
  /\ disp = "resume" => phase = "stopped"
  /\ \/ ended' = ended + Reported /\ UNCHANGED faults
     \/ ended' = ended + 2 * Reported /\ disp # "resume" /\ Fault
  /\ result' = Result(disp, Reported)
  /\ snapshot' = Save(Result(disp, Reported))
  /\ Leave

\* the attempt rejects, its terminal event or snapshot unwritten: the seat has
\* no result and keeps the run as cleanup-blocked
Reject ==
  /\ Over /\ Fault
  /\ ended' \in {ended, ended + Reported}
  /\ result' = NoResult /\ UNCHANGED snapshot
  /\ Leave

\* a cleanup-blocked attempt wrote its snapshot; the seat's own write fails
SettleUnsettled ==
  /\ mine \in Unsettled /\ Over /\ Fault
  /\ ended' = ended + Reported
  /\ snapshot' = Save(Result("blocked", Reported))
  /\ result' = NoResult
  /\ Leave

\* reconcile: nothing proved, or a session to resume, or none; what was spent
\* is what the result in memory says, nothing when there is none
Reconcile(disp) ==
  /\ phase = "idle" /\ mine > 0
  /\ result # NoResult => result.disp = "blocked"
  /\ snapshot # NoSnapshot /\ snapshot.disp = "blocked"
  /\ disp \in {"blocked", "resume", "over"}
  /\ result' = Result(disp, result.usage)
  /\ snapshot' = Save(result')
  /\ UNCHANGED <<plans, started, checkpoint, notices, ended, session, truth, phase,
                 mine, steering, bounds>>

------------------------------------------------------------------------------
(* Death, and the opening of the store.                                    *)

Crash ==
  /\ phase # "down" /\ crashes < MaxCrashes
  /\ crashes' = crashes + 1
  /\ phase' = "down"
  /\ mine' = 0 /\ result' = NoResult
  /\ baseline' = 0 /\ prior' = 0 /\ highest' = 0 /\ aborted' = FALSE /\ tail' = <<>>
  /\ UNCHANGED <<durable, truth, faults>>

\* snapshotCoversLatestAttempt, with a result in the snapshot
Covered(n) ==
  /\ snapshot # NoSnapshot
  /\ n \in started => n \in snapshot.seen

\* the latest attempt's plan; the result of the snapshot, or cleanup-blocked
\* with the usage of the last checkpoint
Recover ==
  /\ phase = "down"
  /\ phase' = "idle"
  /\ mine' = Len(plans)
  /\ IF plans = <<>>
     THEN UNCHANGED <<result, snapshot>>
     ELSE IF Covered(mine')
     THEN result' = Result(snapshot.disp, snapshot.usage) /\ UNCHANGED snapshot
     ELSE /\ result' = Result("blocked", checkpoint[mine'])
          /\ snapshot' = Save(result')
  /\ UNCHANGED <<plans, started, checkpoint, notices, ended, session, truth,
                 steering, bounds>>

Attempting ==
  \/ Launch \/ FailStart \/ Begin \/ OpenSession \/ Abort \/ Drain \/ Stop
  \/ \E kind \in {"retry", "resume", "handoff"} : Relaunch(kind)
  \/ \E c \in 1..MaxTurn : Turn(c)
  \/ \E s \in Clocks : Timer(s)

Ending ==
  \/ \E disp \in Dispositions : Settle(disp) \/ Reconcile(disp)
  \/ Reject \/ SettleUnsettled

Next == Attempting \/ Ending \/ Crash \/ Recover

Spec == Init /\ [][Next]_vars

------------------------------------------------------------------------------
(* Properties.                                                             *)

(* docs/acceptance.md: "run-wide limits survive retry and resume"; and     *)
(* docs/failures.md: neither operation "resets run-wide budgets".  What an *)
(* attempt is known to have spent is gone for the next one, whatever       *)
(* failed, died or was recovered between the two.                          *)
EveryAttemptPays ==
  \A n \in 2..Len(plans) :
    plans[n].limit <= plans[n - 1].limit - checkpoint[n - 1]

(* That holds of every attempt whose settlement does not fail halfway,     *)
(* whatever was lost of the others.                                        *)
SettledAttemptsPay ==
  \A n \in 2..Len(plans) :
    n - 1 \notin Unsettled => plans[n].limit <= plans[n - 1].limit - checkpoint[n - 1]

(* docs/failures.md: "prior session usage is not charged twice".  An       *)
(* attempt that started is charged at most what it spent itself, although  *)
(* a resumed session holds the messages of the attempts before it.         *)
ChargedForItsOwn ==
  \A n \in 2..Len(plans) :
    n - 1 \in started => plans[n].limit >= plans[n - 1].limit - spent[n - 1]

(* The same without "that started", which is what the words say of the     *)
(* run: all that the plans have lost so far, the attempts have spent.  A   *)
(* death or a failure between an attempt's record and its start charges    *)
(* the result before it once more.                                         *)
ChargedOnce ==
  LET total[i \in 0..MaxAttempts] == IF i = 0 THEN 0 ELSE total[i - 1] + spent[i]
  IN plans # <<>> => Limit - plans[Len(plans)].limit <= total[MaxAttempts]

Rising(s) == \A i, j \in DOMAIN s : i < j => s[i] < s[j]

(* docs/contracts.md: the runtime "persists a single stage receipt per     *)
(* attempt and queues progressively stronger convergence steering".  Token *)
(* and cost pressure, four timers and a slow journal never give an attempt *)
(* the same or a weaker reminder again, and none is sent before it is      *)
(* written (attempt.ts queueBudgetSteering).                               *)
StagesRise ==
  \A n \in Attempts :
    /\ Rising(notices[n]) /\ Rising(sent[n])
    /\ \A i \in DOMAIN sent[n] : \E j \in DOMAIN notices[n] : notices[n][j] = sent[n][i]

==============================================================================
