------------------------------- MODULE Attempt -------------------------------
(***************************************************************************)
(* One attempt of a run: runNativeAttempt (src/runtime/attempt.ts) with    *)
(* the VM it boots and closes (src/sandbox/gondolin.ts), its deadline      *)
(* (src/runtime/deadline.ts) and the classification of its failure         *)
(* (src/runtime/failure.ts).                                               *)
(*                                                                         *)
(* The function is one thread of awaits; between two of them the operator  *)
(* or the seat may stop the attempt, the deadline may expire and a tool    *)
(* call may time out.  Each of these aborts one combined signal whose      *)
(* listener runs once, so what it finds at that moment decides what is     *)
(* stopped.  `pc` names the await the function is at.                      *)
(*                                                                         *)
(* Left out: control messages, budget steering, artifact contents, usage   *)
(* figures, and the identity checks before the first journal entry.        *)
(***************************************************************************)
EXTENDS Naturals, Sequences, RunStatus

CONSTANTS
  Workspaces,     \* the workspace modes launched
  Structured,     \* whether a structured answer may be asked for
  Faults,         \* the steps that may fail
  StopsInSetup    \* whether an abort may come while the VM and the session
                  \* are being set up

FaultNames == {"journal", "snapshot", "model", "capacity", "warm-up", "boot",
               "leak", "session", "artifact", "close", "checkout"}

ASSUME WorkspacesAssumption ==
  Workspaces \subseteq {"operator", "snapshot", "worktree"}
ASSUME StructuredAssumption == Structured \subseteq BOOLEAN
ASSUME FaultsAssumption == Faults \subseteq FaultNames
ASSUME StopsAssumption == StopsInSetup \in BOOLEAN

VARIABLES
  workspace,      \* "operator": read-only view of the operator's checkout,
                  \* "snapshot": read-only checkout of startAt, "worktree"
  structured,     \* the plan has an output schema
  pc,
  deadline,       \* the attempt deadline: "running", "paused", "expired"
  external,       \* the caller's signal: "none" or why it was aborted
  fatal,          \* a tool that timed out: "no", "closing" the VM, "yes"
  box,            \* the sandbox object: "none", "open", "closing", "closed"
  vm,             \* the guest: "none", "warm-up", "running", "closed"
  slot,           \* whether the attempt holds a VM slot
  turn,           \* the session: "none", "idle", "working", "aborting"
  prompts,        \* prompts sent so far
  checkout,       \* the host side of the workspace
  cleanup,        \* [sandbox, workspace], as the function believes
  error,          \* what made it fail, or "none"
  journal,        \* types of the events it appended
  snapshot,       \* status in the durable snapshot, or "none"
  result          \* what it returned or is about to record, or NoResult

given == <<workspace, structured>>
signals == <<deadline, external, fatal>>
machine == <<box, vm, slot>>
session == <<turn, prompts>>
durable == <<journal, snapshot>>
vars == <<given, pc, signals, machine, session, checkout, cleanup, error,
          durable, result>>

PromptLimit == 3  \* the first prompt and two repairs

NoResult == [status |-> "none"]

Setup == {"slotted", "warming", "starting", "booting", "recording",
          "creating", "registering"}
Final == {"ended", "thrown"}
Locations == Setup \cup Final \cup
  {"entered", "resolving", "preparing", "prompting", "settled", "closing",
   "finalizing", "completing", "saving", "unwinding", "reaping", "releasing",
   "recordingFailure", "savingFailure"}
Errors == {"none", "abort", "authentication", "capacity", "sandbox",
           "provider", "model-output", "usage", "workspace", "persistence",
           "unknown"}
Events == {"attempt-starting", "sandbox-started", "session-started",
           "attempt-completed", "attempt-failed"}

TypeOK ==
  /\ workspace \in Workspaces
  /\ structured \in Structured
  /\ pc \in Locations
  /\ deadline \in {"running", "paused", "expired"}
  /\ external \in {"none", "operator", "seat-shutdown"}
  /\ fatal \in {"no", "closing", "yes"}
  /\ box \in {"none", "open", "closing", "closed"}
  /\ vm \in {"none", "warm-up", "running", "closed"}
  /\ slot \in BOOLEAN
  /\ turn \in {"none", "idle", "working", "aborting"}
  /\ prompts \in 0..PromptLimit
  /\ checkout \in {"operator", "snapshot", "worktree", "captured", "removed"}
  /\ cleanup \in [sandbox : Cleanups, workspace : Cleanups]
  /\ error \in Errors
  /\ journal \in Seq(Events)
  /\ snapshot \in ResultStatuses \cup {"none"}
  /\ result \in Results \cup {NoResult}

Init ==
  /\ workspace \in Workspaces
  /\ structured \in Structured
  /\ pc = "entered"
  /\ deadline = "running"
  /\ external = "none"
  /\ fatal = "no"
  /\ box = "none" /\ vm = "none" /\ slot = FALSE
  /\ turn = "none" /\ prompts = 0
  /\ checkout = workspace
  /\ cleanup = [sandbox |-> "not-needed",
                workspace |-> IF workspace = "operator" THEN "not-needed"
                                                        ELSE "retained"]
  /\ error = "none"
  /\ journal = <<>>
  /\ snapshot = "none"
  /\ result = NoResult

\* runSignal.aborted
Aborted == deadline = "expired" \/ external # "none" \/ fatal = "yes"

May(fault) == fault \in Faults

Fail(e) == pc' = "unwinding" /\ error' = e
Go(to) == pc' = to /\ UNCHANGED error

Log(event) == journal' = Append(journal, event) /\ UNCHANGED snapshot

\* The abort listener ({ once: true }): it stops the model turn and closes
\* the VM that exist when the combined signal first aborts.
Listener ==
  IF Aborted THEN UNCHANGED <<turn, box>>
  ELSE /\ turn' = IF turn = "working" THEN "aborting" ELSE turn
       /\ box' = IF box = "open" THEN "closing" ELSE box

------------------------------------------------------------------------------
(* Slips: faulty forms of the definitions around them, one plausible       *)
(* mistake each.  No specification uses them; every property is checked to *)
(* notice one of them.                                                     *)

\* the caller's signal is looked at before the failed close
OutcomeBySignal(sandbox, ws) ==
  CASE external = "seat-shutdown" -> "interrupted"
    [] external = "operator" -> "cancelled"
    [] OTHER -> IF sandbox = "blocked" \/ ws = "blocked"
                THEN "cleanup-blocked" ELSE "failed"

DispositionBySignal(e, sandbox, ws) ==
  IF external # "none"
  THEN IF external = "seat-shutdown" THEN "resume" ELSE "never"
  ELSE IF sandbox = "blocked" \/ ws = "blocked" THEN "reconcile"
  ELSE IF e \in {"capacity", "provider", "sandbox"} THEN "backoff"
  ELSE "manual"

\* the deadline is not resumed after the boot
StartVmPaused ==
  /\ pc = "booting"
  /\ Go("recording")
  /\ box' = "open"
  /\ UNCHANGED <<given, signals, vm, slot, session, checkout, cleanup, durable,
                 result>>

\* the close of the VM is begun and not awaited
SettleSessionAtOnce ==
  /\ pc = "settled" /\ ~Aborted
  /\ turn' = "none"
  /\ box' = IF box = "open" THEN "closing" ELSE box
  /\ cleanup' = [cleanup EXCEPT !.sandbox = "proved"]
  /\ Go("finalizing")
  /\ UNCHANGED <<given, signals, vm, slot, prompts, checkout, durable, result>>

\* a snapshot whose removal is not proved does not fail the attempt
FinalizeUnproved ==
  /\ pc = "finalizing"
  /\ cleanup' \in {[cleanup EXCEPT !.workspace = w] : w \in {"proved", "blocked"}}
  /\ Go("completing")
  /\ UNCHANGED <<given, signals, machine, session, checkout, durable, result>>

\* the slot is given back before the VM is closed
CloseFailsReleased ==
  /\ box = "closing"
  /\ May("close")
  /\ box' = "open" /\ slot' = FALSE
  /\ UNCHANGED <<given, pc, vm, signals, session, checkout, cleanup, error,
                 durable, result>>

------------------------------------------------------------------------------

\* classifyAttemptFailure: what the failure permits next
Disposition(e, sandbox, ws) ==
  IF sandbox = "blocked" \/ ws = "blocked" THEN "reconcile"
  ELSE IF external # "none"
       THEN IF external = "seat-shutdown" THEN "resume" ELSE "never"
  ELSE IF e = "capacity" THEN "backoff"
  ELSE IF fatal = "yes" \/ deadline = "expired" THEN "manual"
  ELSE CASE e \in {"authentication", "usage", "model-output"} -> "never"
         [] e \in {"provider", "sandbox"} -> "backoff"
         [] OTHER -> "reconcile"

Outcome(sandbox, ws) ==
  IF sandbox = "blocked" \/ ws = "blocked" THEN "cleanup-blocked"
  ELSE CASE external = "none" -> "failed"
         [] external = "seat-shutdown" -> "interrupted"
         [] external = "operator" -> "cancelled"

------------------------------------------------------------------------------
(* The steps of runNativeAttempt.                                          *)

\* assertCurrent and the first journal entry, before the try block; the
\* deadline starts and the abort listener is registered
Start ==
  /\ pc = "entered"
  /\ \/ Log("attempt-starting") /\ Go("resolving")
     \/ May("journal") /\ Go("thrown") /\ UNCHANGED durable
  /\ UNCHANGED <<given, signals, machine, session, checkout, cleanup, result>>

\* throwIfAborted, resolveExactPiModel, deadline.pause()
ResolveModel ==
  /\ pc = "resolving"
  /\ \/ Aborted /\ Fail("abort") /\ UNCHANGED deadline
     \/ ~Aborted /\ May("model") /\ Fail("authentication") /\ UNCHANGED deadline
     \/ ~Aborted /\ Go("preparing") /\ deadline' = "paused"
  /\ UNCHANGED <<given, external, fatal, machine, session, checkout, cleanup,
                 durable, result>>

\* the mounts, which may be refused; prepareWarmBoot and capacity.acquire, which
\* both stop waiting on an abort
AcquireSlot ==
  /\ pc = "preparing"
  /\ \/ May("boot") /\ Fail("sandbox") /\ UNCHANGED slot
     \/ Aborted /\ Fail("abort") /\ UNCHANGED slot
     \/ ~Aborted /\ May("capacity") /\ Fail("capacity") /\ UNCHANGED slot
     \/ ~Aborted /\ Go("slotted") /\ slot' = TRUE
  /\ UNCHANGED <<given, signals, box, vm, session, checkout, cleanup, durable,
                 result>>

\* this attempt builds its project's warm checkpoint, or boots without
BeginBoot ==
  /\ pc = "slotted"
  /\ \/ Go("warming") /\ vm' = "warm-up"
     \/ Go("starting") /\ UNCHANGED vm
  /\ UNCHANGED <<given, signals, box, slot, session, checkout, cleanup, durable,
                 result>>

\* runWarmup closes its VM whatever happened; a failed warm-up boots cold, an
\* aborted one releases the slot, an unproved close keeps it
WarmUp ==
  /\ pc = "warming"
  /\ \/ ~Aborted /\ Go("starting") /\ vm' = "none" /\ UNCHANGED slot
     \/ /\ Aborted \/ May("warm-up")
        /\ IF Aborted THEN Fail("abort") ELSE Fail("sandbox")
        /\ vm' = "none" /\ slot' = FALSE
     \/ May("leak") /\ Fail("sandbox") /\ UNCHANGED <<vm, slot>>
  /\ UNCHANGED <<given, signals, box, session, checkout, cleanup, durable,
                 result>>

\* VM.create (or the resume of a checkpoint) and the call of vm.start
LaunchVm ==
  /\ pc = "starting"
  /\ \/ Go("booting") /\ vm' = "running" /\ UNCHANGED slot
     \/ May("boot") /\ Fail("sandbox") /\ slot' = FALSE /\ UNCHANGED vm
  /\ UNCHANGED <<given, signals, box, session, checkout, cleanup, durable,
                 result>>

\* The guest is ready, its process identity is captured and its dependency
\* directories are bound: the caller gets the sandbox object and resumes the
\* deadline.  Otherwise the VM is closed, or its close is not proved.
StartVm ==
  /\ pc = "booting"
  /\ \/ /\ Go("recording")
        /\ box' = "open"
        /\ deadline' = IF deadline = "paused" THEN "running" ELSE deadline
        /\ UNCHANGED <<vm, slot>>
     \/ /\ May("boot")
        /\ Fail("sandbox")
        /\ vm' = "closed" /\ slot' = FALSE
        /\ UNCHANGED <<box, deadline>>
     \/ May("leak") /\ Fail("sandbox") /\ UNCHANGED <<machine, deadline>>
  /\ UNCHANGED <<given, external, fatal, session, checkout, cleanup, durable,
                 result>>

RecordSandbox ==
  /\ pc = "recording"
  /\ \/ Log("sandbox-started") /\ Go("creating")
     \/ May("journal") /\ Fail("persistence") /\ UNCHANGED durable
  /\ UNCHANGED <<given, signals, machine, session, checkout, cleanup, result>>

\* loader.reload, createAgentSession, the read of prior budget events
CreateSession ==
  /\ pc = "creating"
  /\ \/ Go("registering") /\ turn' = "idle"
     \/ May("session") /\ Fail("unknown") /\ turn' \in {"none", "idle"}
  /\ UNCHANGED <<given, signals, machine, prompts, checkout, cleanup, durable,
                 result>>

\* registerControl, the session-started event and the first prompt
RecordSession ==
  /\ pc = "registering"
  /\ \/ /\ Log("session-started") /\ Go("prompting")
        /\ turn' = "working" /\ prompts' = 1
     \/ May("journal") /\ Fail("persistence") /\ UNCHANGED <<durable, session>>
  /\ UNCHANGED <<given, signals, machine, checkout, cleanup, result>>

\* session.prompt returns.  Without the structured answer it asked for, the
\* function prompts again, at once, up to the limit.
PromptReturns ==
  /\ pc = "prompting"
  /\ turn \in {"working", "aborting"}
  /\ \E answered \in BOOLEAN :
       \/ /\ answered \/ ~structured
          /\ Go("settled") /\ turn' = "idle" /\ UNCHANGED prompts
       \/ /\ ~answered /\ structured /\ prompts < PromptLimit
          /\ Go("prompting") /\ turn' = "working" /\ prompts' = prompts + 1
       \/ /\ ~answered /\ structured /\ prompts = PromptLimit
          /\ Fail("model-output") /\ turn' = "idle" /\ UNCHANGED prompts
  /\ UNCHANGED <<given, signals, machine, checkout, cleanup, durable, result>>

PromptThrows ==
  /\ pc = "prompting"
  /\ turn \in {"working", "aborting"}
  /\ May("model")
  /\ Fail("provider") /\ turn' = "idle"
  /\ UNCHANGED <<given, signals, machine, prompts, checkout, cleanup, durable,
                 result>>

\* waitForIdle, throwIfAborted, the output artifact, the usage limits; then
\* the session is disposed of and the close of the VM awaited
SettleSession ==
  /\ pc = "settled"
  /\ \/ Aborted /\ Fail("abort") /\ UNCHANGED <<box, turn, cleanup>>
     \/ /\ ~Aborted /\ May("artifact")
        /\ \E e \in {"persistence", "usage"} : Fail(e)
        /\ UNCHANGED <<box, turn, cleanup>>
     \/ /\ ~Aborted
        /\ turn' = "none"
        /\ IF box = "closed"
           THEN /\ cleanup' = [cleanup EXCEPT !.sandbox = "proved"]
                /\ Go("finalizing") /\ UNCHANGED box
           ELSE box' = "closing" /\ Go("closing") /\ UNCHANGED cleanup
  /\ UNCHANGED <<given, signals, vm, slot, prompts, checkout, durable, result>>

\* The snapshot is removed, or the worktree captured and removed; a capture
\* may stop half way.
Finalize ==
  /\ pc = "finalizing"
  /\ \/ /\ workspace = "operator"
        /\ Go("completing") /\ UNCHANGED <<checkout, cleanup>>
     \/ /\ workspace # "operator"
        /\ checkout' = "removed"
        /\ cleanup' = [cleanup EXCEPT !.workspace = "proved"]
        /\ Go("completing")
     \/ /\ workspace = "snapshot" /\ May("checkout")
        /\ cleanup' = [cleanup EXCEPT !.workspace = "blocked"]
        /\ Fail("workspace") /\ UNCHANGED checkout
     \/ /\ workspace = "worktree" /\ May("checkout")
        /\ checkout' \in {"worktree", "captured"}
        /\ Fail("workspace") /\ UNCHANGED cleanup
  /\ UNCHANGED <<given, signals, machine, session, durable, result>>

RecordCompletion ==
  /\ pc = "completing"
  /\ \/ /\ Log("attempt-completed")
        /\ result' = [status |-> "completed", retry |-> "none",
                      sandbox |-> cleanup.sandbox,
                      workspace |-> cleanup.workspace]
        /\ Go("saving")
     \/ /\ May("journal") /\ Fail("persistence")
        /\ UNCHANGED <<durable, result>>
  /\ UNCHANGED <<given, signals, machine, session, checkout, cleanup>>

SaveCompletion ==
  /\ pc = "saving"
  /\ \/ snapshot' = "completed" /\ Go("ended") /\ UNCHANGED result
     \/ /\ May("snapshot") /\ Fail("persistence") /\ result' = NoResult
        /\ UNCHANGED snapshot
  /\ UNCHANGED <<given, signals, machine, session, checkout, cleanup, journal>>

\* catch: the session is aborted and disposed of, then the VM is closed
Unwind ==
  /\ pc = "unwinding"
  /\ turn' = "none"
  /\ \/ /\ box = "none" /\ Go("releasing") /\ UNCHANGED <<box, cleanup>>
     \/ /\ box = "closed" /\ Go("releasing") /\ UNCHANGED box
        /\ cleanup' = [cleanup EXCEPT !.sandbox = "proved"]
     \/ /\ box \in {"open", "closing"} /\ Go("reaping") /\ box' = "closing"
        /\ UNCHANGED cleanup
  /\ UNCHANGED <<given, signals, vm, slot, prompts, checkout, durable, result>>

ReleaseSnapshot ==
  /\ pc = "releasing"
  /\ Go("recordingFailure")
  /\ IF /\ workspace = "snapshot"
        /\ cleanup.workspace = "retained" /\ cleanup.sandbox # "blocked"
     THEN \/ /\ checkout' = "removed"
             /\ cleanup' = [cleanup EXCEPT !.workspace = "proved"]
          \/ /\ May("checkout") /\ UNCHANGED checkout
             /\ cleanup' = [cleanup EXCEPT !.workspace = "blocked"]
     ELSE UNCHANGED <<checkout, cleanup>>
  /\ UNCHANGED <<given, signals, machine, session, durable, result>>

RecordFailure ==
  /\ pc = "recordingFailure"
  /\ \/ /\ Log("attempt-failed")
        /\ result' = [status |-> Outcome(cleanup.sandbox, cleanup.workspace),
                      retry |-> Disposition(error, cleanup.sandbox,
                                            cleanup.workspace),
                      sandbox |-> cleanup.sandbox,
                      workspace |-> cleanup.workspace]
        /\ Go("savingFailure")
     \/ May("journal") /\ Go("thrown") /\ UNCHANGED <<durable, result>>
  /\ UNCHANGED <<given, signals, machine, session, checkout, cleanup>>

SaveFailure ==
  /\ pc = "savingFailure"
  /\ \/ snapshot' = result.status /\ Go("ended") /\ UNCHANGED result
     \/ /\ May("snapshot") /\ Go("thrown") /\ result' = NoResult
        /\ UNCHANGED snapshot
  /\ UNCHANGED <<given, signals, machine, session, checkout, cleanup, journal>>

------------------------------------------------------------------------------
(* What happens between the steps.                                         *)

\* closeStartedVm succeeds: the guest is gone and its slot is free.  The
\* function goes on if it waits for this.
CloseDone ==
  /\ box = "closing"
  /\ box' = "closed" /\ vm' = "closed" /\ slot' = FALSE
  /\ IF pc \in {"closing", "reaping"}
     THEN /\ cleanup' = [cleanup EXCEPT !.sandbox = "proved"]
          /\ Go(IF pc = "closing" THEN "finalizing" ELSE "releasing")
     ELSE UNCHANGED <<cleanup, pc, error>>
  /\ UNCHANGED <<given, signals, session, checkout, durable, result>>

\* It fails: the guest may be gone or not, the slot stays held, and a later
\* close tries again.
CloseFails ==
  /\ box = "closing"
  /\ May("close")
  /\ box' = "open" /\ vm' \in {vm, "closed"}
  /\ \/ pc = "closing" /\ Fail("sandbox") /\ UNCHANGED cleanup
     \/ /\ pc = "reaping" /\ Go("releasing")
        /\ cleanup' = [cleanup EXCEPT !.sandbox = "blocked"]
     \/ /\ pc \notin {"closing", "reaping"}
        /\ UNCHANGED <<cleanup, pc, error>>
  /\ UNCHANGED <<given, slot, signals, session, checkout, durable, result>>

\* when an abort may come: the listener is registered after Start and removed
\* at the end
Exposed ==
  /\ pc \notin Final \cup {"entered"}
  /\ pc \in Setup => StopsInSetup

Expire ==
  /\ Exposed
  /\ deadline = "running"
  /\ deadline' = "expired"
  /\ Listener
  /\ UNCHANGED <<given, pc, external, fatal, vm, slot, prompts, checkout,
                 cleanup, error, durable, result>>

\* the operator's stop, or the seat's shutdown; the first reason stays
Stop(reason) ==
  /\ Exposed
  /\ external = "none"
  /\ external' = reason
  /\ Listener
  /\ UNCHANGED <<given, pc, deadline, fatal, vm, slot, prompts, checkout,
                 cleanup, error, durable, result>>

\* a guest command times out: its tool call closes the VM
ToolTimesOut ==
  /\ pc = "prompting"
  /\ fatal = "no"
  /\ box \in {"open", "closing"}
  /\ box' = "closing" /\ fatal' = "closing"
  /\ UNCHANGED <<given, pc, deadline, external, vm, slot, session, checkout,
                 cleanup, error, durable, result>>

\* ... and, once that close is over, aborts the attempt, unless it is aborted
ToolAborts ==
  /\ pc \notin Final
  /\ fatal = "closing"
  /\ box # "closing"
  /\ fatal' = IF Aborted THEN "no" ELSE "yes"
  /\ Listener
  /\ UNCHANGED <<given, pc, deadline, external, vm, slot, prompts, checkout,
                 cleanup, error, durable, result>>

Advance ==
  \/ Start \/ ResolveModel \/ AcquireSlot \/ BeginBoot \/ WarmUp \/ LaunchVm
  \/ StartVm \/ RecordSandbox \/ CreateSession \/ RecordSession
  \/ SettleSession \/ Finalize \/ RecordCompletion \/ SaveCompletion
  \/ Unwind \/ ReleaseSnapshot \/ RecordFailure \/ SaveFailure

ModelReturns == PromptReturns \/ PromptThrows
CloseSettles == CloseDone \/ CloseFails

\* the attempt is over; a close the listener began may still be under way
Done == pc \in Final /\ box # "closing" /\ UNCHANGED vars

Next ==
  \/ Advance
  \/ ModelReturns
  \/ CloseSettles
  \/ Expire
  \/ \E reason \in {"operator", "seat-shutdown"} : Stop(reason)
  \/ ToolTimesOut
  \/ ToolAborts
  \/ Done

Spec == Init /\ [][Next]_vars

\* The awaits of the function are bounded (the capacity wait, the start
\* timeout, the close); the timer of the deadline fires; an aborted model turn
\* ends.  A model at work owes nobody anything.
Fairness ==
  /\ WF_vars(Advance)
  /\ WF_vars(CloseSettles)
  /\ WF_vars(ToolAborts)
  /\ WF_vars(Expire)
  /\ WF_vars(turn = "aborting" /\ ModelReturns)

FairSpec == Spec /\ Fairness

------------------------------------------------------------------------------

Guest == vm \in {"warm-up", "running"}

(* Host capacity counts every guest that may be running: a slot is given   *)
(* back only after the VM it stands for is gone (closeStartedVm, the       *)
(* failed start, the warm-up).                                             *)
VmHoldsSlot == Guest => slot

(* The result recorded is one isRunResult accepts, so terminalResult never *)
(* throws: whatever failed, in whichever order, status, failure and        *)
(* cleanup outcomes agree.                                                 *)
ResultIsValid == result # NoResult => IsRunResult(result)

\* a guest without a sandbox object: its start failed, and so did its cleanup
Leaked == Guest /\ box = "none" /\ pc \notin Setup

(* A result that lets the run go on (retry, backoff or resume) is given    *)
(* only when no VM of the attempt is running and no read-only checkout is  *)
(* left behind.                                                            *)
RetryableIsClean ==
  result # NoResult /\ result.retry \in {"manual", "backoff", "resume"} =>
    ~Guest /\ checkout # "snapshot"

(* ... and a failed start whose cleanup failed too is the only exception.  *)
RetryableUnlessLeaked == RetryableIsClean \/ Leaked

(* An interrupted run keeps the workspace its resume continues in          *)
(* (architecture.md: shutdown preserves "session/workspace eligibility for *)
(* a fresh-VM resume").                                                    *)
InterruptedKeepsWorkspace ==
  result # NoResult /\ result.status = "interrupted" =>
    (workspace = "worktree" => checkout # "removed")

(* The worktree is captured and the snapshot removed only when no guest    *)
(* can still write to them or read from them, but for a leaked one.        *)
CaptureAfterClose == [][checkout' # checkout => ~Guest \/ Leaked]_vars

(* No model call is made for an attempt already aborted.                   *)
NoPromptAfterAbort == [][prompts' > prompts => ~Aborted]_vars

(* The attempt keeps its promises to the run, for the VM it was given a    *)
(* sandbox object of.                                                      *)
Contract == INSTANCE AttemptContract
  WITH vm <- IF box = "none" THEN "none" ELSE vm,
       outcome <- IF pc = "ended" THEN result.status ELSE "none"
KeepsContract == Contract!Spec

(* Every attempt ends: by itself, or because its deadline or a stop ends   *)
(* the model's turn (architecture.md: "Explicit operator cancellation      *)
(* aborts model activity").                                                *)
AttemptEnds == <>(pc \in Final)

(* ... and it does, unless it prompts the model after its one abort: no    *)
(* failure, pause of the deadline or failed close keeps it alive.          *)
EndsUnlessPromptedLate == AttemptEnds \/ <>(Aborted /\ turn = "working")
==============================================================================
