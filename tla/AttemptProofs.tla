---------------------------- MODULE AttemptProofs ----------------------------
(***************************************************************************)
(* Proofs about Attempt, for every set of workspace modes and faults: the  *)
(* type invariant, the three invariants its run checks, the action         *)
(* property about its checkout, and that it implements AttemptContract.    *)
(*                                                                         *)
(* Where the function is decides what may exist; what a stop or a failed   *)
(* close can change at any moment is only the box, and with it the guest   *)
(* and the slot.  The inductive invariant Inv therefore relates pc to the  *)
(* VM (MachineInv), to what the function has been told of its close        *)
(* (SandboxInv) and to the checkout (WorkspaceInv), and a result to the    *)
(* cleanup it was judged by (ResultInv).                                   *)
(***************************************************************************)
EXTENDS Attempt, TLAPS

Unbooted == {"entered", "resolving", "preparing", "slotted", "starting"}
Boxless == Unbooted \cup {"warming", "booting"}
Boxed == {"recording", "creating", "registering", "prompting", "settled",
          "closing", "finalizing", "completing", "saving", "reaping"}

(* The VM: it comes with the slot, the box with the VM; a closed box has no *)
(* guest.                                                                   *)
MachineInv ==
  /\ pc \in Unbooted => vm = "none"
  /\ pc = "booting" => vm = "running"
  /\ pc \in {"slotted", "warming", "starting", "booting"} => slot
  /\ pc \in Boxless => box = "none"
  /\ pc \in Boxed => box # "none"
  /\ box \in {"open", "closing"} => vm \in {"running", "closed"}
  /\ box = "closed" => vm = "closed"
  /\ Guest => slot

(* What the function believes of the VM is so: it finalizes over a closed  *)
(* box, and records a failure over an open one only as blocked.            *)
SandboxInv ==
  /\ pc \in {"finalizing", "completing", "saving"} =>
       box = "closed" /\ cleanup.sandbox = "proved"
  /\ pc \in {"releasing", "recordingFailure", "savingFailure"} =>
       box \in {"none", "closed"} \/ cleanup.sandbox = "blocked"

Blocked == cleanup.sandbox = "blocked" \/ cleanup.workspace = "blocked"

(* A read-only checkout is there until its removal is proved.              *)
WorkspaceInv ==
  /\ workspace = "operator" => cleanup.workspace = "not-needed"
  /\ workspace = "snapshot" =>
       cleanup.workspace \in {"retained", "proved", "blocked"}
  /\ checkout = "snapshot" =>
       workspace = "snapshot" /\ cleanup.workspace \in {"retained", "blocked"}
  /\ pc \in {"completing", "saving"} =>
       cleanup.workspace \in {"proved", "not-needed"}
  /\ pc \in {"recordingFailure", "savingFailure"} =>
       checkout # "snapshot" \/ Blocked

(* A result says what the cleanup says, and is judged by it.               *)
ResultInv ==
  /\ result # NoResult => pc \in {"saving", "savingFailure", "ended"}
  /\ pc \in {"saving", "savingFailure", "ended"} => IsRunResult(result)
  /\ pc = "saving" => result.status = "completed" /\ result.retry = "none"
  /\ pc = "savingFailure" =>
       /\ result.status \in {"failed", "cancelled", "interrupted",
                           "cleanup-blocked"}
       /\ result.status = "cleanup-blocked" \/ ~Blocked
  /\ pc \in {"savingFailure", "ended"}
       /\ result.retry \in {"manual", "backoff", "resume"} =>
       box \in {"none", "closed"} /\ checkout # "snapshot"

Inv == MachineInv /\ SandboxInv /\ WorkspaceInv /\ ResultInv

(* A result has a status; NoResult has none of them.                       *)
LEMMA NoResultIsNone == NoResult \notin Results
<1> SUFFICES ASSUME NoResult \in Results PROVE FALSE
  OBVIOUS
<1>1. NoResult.status \in ResultStatuses
  BY DEF Results
<1>2. NoResult.status = "none"
  BY DEF NoResult
<1> QED
  BY <1>1, <1>2 DEF ResultStatuses

LEMMA InitInv == Init => TypeOK /\ Inv
<1> SUFFICES ASSUME Init PROVE TypeOK /\ Inv
  OBVIOUS
<1> USE DEF Init
<1>1. TypeOK
  <2>1. checkout \in {"operator", "snapshot", "worktree", "captured", "removed"}
    BY WorkspacesAssumption
  <2>2. cleanup \in [sandbox : Cleanups, workspace : Cleanups]
    BY DEF Cleanups
  <2>3. journal \in Seq(Events)
    OBVIOUS
  <2>4. pc \in Locations /\ error \in Errors
    BY DEF Locations, Setup, Final, Errors
  <2>5. prompts \in 0..PromptLimit
    BY DEF PromptLimit
  <2>6. slot \in BOOLEAN
    BY Zenon
  <2> QED
    BY <2>1, <2>2, <2>3, <2>4, <2>5, <2>6 DEF TypeOK
<1>2. MachineInv /\ SandboxInv
  BY DEF MachineInv, SandboxInv, Boxless, Boxed, Unbooted, Guest
<1>3. WorkspaceInv /\ ResultInv
  BY WorkspacesAssumption DEF WorkspaceInv, ResultInv, TypeOK
<1> QED
  BY <1>1, <1>2, <1>3 DEF Inv

(* What a failure is called and permits: it blocks exactly when a cleanup  *)
(* is blocked (classifyAttemptFailure, runNativeAttempt's catch).          *)
LEMMA Judgement ==
  ASSUME TypeOK
  PROVE  LET outcome == Outcome(cleanup.sandbox, cleanup.workspace)
             retry == Disposition(error, cleanup.sandbox, cleanup.workspace)
         IN
         /\ outcome \in {"failed", "cancelled", "interrupted", "cleanup-blocked"}
         /\ outcome = "cleanup-blocked" <=> Blocked
         /\ retry \in Retries
         /\ Blocked => retry = "reconcile"
<1> DEFINE outcome == Outcome(cleanup.sandbox, cleanup.workspace)
           retry == Disposition(error, cleanup.sandbox, cleanup.workspace)
<1>1. external \in {"none", "operator", "seat-shutdown"}
  BY DEF TypeOK
<1>2. /\ outcome \in {"failed", "cancelled", "interrupted", "cleanup-blocked"}
      /\ outcome = "cleanup-blocked" <=> Blocked
  BY <1>1 DEF Outcome, Blocked
<1>3. Blocked => retry = "reconcile"
  BY DEF Disposition, Blocked
<1>4. ASSUME ~Blocked PROVE retry \in Retries
  <2>1. CASE external # "none"
    BY <1>1, <1>4, <2>1 DEF Disposition, Blocked, Retries
  <2>2. CASE /\ external = "none"
             /\ error = "capacity" \/ fatal = "yes" \/ deadline = "expired"
    BY <1>4, <2>2 DEF Disposition, Blocked, Retries
  <2>3. CASE /\ external = "none" /\ error # "capacity"
             /\ fatal # "yes" /\ deadline # "expired"
    BY <1>4, <2>3 DEF Disposition, Blocked, Retries
  <2> QED
    BY <2>1, <2>2, <2>3
<1> HIDE DEF outcome, retry
<1>5. retry \in Retries
  BY <1>3, <1>4 DEF Retries
<1> QED
  BY <1>2, <1>3, <1>5 DEF outcome, retry

(* The results the function makes are valid.                               *)
LEMMA CompletionIsValid ==
  ASSUME TypeOK, SandboxInv, WorkspaceInv, pc = "completing"
  PROVE  IsRunResult([status |-> "completed", retry |-> "none",
                      sandbox |-> cleanup.sandbox,
                      workspace |-> cleanup.workspace])
BY DEF TypeOK, SandboxInv, WorkspaceInv, IsRunResult, Results, ResultStatuses,
       Proved

LEMMA FailureIsValid ==
  ASSUME TypeOK
  PROVE  IsRunResult([status |-> Outcome(cleanup.sandbox, cleanup.workspace),
                      retry |-> Disposition(error, cleanup.sandbox,
                                            cleanup.workspace),
                      sandbox |-> cleanup.sandbox,
                      workspace |-> cleanup.workspace])
<1> DEFINE outcome == Outcome(cleanup.sandbox, cleanup.workspace)
           retry == Disposition(error, cleanup.sandbox, cleanup.workspace)
<1>1. /\ outcome \in {"failed", "cancelled", "interrupted", "cleanup-blocked"}
      /\ outcome = "cleanup-blocked" <=> Blocked
      /\ retry \in Retries
  BY Judgement
<1>2. cleanup.sandbox \in Cleanups /\ cleanup.workspace \in Cleanups
  BY DEF TypeOK
<1> HIDE DEF outcome, retry
<1>3. IsRunResult([status |-> outcome, retry |-> retry,
                   sandbox |-> cleanup.sandbox, workspace |-> cleanup.workspace])
  BY <1>1, <1>2
    DEF IsRunResult, Results, ResultStatuses, Retries, Proved, Blocked
<1> QED
  BY <1>3 DEF outcome, retry

(* The VM, the box and the slot: an abort or a timeout only begins a close. *)
LEMMA MachineStep == TypeOK /\ Inv /\ [Next]_vars => MachineInv'
<1> SUFFICES ASSUME TypeOK, Inv, [Next]_vars PROVE MachineInv'
  OBVIOUS
<1> USE DEF TypeOK, Inv, MachineInv, Unbooted, Boxless, Boxed, Guest
<1>1. CASE Start
  BY <1>1 DEF Start, Log, Go, given, signals, machine, session, durable
<1>2. CASE ResolveModel
  BY <1>2 DEF ResolveModel, Go, Fail, given, signals, machine, session, durable
<1>3. CASE AcquireSlot
  BY <1>3 DEF AcquireSlot, Go, Fail, given, signals, machine, session, durable
<1>4. CASE BeginBoot
  BY <1>4 DEF BeginBoot, Go, given, signals, machine, session, durable
<1>5. CASE WarmUp
  BY <1>5 DEF WarmUp, Go, Fail, given, signals, machine, session, durable
<1>6. CASE LaunchVm
  BY <1>6 DEF LaunchVm, Go, Fail, given, signals, machine, session, durable
<1>7. CASE StartVm
  BY <1>7 DEF StartVm, Go, Fail, given, signals, machine, session, durable
<1>8. CASE RecordSandbox
  BY <1>8
    DEF RecordSandbox, Log, Go, Fail, given, signals, machine, session,
      durable
<1>9. CASE CreateSession
  BY <1>9
    DEF CreateSession, Go, Fail, given, signals, machine, session, durable
<1>10. CASE RecordSession
  BY <1>10
    DEF RecordSession, Log, Go, Fail, given, signals, machine, session,
      durable
<1>11. CASE SettleSession
  BY <1>11
    DEF SettleSession, Go, Fail, given, signals, machine, session, durable
<1>12. CASE Finalize
  BY <1>12 DEF Finalize, Go, Fail, given, signals, machine, session, durable
<1>13. CASE RecordCompletion
  BY <1>13
    DEF RecordCompletion, Log, Go, Fail, given, signals, machine, session,
      durable
<1>14. CASE SaveCompletion
  BY <1>14
    DEF SaveCompletion, Go, Fail, given, signals, machine, session, durable
<1>15. CASE Unwind
  BY <1>15 DEF Unwind, Go, given, signals, machine, session, durable
<1>16. CASE ReleaseSnapshot
  BY <1>16 DEF ReleaseSnapshot, Go, given, signals, machine, session, durable
<1>17. CASE RecordFailure
  BY <1>17
    DEF RecordFailure, Log, Go, given, signals, machine, session, durable
<1>18. CASE SaveFailure
  BY <1>18 DEF SaveFailure, Go, given, signals, machine, session, durable
<1>19. CASE PromptReturns
  BY <1>19
    DEF PromptReturns, Go, Fail, given, signals, machine, session, durable
<1>20. CASE PromptThrows
  BY <1>20 DEF PromptThrows, Fail, given, signals, machine, session, durable
<1>21. CASE CloseDone
  BY <1>21 DEF CloseDone, Go, given, signals, machine, session, durable
<1>22. CASE CloseFails
  BY <1>22 DEF CloseFails, Go, Fail, given, signals, machine, session, durable
<1>23. CASE Expire
  BY <1>23 DEF Expire, Listener, given, signals, machine, session, durable
<1>24. ASSUME NEW reason \in {"operator", "seat-shutdown"}, Stop(reason)
      PROVE  MachineInv'
  BY <1>24 DEF Stop, Listener, given, signals, machine, session, durable
<1>25. CASE ToolTimesOut
  BY <1>25 DEF ToolTimesOut, given, signals, machine, session, durable
<1>26. CASE ToolAborts
  BY <1>26 DEF ToolAborts, Listener, given, signals, machine, session, durable
<1>27. CASE Done
  BY <1>27 DEF Done, vars, given, signals, machine, session, durable
<1>28. CASE UNCHANGED vars
  BY <1>28 DEF vars, given, signals, machine, session, durable
<1> QED
  BY <1>1, <1>2, <1>3, <1>4, <1>5, <1>6, <1>7, <1>8, <1>9, <1>10, <1>11,
     <1>12, <1>13, <1>14, <1>15, <1>16, <1>17, <1>18, <1>19, <1>20, <1>21,
     <1>22, <1>23, <1>24, <1>25, <1>26, <1>27, <1>28
    DEF Next, Advance, ModelReturns, CloseSettles

(* What the function has been told of its close.                           *)
LEMMA SandboxStep == TypeOK /\ Inv /\ [Next]_vars => SandboxInv'
<1> SUFFICES ASSUME TypeOK, Inv, [Next]_vars PROVE SandboxInv'
  OBVIOUS
<1> USE DEF TypeOK, Inv, SandboxInv, MachineInv, Boxless, Boxed, Unbooted, Cleanups
<1>1. CASE Start
  BY <1>1 DEF Start, Log, Go, given, signals, machine, session, durable
<1>2. CASE ResolveModel
  BY <1>2 DEF ResolveModel, Go, Fail, given, signals, machine, session, durable
<1>3. CASE AcquireSlot
  BY <1>3 DEF AcquireSlot, Go, Fail, given, signals, machine, session, durable
<1>4. CASE BeginBoot
  BY <1>4 DEF BeginBoot, Go, given, signals, machine, session, durable
<1>5. CASE WarmUp
  BY <1>5 DEF WarmUp, Go, Fail, given, signals, machine, session, durable
<1>6. CASE LaunchVm
  BY <1>6 DEF LaunchVm, Go, Fail, given, signals, machine, session, durable
<1>7. CASE StartVm
  BY <1>7 DEF StartVm, Go, Fail, given, signals, machine, session, durable
<1>8. CASE RecordSandbox
  BY <1>8
    DEF RecordSandbox, Log, Go, Fail, given, signals, machine, session,
      durable
<1>9. CASE CreateSession
  BY <1>9
    DEF CreateSession, Go, Fail, given, signals, machine, session, durable
<1>10. CASE RecordSession
  BY <1>10
    DEF RecordSession, Log, Go, Fail, given, signals, machine, session,
      durable
<1>11. CASE SettleSession
  BY <1>11
    DEF SettleSession, Go, Fail, given, signals, machine, session, durable
<1>12. CASE Finalize
  BY <1>12 DEF Finalize, Go, Fail, given, signals, machine, session, durable
<1>13. CASE RecordCompletion
  BY <1>13
    DEF RecordCompletion, Log, Go, Fail, given, signals, machine, session,
      durable
<1>14. CASE SaveCompletion
  BY <1>14
    DEF SaveCompletion, Go, Fail, given, signals, machine, session, durable
<1>15. CASE Unwind
  BY <1>15 DEF Unwind, Go, given, signals, machine, session, durable
<1>16. CASE ReleaseSnapshot
  BY <1>16 DEF ReleaseSnapshot, Go, given, signals, machine, session, durable
<1>17. CASE RecordFailure
  BY <1>17
    DEF RecordFailure, Log, Go, given, signals, machine, session, durable
<1>18. CASE SaveFailure
  BY <1>18 DEF SaveFailure, Go, given, signals, machine, session, durable
<1>19. CASE PromptReturns
  BY <1>19
    DEF PromptReturns, Go, Fail, given, signals, machine, session, durable
<1>20. CASE PromptThrows
  BY <1>20 DEF PromptThrows, Fail, given, signals, machine, session, durable
<1>21. CASE CloseDone
  BY <1>21 DEF CloseDone, Go, given, signals, machine, session, durable
<1>22. CASE CloseFails
  BY <1>22 DEF CloseFails, Go, Fail, given, signals, machine, session, durable
<1>23. CASE Expire
  BY <1>23 DEF Expire, Listener, given, signals, machine, session, durable
<1>24. ASSUME NEW reason \in {"operator", "seat-shutdown"}, Stop(reason)
      PROVE  SandboxInv'
  BY <1>24 DEF Stop, Listener, given, signals, machine, session, durable
<1>25. CASE ToolTimesOut
  BY <1>25 DEF ToolTimesOut, given, signals, machine, session, durable
<1>26. CASE ToolAborts
  BY <1>26 DEF ToolAborts, Listener, given, signals, machine, session, durable
<1>27. CASE Done
  BY <1>27 DEF Done, vars, given, signals, machine, session, durable
<1>28. CASE UNCHANGED vars
  BY <1>28 DEF vars, given, signals, machine, session, durable
<1> QED
  BY <1>1, <1>2, <1>3, <1>4, <1>5, <1>6, <1>7, <1>8, <1>9, <1>10, <1>11,
     <1>12, <1>13, <1>14, <1>15, <1>16, <1>17, <1>18, <1>19, <1>20, <1>21,
     <1>22, <1>23, <1>24, <1>25, <1>26, <1>27, <1>28
    DEF Next, Advance, ModelReturns, CloseSettles

(* The checkout and what its cleanup says.                                 *)
LEMMA WorkspaceStep == TypeOK /\ Inv /\ [Next]_vars => WorkspaceInv'
<1> SUFFICES ASSUME TypeOK, Inv, [Next]_vars PROVE WorkspaceInv'
  OBVIOUS
<1> USE DEF TypeOK, Inv, SandboxInv, WorkspaceInv, Blocked, Cleanups
<1>1. CASE Start
  BY <1>1 DEF Start, Log, Go, given, signals, machine, session, durable
<1>2. CASE ResolveModel
  BY <1>2 DEF ResolveModel, Go, Fail, given, signals, machine, session, durable
<1>3. CASE AcquireSlot
  BY <1>3 DEF AcquireSlot, Go, Fail, given, signals, machine, session, durable
<1>4. CASE BeginBoot
  BY <1>4 DEF BeginBoot, Go, given, signals, machine, session, durable
<1>5. CASE WarmUp
  BY <1>5 DEF WarmUp, Go, Fail, given, signals, machine, session, durable
<1>6. CASE LaunchVm
  BY <1>6 DEF LaunchVm, Go, Fail, given, signals, machine, session, durable
<1>7. CASE StartVm
  BY <1>7 DEF StartVm, Go, Fail, given, signals, machine, session, durable
<1>8. CASE RecordSandbox
  BY <1>8
    DEF RecordSandbox, Log, Go, Fail, given, signals, machine, session,
      durable
<1>9. CASE CreateSession
  BY <1>9
    DEF CreateSession, Go, Fail, given, signals, machine, session, durable
<1>10. CASE RecordSession
  BY <1>10
    DEF RecordSession, Log, Go, Fail, given, signals, machine, session,
      durable
<1>11. CASE SettleSession
  BY <1>11
    DEF SettleSession, Go, Fail, given, signals, machine, session, durable
<1>12. CASE Finalize
  BY <1>12 DEF Finalize, Go, Fail, given, signals, machine, session, durable
<1>13. CASE RecordCompletion
  BY <1>13
    DEF RecordCompletion, Log, Go, Fail, given, signals, machine, session,
      durable
<1>14. CASE SaveCompletion
  BY <1>14
    DEF SaveCompletion, Go, Fail, given, signals, machine, session, durable
<1>15. CASE Unwind
  BY <1>15 DEF Unwind, Go, given, signals, machine, session, durable
<1>16. CASE ReleaseSnapshot
  BY <1>16 DEF ReleaseSnapshot, Go, given, signals, machine, session, durable
<1>17. CASE RecordFailure
  BY <1>17
    DEF RecordFailure, Log, Go, given, signals, machine, session, durable
<1>18. CASE SaveFailure
  BY <1>18 DEF SaveFailure, Go, given, signals, machine, session, durable
<1>19. CASE PromptReturns
  BY <1>19
    DEF PromptReturns, Go, Fail, given, signals, machine, session, durable
<1>20. CASE PromptThrows
  BY <1>20 DEF PromptThrows, Fail, given, signals, machine, session, durable
<1>21. CASE CloseDone
  BY <1>21 DEF CloseDone, Go, given, signals, machine, session, durable
<1>22. CASE CloseFails
  BY <1>22 DEF CloseFails, Go, Fail, given, signals, machine, session, durable
<1>23. CASE Expire
  BY <1>23 DEF Expire, Listener, given, signals, machine, session, durable
<1>24. ASSUME NEW reason \in {"operator", "seat-shutdown"}, Stop(reason)
      PROVE  WorkspaceInv'
  BY <1>24 DEF Stop, Listener, given, signals, machine, session, durable
<1>25. CASE ToolTimesOut
  BY <1>25 DEF ToolTimesOut, given, signals, machine, session, durable
<1>26. CASE ToolAborts
  BY <1>26 DEF ToolAborts, Listener, given, signals, machine, session, durable
<1>27. CASE Done
  BY <1>27 DEF Done, vars, given, signals, machine, session, durable
<1>28. CASE UNCHANGED vars
  BY <1>28 DEF vars, given, signals, machine, session, durable
<1> QED
  BY <1>1, <1>2, <1>3, <1>4, <1>5, <1>6, <1>7, <1>8, <1>9, <1>10, <1>11,
     <1>12, <1>13, <1>14, <1>15, <1>16, <1>17, <1>18, <1>19, <1>20, <1>21,
     <1>22, <1>23, <1>24, <1>25, <1>26, <1>27, <1>28
    DEF Next, Advance, ModelReturns, CloseSettles

(* The result: made from the cleanup, and only forgotten afterwards.       *)
LEMMA ResultStep == TypeOK /\ Inv /\ [Next]_vars => ResultInv'
<1> SUFFICES ASSUME TypeOK, Inv, [Next]_vars PROVE ResultInv'
  OBVIOUS
<1> USE DEF TypeOK, Inv, SandboxInv, WorkspaceInv, ResultInv, Blocked
<1>1. CASE Start
  BY <1>1 DEF Start, Log, Go, given, signals, machine, session, durable
<1>2. CASE ResolveModel
  BY <1>2 DEF ResolveModel, Go, Fail, given, signals, machine, session, durable
<1>3. CASE AcquireSlot
  BY <1>3 DEF AcquireSlot, Go, Fail, given, signals, machine, session, durable
<1>4. CASE BeginBoot
  BY <1>4 DEF BeginBoot, Go, given, signals, machine, session, durable
<1>5. CASE WarmUp
  BY <1>5 DEF WarmUp, Go, Fail, given, signals, machine, session, durable
<1>6. CASE LaunchVm
  BY <1>6 DEF LaunchVm, Go, Fail, given, signals, machine, session, durable
<1>7. CASE StartVm
  BY <1>7 DEF StartVm, Go, Fail, given, signals, machine, session, durable
<1>8. CASE RecordSandbox
  BY <1>8
    DEF RecordSandbox, Log, Go, Fail, given, signals, machine, session,
      durable
<1>9. CASE CreateSession
  BY <1>9
    DEF CreateSession, Go, Fail, given, signals, machine, session, durable
<1>10. CASE RecordSession
  BY <1>10
    DEF RecordSession, Log, Go, Fail, given, signals, machine, session,
      durable
<1>11. CASE SettleSession
  BY <1>11
    DEF SettleSession, Go, Fail, given, signals, machine, session, durable
<1>12. CASE Finalize
  BY <1>12 DEF Finalize, Go, Fail, given, signals, machine, session, durable
<1>13. CASE RecordCompletion
  BY <1>13, CompletionIsValid
    DEF RecordCompletion, Log, Go, Fail, given, signals, machine, session,
      durable
<1>14. CASE SaveCompletion
  BY <1>14
    DEF SaveCompletion, Go, Fail, given, signals, machine, session, durable
<1>15. CASE Unwind
  BY <1>15 DEF Unwind, Go, given, signals, machine, session, durable
<1>16. CASE ReleaseSnapshot
  BY <1>16 DEF ReleaseSnapshot, Go, given, signals, machine, session, durable
<1>17. CASE RecordFailure
  BY <1>17, FailureIsValid, Judgement
    DEF RecordFailure, Log, Go, given, signals, machine, session, durable
<1>18. CASE SaveFailure
  BY <1>18 DEF SaveFailure, Go, given, signals, machine, session, durable
<1>19. CASE PromptReturns
  BY <1>19
    DEF PromptReturns, Go, Fail, given, signals, machine, session, durable
<1>20. CASE PromptThrows
  BY <1>20 DEF PromptThrows, Fail, given, signals, machine, session, durable
<1>21. CASE CloseDone
  BY <1>21 DEF CloseDone, Go, given, signals, machine, session, durable
<1>22. CASE CloseFails
  BY <1>22 DEF CloseFails, Go, Fail, given, signals, machine, session, durable
<1>23. CASE Expire
  BY <1>23 DEF Expire, Listener, given, signals, machine, session, durable
<1>24. ASSUME NEW reason \in {"operator", "seat-shutdown"}, Stop(reason)
      PROVE  ResultInv'
  BY <1>24 DEF Stop, Listener, given, signals, machine, session, durable
<1>25. CASE ToolTimesOut
  BY <1>25 DEF ToolTimesOut, given, signals, machine, session, durable
<1>26. CASE ToolAborts
  BY <1>26 DEF ToolAborts, Listener, given, signals, machine, session, durable
<1>27. CASE Done
  BY <1>27 DEF Done, vars, given, signals, machine, session, durable
<1>28. CASE UNCHANGED vars
  BY <1>28 DEF vars, given, signals, machine, session, durable
<1> QED
  BY <1>1, <1>2, <1>3, <1>4, <1>5, <1>6, <1>7, <1>8, <1>9, <1>10, <1>11,
     <1>12, <1>13, <1>14, <1>15, <1>16, <1>17, <1>18, <1>19, <1>20, <1>21,
     <1>22, <1>23, <1>24, <1>25, <1>26, <1>27, <1>28
    DEF Next, Advance, ModelReturns, CloseSettles

(* Every step keeps the types, one group of variables at a time.           *)
LEMMA TypeStep == TypeOK /\ Inv /\ [Next]_vars => TypeOK'
<1> SUFFICES ASSUME TypeOK, Inv, [Next]_vars PROVE TypeOK'
  OBVIOUS
<1> USE DEF TypeOK, Next, vars, Advance, ModelReturns, CloseSettles, Start,
      ResolveModel, AcquireSlot, BeginBoot, WarmUp, LaunchVm, StartVm,
      RecordSandbox, CreateSession, RecordSession, SettleSession, Finalize,
      RecordCompletion, SaveCompletion, Unwind, ReleaseSnapshot,
      RecordFailure, SaveFailure, PromptReturns, PromptThrows, CloseDone,
      CloseFails, Expire, Stop, ToolTimesOut, ToolAborts, Done
<1>1. (workspace \in Workspaces /\ structured \in Structured)'
  BY DEF given
<1>2. (pc \in Locations /\ error \in Errors)'
  BY DEF Go, Fail, Locations, Setup, Final, Errors
<1>3. (/\ deadline \in {"running", "paused", "expired"}
       /\ external \in {"none", "operator", "seat-shutdown"}
       /\ fatal \in {"no", "closing", "yes"})'
  BY DEF signals
<1>4. (/\ box \in {"none", "open", "closing", "closed"}
       /\ vm \in {"none", "warm-up", "running", "closed"})'
  BY DEF machine, Listener
<1>5. (slot \in BOOLEAN)'
  BY DEF machine
<1>6. (/\ turn \in {"none", "idle", "working", "aborting"}
       /\ prompts \in 0..PromptLimit)'
  BY DEF session, Listener, PromptLimit
<1>7. (/\ checkout \in {"operator", "snapshot", "worktree", "captured", "removed"}
       /\ cleanup \in [sandbox : Cleanups, workspace : Cleanups])'
  BY DEF Cleanups
<1>8. (journal \in Seq(Events))'
  BY DEF durable, Log, Events
<1>9. (snapshot \in ResultStatuses \cup {"none"})'
  BY DEF durable, Log, Inv, ResultInv, IsRunResult, Results, ResultStatuses
<1>10. (result \in Results \cup {NoResult})'
  BY ResultStep DEF ResultInv, IsRunResult
<1> QED
  BY <1>1, <1>2, <1>3, <1>4, <1>5, <1>6, <1>7, <1>8, <1>9, <1>10

LEMMA Inductive == Spec => [](TypeOK /\ Inv)
<1>1. TypeOK /\ Inv /\ [Next]_vars => (TypeOK /\ Inv)'
  BY TypeStep, MachineStep, SandboxStep, WorkspaceStep, ResultStep DEF Inv
<1> QED
  BY InitInv, <1>1, PTL DEF Spec

(* Every variable keeps its type, through every failure and stop.          *)
THEOREM AttemptTyped == Spec => []TypeOK
BY Inductive, PTL

(* A guest that may be running is counted: the attempt holds a VM slot     *)
(* (closeStartedVm, the failed start, the warm-up).                        *)
THEOREM GuestsAreCounted == Spec => []VmHoldsSlot
<1>1. Inv => VmHoldsSlot
  BY DEF Inv, MachineInv, VmHoldsSlot
<1> QED
  BY <1>1, Inductive, PTL

(* Whatever failed, in whichever order, the result is one isRunResult      *)
(* accepts, so recording it does not throw.                                *)
THEOREM ResultsAreValid == Spec => []ResultIsValid
<1>1. Inv => ResultIsValid
  BY DEF Inv, ResultInv, ResultIsValid
<1> QED
  BY <1>1, Inductive, PTL

(* A result that lets the run go on leaves no guest and no read-only       *)
(* checkout, unless a failed start leaked its VM (classifyAttemptFailure,  *)
(* startGondolinVm).                                                       *)
THEOREM RetriesStartClean == Spec => []RetryableUnlessLeaked
<1>1. ASSUME Inv PROVE RetryableUnlessLeaked
  <2> SUFFICES ASSUME result # NoResult,
                      result.retry \in {"manual", "backoff", "resume"},
                      ~Leaked
               PROVE  ~Guest /\ checkout # "snapshot"
    BY DEF RetryableUnlessLeaked, RetryableIsClean
  <2>1. pc \in {"savingFailure", "ended"}
    BY <1>1 DEF Inv, ResultInv
  <2>2. box \in {"none", "closed"} /\ checkout # "snapshot"
    BY <1>1, <2>1 DEF Inv, ResultInv
  <2>3. ~Guest
    BY <1>1, <2>1, <2>2 DEF Leaked, Guest, Setup, Inv, MachineInv
  <2> QED
    BY <2>2, <2>3
<1> QED
  BY <1>1, Inductive, PTL

(* The workspace is captured or removed only once no guest can still write *)
(* to it: finalizeWorkspace waits for the proved close, and so does the    *)
(* catch (runNativeAttempt).                                               *)
THEOREM CapturesFollowTheClose == Spec => CaptureAfterClose
<1>1. ASSUME TypeOK, Inv, [Next]_vars, checkout' # checkout
      PROVE  ~Guest \/ Leaked
  <2>1. CASE Finalize
    BY <1>1, <2>1 DEF Finalize, Inv, SandboxInv, MachineInv, Guest
  <2>2. CASE ReleaseSnapshot
    BY <1>1, <2>2
      DEF ReleaseSnapshot, Inv, SandboxInv, MachineInv, Guest, Leaked, Setup
  <2>3. CASE ~Finalize /\ ~ReleaseSnapshot
    BY <1>1, <2>3
      DEF Next, vars, Advance, ModelReturns, CloseSettles, Start,
        ResolveModel, AcquireSlot, BeginBoot, WarmUp, LaunchVm, StartVm,
        RecordSandbox, CreateSession, RecordSession, SettleSession,
        RecordCompletion, SaveCompletion, Unwind, RecordFailure, SaveFailure,
        PromptReturns, PromptThrows, CloseDone, CloseFails, Expire, Stop,
        ToolTimesOut, ToolAborts, Done
  <2> QED
    BY <2>1, <2>2, <2>3
<1>2. TypeOK /\ Inv /\ [Next]_vars =>
        [checkout' # checkout => ~Guest \/ Leaked]_vars
  BY <1>1 DEF vars
<1> QED
  BY <1>2, Inductive, PTL DEF Spec, CaptureAfterClose

(* The attempt implements its contract with the run: at most one VM, one   *)
(* outcome, completion only over a closed VM, nothing booted afterwards.   *)
THEOREM Refinement == Spec => KeepsContract
<1>1. Init => Contract!Init
  BY DEF Init, Contract!Init
<1>2. TypeOK /\ Inv /\ [Next]_vars => [Contract!Next]_(Contract!vars)
  <2> SUFFICES ASSUME TypeOK, Inv, [Next]_vars
               PROVE  [Contract!Next]_(Contract!vars)
    OBVIOUS
  <2> USE DEF Contract!vars
  <2>1. CASE StartVm
    BY <2>1
      DEF StartVm, Go, Fail, Inv, MachineInv, Boxless, Contract!Boot,
        Contract!Next, machine, durable
  <2>2. CASE CloseDone \/ CloseFails
    BY <2>2
      DEF CloseDone, CloseFails, Go, Fail, Inv, MachineInv, Contract!Close,
        Contract!Next, durable
  <2>3. CASE SaveCompletion
    BY <2>3
      DEF SaveCompletion, Go, Fail, Inv, MachineInv, SandboxInv, ResultInv,
        Contract!Settle, Contract!Next, machine
  <2>4. CASE SaveFailure
    BY <2>4, NoResultIsNone
      DEF SaveFailure, Go, Inv, MachineInv, SandboxInv, ResultInv, Blocked,
        Contract!Settle, Contract!Next, machine, TypeOK
  <2>5. CASE UNCHANGED vars \/ Done
    BY <2>5 DEF vars, Done, machine
  <2>6. ASSUME ~(UNCHANGED vars), ~Done, ~StartVm, ~CloseDone, ~CloseFails,
               ~SaveCompletion, ~SaveFailure
        PROVE  UNCHANGED Contract!vars
    <3>1. pc # "ended" /\ pc' # "ended"
      BY <2>6
        DEF Next, Advance, ModelReturns, CloseSettles, Start, ResolveModel,
          AcquireSlot, BeginBoot, WarmUp, LaunchVm, RecordSandbox,
          CreateSession, RecordSession, SettleSession, Finalize,
          RecordCompletion, Unwind, ReleaseSnapshot, RecordFailure,
          PromptReturns, PromptThrows, Expire, Stop, ToolTimesOut, ToolAborts,
          Exposed, Final, Go, Fail
    <3>2. \/ UNCHANGED <<box, vm>>
          \/ box = "none" /\ box' = "none"
          \/ box # "none" /\ box' # "none" /\ UNCHANGED vm
      BY <2>6
        DEF Next, Advance, ModelReturns, CloseSettles, Start, ResolveModel,
          AcquireSlot, BeginBoot, WarmUp, LaunchVm, RecordSandbox,
          CreateSession, RecordSession, SettleSession, Finalize,
          RecordCompletion, Unwind, ReleaseSnapshot, RecordFailure,
          PromptReturns, PromptThrows, Expire, Stop, ToolTimesOut, ToolAborts,
          Listener, machine, Inv, MachineInv, Boxed, Boxless, Unbooted
    <3> QED
      BY <3>1, <3>2
  <2> QED
    BY <2>1, <2>2, <2>3, <2>4, <2>5, <2>6
<1> QED
  BY <1>1, <1>2, Inductive, PTL DEF Spec, KeepsContract, Contract!Spec
==============================================================================
