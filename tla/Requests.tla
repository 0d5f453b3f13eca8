------------------------------ MODULE Requests ------------------------------
(***************************************************************************)
(* What callers ask of one run through one seat.  The subagent tool        *)
(* (execute in src/extension.ts) waits for the service, launches the run   *)
(* and waits for its end, while its caller may abort it; other callers     *)
(* steer the run and send it follow-ups (deliverControl in src/service.ts) *)
(* under operation identifiers that the operation index gives to one       *)
(* request for good (src/persistence/operation-index.ts); an operator      *)
(* stops and retries it; the session shuts down or the process dies, and   *)
(* another seat opens the store.                                           *)
(*                                                                         *)
(* A run object lives in memory, one for each attempt and one for each     *)
(* recovery; a control call keeps the object it found.  An object's        *)
(* promise chain controlTail is the queue of its calls, the first of which *)
(* executes.  The seat reopened after a death offers no call a lost one    *)
(* made: a caller that asks again is another caller, but the tool is       *)
(* called again.  Left out: what preflight and launch compare before they  *)
(* claim, the attempt itself (Attempt), other seats on the run             *)
(* (RunService), owners.  Bounds: Controls (each calls once), MaxObjects,  *)
(* MaxFaults, MaxCrashes.                                                  *)
(***************************************************************************)
EXTENDS Integers, Sequences, FiniteSets

CONSTANTS
  Controls,     \* callers of steer and followUp
  Operations,   \* identifiers callers give
  LaunchId,     \* the identifier of the launch, one of them
  Texts,        \* requests of controls: text and kind
  Asks,         \* what callers may ask: an identifier and a text
  Task,         \* the request of the launch
  Other,        \* a request about another run of the owner
  None,
  MaxObjects,
  MaxFaults,    \* failing appends and starts
  MaxCrashes

ASSUME OperationsAssumption == LaunchId \in Operations
ASSUME TextsAssumption ==
  /\ Task \notin Texts /\ Other \notin Texts \cup {Task}
  /\ None \notin Texts \cup {Task, Other}
ASSUME AsksAssumption == Asks \subseteq Operations \X Texts
ASSUME BoundsAssumption == MaxObjects \in Nat /\ MaxFaults \in Nat /\ MaxCrashes \in Nat

VARIABLES
  index,      \* the operation index: the request of each identifier, or None
  events,     \* control-accepted in the run's journal: object and operation
  runs,       \* the number of objects made; the last is in the map of runs
  object,     \* [status, stage, lease] of each object
  tails,      \* controlTail of each object
  receipts,   \* controlReceipts of each object
  phase,      \* of each control call
  call,       \* its [operation, text, at]
  receipt,    \* its answer
  reached,    \* calls whose text the session queued (nobody reads it)
  exclusive,  \* what runExclusive is doing: "none", "launch" or "retry"
  tool,       \* the tool call
  waitsOn,    \* the object it waits for
  signal,     \* its caller has aborted it
  service,    \* of the extension: "none", "creating" or "ready"
  active,     \* the extension's flag: the session has not shut down
  faults,
  crashes

controls == <<tails, receipts, phase, call, receipt, reached, events>>
tooling == <<tool, waitsOn, signal>>
extension == <<service, active>>
bounds == <<faults, crashes>>
vars == <<index, controls, runs, object, exclusive, tooling, extension, bounds>>

Objects == 1..MaxObjects
Requested == Texts \cup {Task}
States == {"accepted-by-session", "missed", "failed"}
Executing == {"accepting", "failing"}
Pending == {"claiming", "joined"} \cup Executing
Waiting == {"ensuring", "preparing", "launching", "launched", "waiting"}
NoObject == [status |-> "over", stage |-> "ended", lease |-> FALSE]
NoCall == [operation |-> LaunchId, text |-> Task, at |-> 0]

TypeOK ==
  /\ index \in [Operations -> Requested \cup {None, Other}]
  /\ events \subseteq Objects \X Operations
  /\ runs \in 0..MaxObjects
  /\ object \in [Objects -> [status : {"active", "stopping", "over"},
                             stage : {"booting", "running", "ended"},
                             lease : BOOLEAN]]
  /\ tails \in [Objects -> Seq(Controls)]
  /\ receipts \in [Objects -> [Operations -> States \cup {"none"}]]
  /\ phase \in [Controls ->
       {"idle", "conflict", "done", "rejected", "lost"} \cup Pending]
  /\ call \in [Controls -> [operation : Operations, text : Requested,
                            at : 0..MaxObjects]]
  /\ receipt \in [Controls -> States \cup {"none"}]
  /\ reached \subseteq Controls
  /\ exclusive \in {"none", "launch", "retry"}
  /\ tool \in {"idle", "done", "failed"} \cup Waiting
  /\ waitsOn \in 0..MaxObjects
  /\ signal \in BOOLEAN
  /\ service \in {"none", "creating", "ready"}
  /\ active \in BOOLEAN
  /\ faults \in 0..MaxFaults /\ crashes \in 0..MaxCrashes

Init ==
  /\ index \in [Operations -> {None, Other}]
  /\ events = {}
  /\ runs = 0
  /\ object = [n \in Objects |-> NoObject]
  /\ tails = [n \in Objects |-> <<>>]
  /\ receipts = [n \in Objects |-> [o \in Operations |-> "none"]]
  /\ phase = [c \in Controls |-> "idle"]
  /\ call = [c \in Controls |-> NoCall]
  /\ receipt = [c \in Controls |-> "none"]
  /\ reached = {}
  /\ exclusive = "none"
  /\ tool = "idle" /\ waitsOn = 0 /\ signal = FALSE
  /\ service = "none" /\ active = TRUE
  /\ faults = 0 /\ crashes = 0

Fault == faults < MaxFaults /\ faults' = faults + 1

------------------------------------------------------------------------------
(* Slips: the forms the code might have had.                               *)

\* the index is asked only whether the identifier is new
MayClaimAny(o, request) == TRUE

\* the receipt is looked for when the call joins, and no more in its turn
PriorAtJoin(c) == "none"

\* a message for an attempt without controls waits for them
TurnWithControls(c) ==
  /\ phase[c] = "joined" /\ tails[call[c].at] # <<>> /\ Head(tails[call[c].at]) = c
  /\ object[call[c].at].stage = "running"

\* the tool attaches its listener and does not look at the signal
MissedSignalNever == FALSE

\* an accepted message is answered whether or not its event is written
AcceptAnyway(c) ==
  /\ phase[c] = "accepting"
  /\ receipts' = [receipts EXCEPT ![call[c].at][call[c].operation] = "accepted-by-session"]
  /\ receipt' = [receipt EXCEPT ![c] = "accepted-by-session"]
  /\ phase' = [phase EXCEPT ![c] = "done"]
  /\ tails' = [tails EXCEPT ![call[c].at] = Tail(@)]
  /\ \/ events' = events \cup {<<call[c].at, call[c].operation>>} /\ UNCHANGED faults
     \/ Fault /\ UNCHANGED events
  /\ UNCHANGED <<index, call, reached, runs, object, exclusive, tooling, extension,
                 crashes>>

------------------------------------------------------------------------------
(* Control calls.                                                          *)

\* deliverControl finds the run's object, and keeps it over the claim
Call(c, o, text) ==
  /\ phase[c] = "idle" /\ service = "ready" /\ active /\ runs # 0
  /\ phase' = [phase EXCEPT ![c] = "claiming"]
  /\ call' = [call EXCEPT ![c] = [operation |-> o, text |-> text, at |-> runs]]
  /\ UNCHANGED <<index, events, tails, receipts, receipt, reached, runs, object,
                 exclusive, tooling, extension, bounds>>

\* OperationIndex.claim: the link exists, and its record says the same
MayClaim(o, request) == index[o] \in {None, request}

\* one link decides; then the call joins the tail of its object
Claim(c) ==
  /\ phase[c] = "claiming"
  /\ LET o == call[c].operation
         text == call[c].text
     IN
     /\ index' = IF index[o] = None THEN [index EXCEPT ![o] = text] ELSE index
     /\ IF MayClaim(o, text)
        THEN /\ phase' = [phase EXCEPT ![c] = "joined"]
             /\ tails' = [tails EXCEPT ![call[c].at] = Append(@, c)]
        ELSE phase' = [phase EXCEPT ![c] = "conflict"] /\ UNCHANGED tails
  /\ UNCHANGED <<events, receipts, call, receipt, reached, runs, object, exclusive,
                 tooling, extension, bounds>>

\* the calls before it have been answered, one way or the other
Turn(c) ==
  /\ phase[c] = "joined" /\ tails[call[c].at] # <<>> /\ Head(tails[call[c].at]) = c

Prior(c) == receipts[call[c].at][call[c].operation]

\* the call is answered, its receipt kept, and the next call's turn comes
Answer(c, state) ==
  /\ receipts' = [receipts EXCEPT ![call[c].at][call[c].operation] = state]
  /\ receipt' = [receipt EXCEPT ![c] = state]
  /\ phase' = [phase EXCEPT ![c] = "done"]
  /\ tails' = [tails EXCEPT ![call[c].at] = Tail(@)]

\* the receipt of an earlier call with the identifier, or none and the run
\* takes no control
Replay(c) ==
  /\ Turn(c)
  /\ \/ Prior(c) # "none" /\ Answer(c, Prior(c))
     \/ /\ Prior(c) = "none"
        /\ ~(object[call[c].at].status = "active" /\ object[call[c].at].stage = "running")
        /\ Answer(c, "missed")
  /\ UNCHANGED <<index, events, call, reached, runs, object, exclusive, tooling,
                 extension, bounds>>

\* session.steer or followUp: the text is queued, or refused
Deliver(c) ==
  /\ Turn(c) /\ Prior(c) = "none"
  /\ object[call[c].at].status = "active" /\ object[call[c].at].stage = "running"
  /\ \/ reached' = reached \cup {c} /\ phase' = [phase EXCEPT ![c] = "accepting"]
     \/ UNCHANGED reached /\ phase' = [phase EXCEPT ![c] = "failing"]
  /\ UNCHANGED <<index, events, tails, receipts, call, receipt, runs, object,
                 exclusive, tooling, extension, bounds>>

\* an append fails once the attempt has released its lease, or for itself
AppendFails(c) ==
  IF object[call[c].at].lease THEN Fault ELSE UNCHANGED faults

Accept(c) ==
  /\ phase[c] = "accepting" /\ object[call[c].at].lease
  /\ events' = events \cup {<<call[c].at, call[c].operation>>}
  /\ Answer(c, "accepted-by-session")
  /\ UNCHANGED <<index, call, reached, runs, object, exclusive, tooling, extension,
                 bounds>>

\* the event of an accepted message fails: the catch branch
AcceptFails(c) ==
  /\ phase[c] = "accepting" /\ AppendFails(c)
  /\ phase' = [phase EXCEPT ![c] = "failing"]
  /\ UNCHANGED <<index, events, tails, receipts, call, receipt, reached, runs,
                 object, exclusive, tooling, extension, crashes>>

Fail(c) ==
  /\ phase[c] = "failing" /\ object[call[c].at].lease
  /\ Answer(c, "failed")
  /\ UNCHANGED <<index, events, call, reached, runs, object, exclusive, tooling,
                 extension, bounds>>

\* control-failed fails too: the call rejects and leaves no receipt
Reject(c) ==
  /\ phase[c] = "failing" /\ AppendFails(c)
  /\ phase' = [phase EXCEPT ![c] = "rejected"]
  /\ tails' = [tails EXCEPT ![call[c].at] = Tail(@)]
  /\ UNCHANGED <<index, events, receipts, call, receipt, reached, runs, object,
                 exclusive, tooling, extension, crashes>>

------------------------------------------------------------------------------
(* The tool call.                                                          *)

\* ensureService: inactive, ready, or created once for all who ask
Ensure ==
  /\ tool = "idle"
  /\ tool' = IF ~active THEN "failed" ELSE IF service = "ready" THEN "preparing" ELSE "ensuring"
  /\ service' = IF active /\ service = "none" THEN "creating" ELSE service
  /\ UNCHANGED <<index, controls, runs, object, exclusive, waitsOn, signal, active,
                 bounds>>

\* createSubagentService returns, or fails and may be asked again; a service
\* that comes after the session's end is shut down
Created ==
  /\ service = "creating"
  /\ \/ /\ service' = IF active THEN "ready" ELSE "none"
        /\ tool' = IF tool # "ensuring" THEN tool ELSE IF active THEN "preparing" ELSE "failed"
        /\ UNCHANGED faults
     \/ /\ Fault
        /\ service' = "none"
        /\ tool' = IF tool = "ensuring" THEN "failed" ELSE tool
  /\ UNCHANGED <<index, controls, runs, object, exclusive, waitsOn, signal, active,
                 crashes>>

\* preflight, between two looks at the signal
Prepare ==
  /\ tool = "preparing"
  /\ tool' = IF signal THEN "failed" ELSE "launching"
  /\ UNCHANGED <<index, controls, runs, object, exclusive, waitsOn, signal, extension,
                 bounds>>

\* launch, in its turn: the run is here already, or its identifier is claimed
ClaimLaunch ==
  /\ tool = "launching" /\ exclusive = "none"
  /\ IF runs # 0
     THEN tool' = "launched" /\ UNCHANGED <<index, exclusive>>
     ELSE /\ index' = IF index[LaunchId] = None
                      THEN [index EXCEPT ![LaunchId] = Task] ELSE index
          /\ IF MayClaim(LaunchId, Task)
             THEN exclusive' = "launch" /\ UNCHANGED tool
             ELSE tool' = "failed" /\ UNCHANGED exclusive
  /\ UNCHANGED <<controls, runs, object, waitsOn, signal, extension, bounds>>

\* interrupt: only an active run is stopped
Interrupted ==
  IF runs # 0 /\ object[runs].status = "active"
  THEN [object EXCEPT ![runs].status = "stopping"] ELSE object

MissedSignal == signal

\* the receipt is here: the listener is attached, an abort that came before is
\* made up for, and the tool waits for the object now in the map
Await ==
  /\ tool = "launched"
  /\ tool' = "waiting"
  /\ waitsOn' = runs
  /\ object' = IF MissedSignal THEN Interrupted ELSE object
  /\ UNCHANGED <<index, controls, runs, exclusive, signal, extension, bounds>>

\* the caller aborts; the listener interrupts the run
Abort ==
  /\ tool \in Waiting /\ ~signal
  /\ signal' = TRUE
  /\ object' = IF tool = "waiting" THEN Interrupted ELSE object
  /\ UNCHANGED <<index, controls, runs, exclusive, tool, waitsOn, extension, bounds>>

\* the run's end is the call's; its listener goes with it
Return ==
  /\ tool = "waiting" /\ object[waitsOn].status = "over"
  /\ tool' = "done" /\ waitsOn' = 0 /\ signal' = FALSE
  /\ UNCHANGED <<index, controls, runs, object, exclusive, extension, bounds>>

------------------------------------------------------------------------------
(* The run.                                                                *)

\* retry and resume: the run is over and has no lease to keep
Retry ==
  /\ exclusive = "none" /\ runs # 0 /\ runs < MaxObjects /\ service = "ready"
  /\ object[runs].status = "over" /\ ~object[runs].lease
  /\ exclusive' = "retry"
  /\ UNCHANGED <<index, controls, runs, object, tooling, extension, bounds>>

\* startAttempt, to the end: a new object takes the run's place in the map
Start ==
  /\ exclusive # "none" /\ runs < MaxObjects
  /\ runs' = runs + 1
  /\ object' = [object EXCEPT ![runs + 1] =
                  [status |-> "active", stage |-> "booting", lease |-> TRUE]]
  /\ tool' = IF exclusive = "launch" THEN "launched" ELSE tool
  /\ exclusive' = "none"
  /\ UNCHANGED <<index, controls, waitsOn, signal, extension, bounds>>

StartFails ==
  /\ exclusive # "none" /\ (Fault \/ (runs = MaxObjects /\ UNCHANGED faults))
  /\ tool' = IF exclusive = "launch" THEN "failed" ELSE tool
  /\ exclusive' = "none"
  /\ UNCHANGED <<index, controls, runs, object, waitsOn, signal, extension, crashes>>

\* registerControl(control): the session can be steered
Register(n) ==
  /\ object[n].stage = "booting"
  /\ object' = [object EXCEPT ![n].stage = "running"]
  /\ UNCHANGED <<index, controls, runs, exclusive, tooling, extension, bounds>>

\* registerControl(undefined): the attempt ends, with or without a session
Unregister(n) ==
  /\ object[n].stage # "ended"
  /\ object' = [object EXCEPT ![n].stage = "ended"]
  /\ UNCHANGED <<index, controls, runs, exclusive, tooling, extension, bounds>>

\* the attempt settles and releases its lease, or is cleanup-blocked
Settle(n) ==
  /\ object[n].stage = "ended" /\ object[n].status # "over"
  /\ \E keeps \in BOOLEAN : object' = [object EXCEPT ![n].status = "over", ![n].lease = keeps]
  /\ UNCHANGED <<index, controls, runs, exclusive, tooling, extension, bounds>>

\* reconcile proves the cleanup: the lease kept for it is released
Reconcile ==
  /\ runs # 0 /\ object[runs].status = "over" /\ object[runs].lease
  /\ object' = [object EXCEPT ![runs].lease = FALSE]
  /\ UNCHANGED <<index, controls, runs, exclusive, tooling, extension, bounds>>

\* an operator stops the run
Stop ==
  /\ runs # 0 /\ object[runs].status = "active"
  /\ object' = Interrupted
  /\ UNCHANGED <<index, controls, runs, exclusive, tooling, extension, bounds>>

\* session_shutdown: the flag, then the service's shutdown stops its runs
ShutDown ==
  /\ active
  /\ active' = FALSE
  /\ service' = IF service = "ready" THEN "none" ELSE service
  /\ object' = IF service = "ready" THEN Interrupted ELSE object
  /\ UNCHANGED <<index, controls, runs, exclusive, tooling, bounds>>

\* the process ends, and another one opens the store: it knows the run if it
\* was started, and nothing of the calls
Restart ==
  /\ crashes < MaxCrashes
  /\ runs # 0 => runs < MaxObjects
  /\ crashes' = crashes + 1
  /\ runs' = IF runs = 0 THEN 0 ELSE runs + 1
  /\ object' = [n \in Objects |-> NoObject]
  /\ tails' = [n \in Objects |-> <<>>]
  /\ phase' = [c \in Controls |-> IF phase[c] \in Pending THEN "lost" ELSE phase[c]]
  /\ exclusive' = "none"
  /\ tool' = IF tool \in Waiting THEN "idle" ELSE tool
  /\ waitsOn' = 0 /\ signal' = FALSE
  /\ service' = "ready" /\ active' = TRUE
  /\ UNCHANGED <<index, events, receipts, call, receipt, reached, faults>>

Execute(c) ==
  Claim(c) \/ Replay(c) \/ Deliver(c) \/ Accept(c) \/ AcceptFails(c) \/ Fail(c) \/ Reject(c)

Control(c) ==
  \/ \E ask \in Asks : Call(c, ask[1], ask[2])
  \/ Execute(c)

ToolCall ==
  Ensure \/ Created \/ Prepare \/ ClaimLaunch \/ Await \/ Abort \/ Return

Run ==
  \/ Retry \/ Start \/ StartFails \/ Reconcile \/ Stop
  \/ \E n \in Objects : Register(n) \/ Unregister(n) \/ Settle(n)

Next == ToolCall \/ Run \/ ShutDown \/ Restart \/ \E c \in Controls : Control(c)

Spec == Init /\ [][Next]_vars

\* the host schedules callbacks and timers, and an attempt ends at its deadline
FairSpec ==
  /\ Spec
  /\ \A c \in Controls : WF_vars(Execute(c))
  /\ WF_vars(Created) /\ WF_vars(Prepare) /\ WF_vars(ClaimLaunch) /\ WF_vars(Await)
  /\ WF_vars(Return) /\ WF_vars(Start \/ StartFails)
  /\ \A n \in Objects : WF_vars(Unregister(n)) /\ WF_vars(Settle(n))

------------------------------------------------------------------------------
(* Properties.                                                             *)

Same(c, d) == call[c].at = call[d].at /\ call[c].operation = call[d].operation

(* docs/implementation-plan.md: "delivery is serialized, duplicate         *)
(* requests replay one receipt".  Of one attempt, calls with one           *)
(* identifier get one receipt, however they interleave; and the session    *)
(* queues the text of one of them, unless neither event of the first could *)
(* be written and its caller was told of no receipt.                       *)
ReceiptsHold ==
  \A c, d \in Controls : c # d /\ Same(c, d) =>
    /\ phase[c] = "done" /\ phase[d] = "done" => receipt[c] = receipt[d]
    /\ c \in reached /\ d \in reached =>
         \/ phase[c] \in {"rejected", "lost"} \/ phase[d] \in {"rejected", "lost"}

(* docs/persistence.md: "identical replay adopts the mapping and           *)
(* conflicting replay fails".  Whatever attempts, seats and launches used  *)
(* an identifier, all texts a session queued under it are the one that     *)
(* claimed it, and none is under the identifier of the launch.             *)
OneTextPerOperation ==
  \A c \in reached :
    /\ index[call[c].operation] = call[c].text
    /\ \A d \in reached : call[c].operation = call[d].operation => call[c].text = call[d].text

(* docs/contracts.md: "accepted-by-session means the child session queued  *)
(* the input".  A caller that was told so finds the event on file, and     *)
(* some call with its identifier and text reached the session, although    *)
(* appends fail and the attempt may settle while the receipt is written.   *)
AcceptedWasQueued ==
  \A c \in Controls : phase[c] = "done" /\ receipt[c] = "accepted-by-session" =>
    /\ <<call[c].at, call[c].operation>> \in events
    /\ \E d \in reached : Same(c, d) /\ call[d].text = call[c].text

(* The tool's abort (extension.ts onAbort): an abort may come before the   *)
(* run exists, while it is launched or after.  Once the tool waits, the    *)
(* run of an aborted call is not left active.                              *)
AbortedRunStops ==
  tool = "waiting" /\ signal => object[waitsOn].status # "active"

(* Every call is answered, by a receipt, a conflict or a rejection, and    *)
(* the tool's by its run's end, while calls queue behind each other and    *)
(* the attempt ends, is stopped or never takes controls.                   *)
CallsAnswered ==
  /\ \A c \in Controls : phase[c] \in Pending ~> phase[c] \notin Pending
  /\ tool \in Waiting ~> tool \notin Waiting

(* docs/contracts.md: "Duplicate operation IDs replay the prior receipt",  *)
(* without "of one attempt" and "unless": a retried run and one whose      *)
(* receipts could not be written queue a message again.                    *)
DuplicatesReplay ==
  \A c, d \in reached : c # d => call[c].operation # call[d].operation

(* docs/persistence.md, Seat shutdown: it "marks active attempts as        *)
(* stopping".  A launch that is under way when the service shuts down is   *)
(* not among them.                                                         *)
ShutdownLeavesNone ==
  ~active /\ service = "none" => \A n \in Objects : object[n].status # "active"

==============================================================================
