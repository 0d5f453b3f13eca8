# A verification project for pi-subagent

TLA+ models of pi-subagent (`src/src/`), the configurations that model-check
them with TLC, and proofs that the TLA+ proof system checks. Every definition
is translated from the source; `PROJECT.json` maps each of them to its lines.

- [The system](#the-system)
- [What is hard about it](#what-is-hard-about-it)
- [The models](#the-models)
- [The runs](#the-runs)
- [What is proved](#what-is-proved)
- [Where code and documentation disagree](#where-code-and-documentation-disagree)
- [What is not modelled](#what-is-not-modelled)
- [The plan](#the-plan)

## The system

pi-subagent runs coding agents for a host program. A *seat* is one host process
with the extension loaded; several seats may share one store directory. A *run*
is one agent with its brief; it has a plan, a lineage of *attempts* (a launch,
then retries and resumes), usually a Git worktree, and a journal. An attempt
boots one VM (Gondolin, over QEMU), runs a model session whose tools execute in
that VM, and settles with a result.

| Component | Source | State | Operations | Talks to |
|---|---|---|---|---|
| run lease | `persistence/run-lease.ts` | a loopback listener on a port derived from the run; a record file with a generation | acquire, assertCurrent, release | every write of the journal and of the attempt records checks it |
| journal and snapshot | `persistence/journal.ts` | `events.jsonl`, `run.json` | open with repair, append, writeSnapshot | the lease; attempt and service append |
| attempt and run records | `persistence/attempt-record.ts`, `run-record.ts` | create-once files | create, read, latest | the service at launch and at start-up |
| operation index | `persistence/operation-index.ts` | one file per operation id | claim, read | launch and control |
| attempt runner | `runtime/attempt.ts` (+ `deadline.ts`, `failure.ts`) | where it is, abort signals, sandbox, session, cleanup outcomes | one call per attempt | sandbox, session, journal, worktree |
| sandbox | `sandbox/gondolin.ts` | a VM, a slot, a checkpoint lease | create, close | capacity, checkpoints |
| VM capacity | `sandbox/capacity.ts` | one loopback listener per slot | acquire, release | the sandbox |
| warm checkpoints | `sandbox/checkpoints.ts` | per key: image, sidecar, lock, lease files, failure record | lease, tryLock, waitFor, publish, evict, recordFailure | the sandbox |
| guest tools | `sandbox/tools.ts`, `write-budget.ts` | commands in the guest, bytes written | one per tool | abort the attempt by closing its VM |
| worktrees | `workspace/worktree.ts` | a record, a branch and a checkout per attempt | create, capture, release, observe | the service; Git |
| process reconciliation | `reconciliation/process.ts` | none | observe, terminate | reconcile |
| service | `service.ts` | the runs in a seat's memory | launch, retry, resume, control, interrupt, abandon, release, reconcile, prune, export, shutdown, start-up | everything above |
| lifecycle | `lifecycle/reducer.ts`, `contracts.ts` | a status | transitionRunStatus, isRunResult | the service |
| retention | `persistence/retention.ts` | pins, a trash directory with manifests | pin, plan, prune, recover | the service |
| store revision | `persistence/store-revision.ts` | a revision file, a quarantine | ensure | start-up |
| artifacts | `artifacts/store.ts` | one file per digest | put, read | the attempt |
| preflight, contracts, providers, UI | `preflight/`, `launch-contracts.ts`, `*-provider.ts`, `ui/`, `extension.ts` | none that is shared | one call each | the service |

Seats meet only in the file system, on loopback ports and in Git. Within a seat
everything is one JavaScript thread: what can change under an operation changes
at an `await`.

### What makes each component correct

- *lease*: one holder; generations grow; a holder that lost its lease writes
  nothing more.
- *journal*: a file every reader accepts, which loses no confirmed event; a
  snapshot that never runs ahead of it.
- *attempt*: it ends; its result is one `isRunResult` accepts and agrees with
  what was proved of its VM and workspace; a slot covers every VM that may run;
  the worktree is captured only when no guest can write to it.
- *service*: one guest per run; a worktree is never taken from under a guest; an
  attempt starts once; each execution is covered by the lease; durable statuses
  move along the reducer's transitions whichever seat moves them, stale or not;
  recovery does not report completion from an old snapshot.
- *worktrees*: nothing a guest wrote is deleted before it is saved; a hand-off on record
  can be reached; a release is receipted when it is true; what is in Git is on file.
- *checkpoints*: one warm-up per key; an image in use stays; what is published is
  whole; waiters end.
- *budgets*: what an attempt spent is gone for the next one, and nothing else is; no
  reminder is sent twice or weaker than the one before.
- *operations and controls*: an identifier stands for one request for good; calls
  with one identifier get one receipt, and an accepted message was queued; every
  call is answered; an aborted tool call leaves no active run.
- *store revision*: a service finds only what its own build can read, and nothing
  that was written is lost on the way to quarantine.
- *retention*: nothing pinned, live or retained is pruned; an interrupted prune is
  finished, not repeated.

## What is hard about it

`PROJECT.json` lists the hazards at their lines. They fall into these groups.

- *Check, await, act.* Operations check a status in memory or a lease, await
  something, and act on the check (`service.ts:1038`, `2978`,
  `journal.ts:188`).
- *Seats beside each other.* Each seat knows only the runs in its own memory;
  launches, recoveries and releases of two seats meet at the lease and in the
  files (`service.ts:2142`).
- *Death between two writes.* Attempt record, journal, snapshot and worktree are
  written one after the other, and start-up pieces a status together from what
  is there (`service.ts:1096`, `1295`, `1323`).
- *Aborts.* Operator, shutdown, deadline and tool timeouts abort one signal whose
  listener runs once; what it finds at that moment is what is stopped
  (`attempt.ts:378`).
- *Failing cleanups.* A close, a capture or a removal that fails must leave
  slot, lease and worktree held and the result saying so (`gondolin.ts:701`,
  `attempt.ts:829`).
- *Interrupted pruning.* Files are renamed one by one under a manifest; what a
  later prune resumes may have been reopened or retried in between
  (`retention.ts:452`).
- *Git between two files.* A worktree is a record, a branch, a checkout and later a
  commit and a ref, each made by its own command; every later operation compares
  some of them and refuses what does not agree (`worktree.ts:374`, `491`, `747`,
  `958`).
- *Files shared by processes.* Locks, leases and images of the checkpoint store
  are removed by path on the strength of something read before
  (`checkpoints.ts:283`, `445`).

- *Accounts kept in several places.* Usage is in the session, in checkpoints on a
  tail of writes, in terminal events, in the snapshot and in the result in memory;
  the next attempt's limits come from whichever survived (`service.ts:1323`,
  `2705`, `attempt.ts:581`).
- *Calls under one identifier.* Duplicates join calls in flight, receipts are
  appended behind the caller's back, launches are aborted before they answer
  (`service.ts:1926`, `1940`, `extension.ts:951`, `operation-index.ts:150`).
- *Builds after one another.* The revision gate moves entries one by one, names of
  runs are computed and come back, and the next build may be older
  (`store-revision.ts:273`, `279`).

## The models

| Module | Models | State ↔ code |
|---|---|---|
| `RunStatus` | statuses, results, `isRunResult`, the reducer's relation | the unions of `contracts.ts` and `reducer.ts` |
| `FencedLease` | what a lease promises: grants with growing generations, commits only by the holder | abstract |
| `RunLease` | `acquireRunLease` and its lease object, several seats, deaths | `port` is the listener, `record` the file, `pc`/`existing` where a seat is in acquiring, `inflight` what passed `assertCurrent` and is not written yet |
| `EventLog` | what a journal promises: an append-only log and how much of it the snapshot covers | abstract |
| `Journal` | `RunJournal` objects over one file | `lines`/`torn` the file, `handles` the objects with their own counts, `snapshot` the `lastSequence` on disk |
| `JournalProofs` | the theorems about `Journal` and `RunLease` | |
| `AttemptContract` | what an attempt promises its run | abstract |
| `Attempt` | `runNativeAttempt`, with the sandbox, deadline and failure classification it uses | `pc` names the await it is at; `deadline`, `external`, `fatal` are the three signals combined at `attempt.ts:366`; `box` the sandbox object, `vm` the guest, `slot` its capacity lease |
| `AttemptProofs` | the theorems about `Attempt` | |
| `RunLifecycle` | how the durable status of a run may move | abstract, from the reducer |
| `RunService` | one run, several seats: every operation of `service.ts` that starts, ends, frees or recovers it | `attempts`, `journal`, `snapshot`, `trees` are the store; `mem`, `op`, `rec`, `exec` a seat's memory, its exclusive operation, its reconcile and its executing attempt; `guests` the VMs |
| `RunServiceProofs` | the theorems about `RunService` | |
| `WarmBoot` | several sandbox starts over one checkpoint store and one set of slots | `images`, `sidecars`, `failures`, `lock`, `leases` are the files per key; `at` the await a start is at |
| `Retention` | `createRetentionManager` with prune, pin and unpin of `service.ts`, beside seats that retry, die and reopen | `store` the files of each run, `trash` the manifests with what was moved, `refs` the hand-off refs, `port` the retention lease, `held` the run leases; `mem` a seat's memory, `job` what its prune has read and has yet to move |
| `RetentionProofs` | the theorems about `Retention` | |
| `Worktree` | the worktrees and hand-offs of one run, or its snapshots: `worktree.ts`, through the attempts, releases, reconciliations and reopenings of `service.ts` | per attempt name: `record` the file (torn while it is empty), `branch` and `refs` the commits in Git, `dir` and `content` the checkout; `lineage` the attempt records; `result` what the service says of the run; `pc` and `op` the one operation under the run's lease |
| `WorktreeProofs` | the theorems about `Worktree` | |
| `Budget` | what a run may spend: the limits of each attempt record, the counting and the reminders of `runNativeAttempt`, what `service.ts` writes at settlement, reconciliation and start-up | `plans` the attempt records; `checkpoint`, `notices`, `ended` what the journal says, `snapshot` the file; `session`, `baseline`, `prior`, `highest`, `tail` the attempt's own; `spent` and `sent` what really happened |
| `BudgetProofs` | the theorems about `Budget` | |
| `Requests` | callers of one run through one seat: `deliverControl`, `OperationIndex.claim`, the subagent tool of `extension.ts` with its abort, interrupt, retry, shutdown, deaths | `index` the claims, `events` the accepted controls in the journal; per object of the run `object`, `tails` and `receipts`; per caller `phase`, `call`, `receipt`; `tool`, `signal`, `waitsOn` the tool's call |
| `RequestsProofs` | the theorems about `Requests` | |
| `Quarantine` | `quarantineStaleState` and the launches of several builds over one store | `store` the entries and the revision each says, `quarantine` the moved ones, `plan` and `target` where the gate is, `launch` where a launch is; `written` what launches wrote |
| `StoreProofs` | the theorems about `Quarantine` and `WarmBoot` | |

`MC...` modules only hold sets and symmetries for TLC. `RunService` uses what the
modules below it promise: its `holder` is a grant of `RunLease`, its journal is
`EventLog`'s, its executing attempt moves and settles as `AttemptContract`
allows. `RunLease`, `Journal`, `Attempt` and `RunService` each carry a refinement:
`ImplementsFencedLease`, `ImplementsLog`, `KeepsContract`, `FollowsLifecycle`.

In every module one action is one stretch between two awaits that others can
notice; the guard is what the code tests there. Operators marked *slip* are
faulty variants of a definition, used only to confirm that each property notices
a plausible mistake; no specification refers to them.

Simplifications that matter when reading results:

- *RunLease*: a guarded side effect is a check followed by a write; `CallersAwait`
  says whether the holder waits for it before releasing.
- *Journal*: a line is whole, unfinished or glued garbage. A dead process may
  have written none, part or all of a line; a write that fails in a live process
  is governed by `Faults`, operations that overlap under one lease by `Shared`.
- *Attempt*: a model turn returns at will; control messages (`Requests`), steering
  and usage (`Budget`) are left out.
- *RunService*: an attempt's inner failures are summarised by how it ends;
  reconciles of one seat come one at a time; a hand-off is not told from a
  captured worktree without changes; purely informative journal entries are left
  out. A behaviour is *adverse* or not: in an adverse one any guest may outlive its
  seat or a failed start, recorded or not, a seat may stay between its checks
  and the lease while another seat starts an attempt, and operators may abandon or
  release at a seat that knows an older attempt only. `ReleaseUnproved` lets operators
  release before the sandbox is proved gone.
- *Retention*: a file is one of run record, journal, attempt records, lease file and
  one session per attempt; worktree and operation records go the way of a
  session. Which ordinary runs are old or large enough is left open (any of
  them). Runs that retain a worktree are never candidates and are left out.
  `status` is what the journal proves, `mem` what a seat believes; an attempt is
  one step to start and one to settle. A seat opens the store in one step. The files
  a manifest lists are a set with the order in which they move (`Place`).
- *Worktree*: the operations of a run come one at a time, because each holds the run's
  lease (`RunLease`); a tree's content is a value and a commit is a content and the
  attempt that made it. Left out are symbolic links, refs and branches made by
  others, repositories that moved (the code refuses them) and `exportHandoff`, which
  only reads. The guest writes only while its attempt runs; `RunService` has what
  happens otherwise. Cancelled counts as failed, abandonment releases as `release`
  does, and refs are deleted by pruning alone (`Retention`). A launch begins where its
  run record is written. Any command may fail before it has an effect; one that is
  cut short is the two steps of a removal.
- *WarmBoot*: images have one size and any order of eviction; a look at all
  slots is one step; `Overtaking` says whether a process can be overtaken
  between reading a lock and removing a file because of it.

- *Budget*: one resource stands for tokens, cost and runtime; of a result only what it
  permits next and its usage are kept. A write on the tail fails or reaches the
  journal, in order; a snapshot write fails separately. `Unsettled` holds the
  attempts whose settlement may fail in the service once they are cleanup-blocked.
- *Requests*: a control's text and kind are one value. What preflight compares, owners,
  other seats and the attempt itself are left out; an attempt takes controls while it
  is registered.
- *Quarantine*: first attempts only; snapshots and pins go the way of worktrees and
  operations; a probe of the store is one step. `Together` says whether several seats may
  have the store open.

## The runs

| Run | Asks | Shows |
|---|---|---|
| `lease` | three seats, three generations, deaths at any point | a holder stays current; awaited writes never outlive their generation; the fenced lease is implemented |
| `journal` | two objects, three leases, four events, deaths in the middle of writes; in some behaviours failing writes leave nothing, in others half a line or a line that was not synced | where failing writes leave nothing the file can always be read and no confirmed or visible event is lost; the snapshot never overtakes the journal in any |
| `attempt` | every workspace mode, every failure, aborts anywhere | valid results; slots cover guests; retryable results are clean and captures safe unless a failed start leaked its VM; the contract is kept; it ends unless it prompts after its abort |
| `service` | two seats, two attempts, one death, adverse behaviours and others | in all of them executions stay under the lease, every stored and shown result is acceptable and statuses follow the lifecycle; in those that are not adverse there is one guest at a time, none without its worktree, attempts start once, and recovery is from the newest |
| `warm_boot` | two processes (and what dead ones left), two keys, room for one image, two slots, four starts, deaths anywhere, fairness | one warm-up per key, leased images stay, whatever path a start takes it leaves nothing behind, waits for another's warm-up end without their time bound |
| `retention` | two seats, one run, two attempts, two manifests, deaths anywhere | live runs keep their files, pins made before a manifest hold, the run record leaves last, nothing is deleted or overwritten |
| `retention_resume` | a prune interrupted by a death | *violated*: once the store was reopened, what is left of the prune cannot be resumed |
| `worktree` | one run, writing or read-only, three attempts, a failure or a death at any command | files are deleted only once their work is saved, a hand-off on record is pinned, and what exists in Git was on file before |
| `accounting` | a budget of 3, two retries and a resume, one failing write, one death, a timer; the first attempt's settlement may fail halfway | a limit loses at least what the attempt before, if settled, is known to have spent, and at most what it spent; reminders only rise and are written before they are sent |
| `accounting_unsettled` | the settlement of a cleanup-blocked attempt fails | *violated*: the reconciled run forgets what was spent |
| `requests` | two controls, two identifiers one of which is the launch's, two texts, the tool's call, two objects, one fault, one death, fairness | one receipt for calls of one object under one identifier, one text per identifier, accepted means queued, aborted means stopped, every call answered |
| `quarantine` | three builds in any order, two requests, two launches, deaths between any two writes or moves | no open service finds an entry of another revision; every entry written is in the store or in quarantine |

### Bounds, and why they are enough

- *Seats and processes*: two suffice for every check-await-act race in
  `RunService`; `RunLease` has three, so that two contend for what a third left
  behind, and in `WarmBoot` the two contend for what dead starts left under their
  own marks. They are interchangeable (symmetry), except where liveness is checked,
  which uses no symmetry.
- *Attempts*: two in `RunService`, a first and a retry or resume of it; three in
  `Worktree`, where the third can continue from, or resume, what the second made of
  the first's hand-off.
- *Contents* 3: the baseline's and two others, so that a guest can change a tree,
  change it again and change it back; the others are interchangeable (symmetry).
- *Deaths*: one in `RunService`, `Budget` and `Requests` (with two, the second death
  finds the store in a state the first can already produce; what a second one adds in
  `RunService` is the recovery of `RecoversFromLatest` below); unbounded in `RunLease`, `Journal`,
  `WarmBoot`, `Retention`, `Worktree` and `Quarantine`.
- *Generations* 3, *leases* 3, *events* 4: a predecessor, a holder and a
  successor, and more events than any one write or repair touches.
- *Prompts*: 3, which is the code's own limit (a prompt and two repairs).
- *Manifests* 2: a first that was interrupted and another of the same run, or of
  what a retry made of it. `Retention` has one run, because a prune takes its runs
  one after the other and shares nothing between them but the lease and the order
  of the trash; two runs of one attempt each (190 000 states) and one run with three
  attempts and three manifests (1.5 million) hold the same properties.
- *Starts* 4 with one image of room: one process can publish, a second lease the
  image, a third publish another key and evict, and the first come back.

- *Budget 3, turns of at most 2*: an attempt stays below the reminders, reaches one, or
  overruns; three attempts are a launch and two that inherit, by retry or by resume,
  with a session of their own or not.
- *Controls* 2, *objects* 2: a duplicate, a conflict, a call queued behind another, and
  the same before and after a retry or a death.
- *Builds* 3, *launches* 2: an upgrade over an upgrade and one taken back, with a request
  asked again by another build whose entries have the paths of the first.

`CHECK_DEADLOCK FALSE` stands where a bound stops the model (leases, events,
attempts, starts, calls, launches); `RunLease`, `Attempt`, `Retention` and `Worktree` are checked for
deadlock.

### Fairness

Only liveness needs it, and it is stated per action (`FairSpec`).

- `Attempt`: the steps of the function, the settlement of a close, the abort by a
  tool and the deadline's timer happen; the awaits between them are bounded in
  the code (the capacity wait, the start timeout, the close). A model turn owes
  nothing until it is aborted; an aborted one returns.
- `WarmBoot`: a start's own steps happen, including a capacity wait that ends
  with a slot or without, and a warm-up that ends (both bounded in the code).
  The 10-minute bound on waiting for another's warm-up is *not* assumed, so
  `WaitsEnd` speaks of the protocol. Deaths and cancellations are never fair.
- `Requests`: callbacks run and an attempt ends, because it has a deadline; the
  session's answer to a control comes or fails, the host creates the service and
  the launch's preparation returns. Callers, aborts, retries, faults and deaths owe
  nothing.

## What is proved

Every theorem holds for any values of the constants that satisfy the `ASSUME`s of its
module; further hypotheses are named with it. Each follows the same argument: an
inductive invariant, its initial states, one step per action, and the property from it.

### The lease and the journal

`JournalProofs` proves of `RunLease`, for any set of seats and any bound on generations:

- `LeaseTyped`: the type invariant.
- `HolderKeepsLease`: `HolderStaysCurrent`, a seat that finished acquiring is
  current until it releases or dies.
- `AwaitedWritersAreCurrent`, `AwaitedCommitsInOrder`: if callers await their
  guarded writes, no write lands after a later generation was granted, and
  generations of writes never decrease.
- `LeaseRefinement`: if callers await their writes, the listener and the record
  implement `FencedLease`.

They rest on the assumptions declared in `RunLease` (`NoSeat` is not a seat, the
bound is a natural number). `HolderStaysCurrent` is not inductive: a seat still acquiring
could hold an outdated reading of the record. `ExclusiveInv` adds that only the seat that owns the port
is anywhere but idle (`PortInv`), that what it read is the generation on record
(`ReadInv`), that a holder's lease is the record and the record names it (`HeldInv`)
and, under `CallersAwait`, that no committed write is newer than the record
(`OrderInv`) and that whatever is in flight carries the record's lease and belongs to a
seat that still holds it (`FlightInv`).

Of `Journal` it proves, for any number of leases, events and journal objects, any kinds
of failing writes, and operations that do not overlap under one lease (`~Shared`; the
refuted table below shows why):

- `ReadableAgain`: `JournalReadable`, every complete line carries the next number.
- `SnapshotCovered`: `SnapshotWithinJournal`, whatever failing writes leave.
- `LogRefinement`: `ImplementsLog`, the file implements `EventLog`.

None is inductive: an object works with the count and the end of the file it read when
it was opened. `Inv` says that what is under way belongs to the object opened last
(`Alone`), so that what it found is still so, it counts no more lines than there are and
appends no more events than were begun (`CountInv`), and that it counts exactly the
lines where failing writes leave nothing (`CleanInv`). Hence a repair, even one that a
death cut short, removes nothing but the unfinished line, and what a death leaves of an
append is either nothing, an unfinished line or the next event.

### The attempt

`AttemptProofs` proves, for any set of workspace modes and faults, `AttemptTyped`,
`GuestsAreCounted` (`VmHoldsSlot`), `ResultsAreValid` (`ResultIsValid`),
`RetriesStartClean` (`RetryableUnlessLeaked`), `CapturesFollowTheClose`
(`CaptureAfterClose`) and `Refinement`: the attempt implements `AttemptContract`.
An abort, a timeout or the settlement of a close may come at any await, so what is
inductive must hold at each: `MachineInv` says at which awaits there is a VM, a sandbox
object and a slot, `SandboxInv` that the function finalizes only over a closed sandbox
and records a failure over one that is open only as blocked, `WorkspaceInv` that a
read-only checkout is there until its removal is proved, and `ResultInv` that a result
is judged by the cleanup that goes with it. The exception in two of the properties, a
failed start that leaked its VM, is the code's (`AttemptLeak` shows it).

### The service

`RunServiceProofs` proves, for any seats, attempts and deaths:

| Theorem | Property | Where |
|---|---|---|
| `ServiceTyped`, `AttemptsUnderLease` | `TypeOK`, `ExecutesUnderLease` | always |
| `ResultsStayValid` | `ResultsAreValid` | `Writing` |
| `LifecycleFollowed` | `FollowsLifecycle`, the refinement of `RunLifecycle` | `Writing` |
| `PromptStartsOnce`, `PromptRecoversLatest` | `PromptSeatsStartOnce`, `PromptSeatsRecoverLatest` | `Writing`; not adverse |
| `GuestsOneAtATime`, `TreesOutliveGuests` | `OneGuestOnRecord`, `NoGuestWithoutTree` | `Writing`, `~ReleaseUnproved`; not adverse |

Each hypothesis is needed: without `Writing` the abandonment makes an unacceptable
result and a second launch starts the attempt again (`RunServiceAbandon`,
`RunServiceReadOnly`), with `ReleaseUnproved` a worktree is freed under its guest
(`RunServiceRelease`), and in adverse behaviours the table below has the
counterexamples; the properties themselves say which behaviours they are about.
`GuestsAssumption` keeps the names of seats apart from the marks of a guest.

No property is inductive, because a seat acts on what it remembers or read some steps
ago. The invariant is made of parts, each proved from those before it: `LeaseInv` (what
a seat does fits what it remembers and is under the lease that belongs to it),
`SoundInv` (results in memory and on record are acceptable, and only a blocked run
leaves its sandbox unproved), `LineageInv` (whoever works on the run works on its latest
attempt, which did not start before), `CoverInv` (the latest result is in the snapshot,
after the latest start) and `GuestInv` (only the latest attempt may have a guest, in a
worktree that is kept, and whoever takes it to be gone is right). The refinement needs
two others, which hold in adverse behaviours too: `RootInv` (nothing of the run is
written before its record and first worktree, so a launch that finds no worktree is the
first) and `FiledInv` (what the seat that works on the run relies on is what the store
says); every step then moves the stored status along the reducer's relation or not at all.

### Retention

`RetentionProofs` proves, for any seats, runs and bounds:

- `PinsAlwaysHold`: `PinsHold`, a run with a pin gets no manifest. The step that could
  break it is `WriteManifest`, whose run was chosen against the pins in an earlier step;
  so `IInv` says that only the seat with the retention lease is in any of the locked
  steps (`PortInv`), that while it is, whatever it has picked has no pin (`PicksInv`),
  and that the run it has leased is one of its picks (`LeasedInv`).
- `LiveRunsStay`: `LiveStays`; `RecordsLeaveLast`: `CommitLast`; `NothingIsDeleted`:
  `NeverDeleted`; and `RetentionTyped`.

A manifest is carried out long after it was written, by other seats and after deaths,
and a run may be retried meanwhile. The invariant of the last three says that a manifest
moves the run's journal first and its record last, that what it lists is in the trash or
yet to be moved, that a run whose journal is gone is lost to every seat that asks, hence
starts no attempt any more, and that any other has all of its files; and that a run's
lease is with one seat, which executes, opens or moves. They rest on `SeatAssumption` and
`BoundAssumption`.

### Worktrees, budgets, requests, the two stores

`WorktreeProofs` proves, for any set of contents and any number of attempts:

- `HandoffsStayPinned`: `HandoffsPinned`, a hand-off on record is under its ref and
  its tree is not the baseline's.
- `WorkAlwaysSurvives`: `WorkSurvives`, no step deletes the files of a checkout
  whose work is neither in the commit it started at nor under its hand-off ref.
- `EvidenceComesFirst`: `EvidenceFirst`, a branch or a checkout that exists was on file
  before, and still is.

The second follows from the first: a removal compares the tree with the commit the
record expects, which is the start or a hand-off, and a hand-off is pinned. The
first is not inductive, because the capture makes commit, ref and record in three
steps. The inductive invariant adds what holds between them (`CaptureInv`: nothing
was captured before, the tree differs from the baseline, the ref is the branch
when it is noted), and that a checkout is made only where there is none
(`FreshInv`), without which making one could count as a deletion. `Shape` says
that the files are functions of the attempt names. They rest on
`ContentAssumption`: `Damaged` is no content, `Plain` is one. The third needs
`EvidenceInv` beside it: each step belongs to one mode of run, a read-only run has no
branches, and what a pending step is about to make, or has yet to delete, has its record.

`BudgetProofs` proves, for any budget, counts, bounds and faults:

- `AttemptsPay`: `SettledAttemptsPay`, each plan's limit is at most the one before less
  what the journal says that attempt spent, unless that attempt's settlement failed
  halfway (`accounting_unsettled` shows why).
- `AttemptsChargedForTheirOwn`: `ChargedForItsOwn`, an attempt that started costs the run
  at most what it spent, although sessions and terminal events hold earlier usage.
- `RemindersRise`: `StagesRise`, the reminders of an attempt rise, in its journal and in
  its session, and none is sent before it is written.
- `BudgetTyped`: the type invariant.

Neither of the first two is inductive: the usage of the latest attempt is in turn in its session, in its
checkpoints, in a snapshot and in the result in memory. The inductive invariant `Inv`
says that the attempt executed is the latest (`Lineage`), that one which never got to
its session has no checkpoint (`Unspent`), that what the session holds beyond the
baseline lies between the checkpoints, written or queued, and what was spent
(`Counting`), that a result in memory (`Remembered`) and a snapshot that covers the
latest attempt (`Saved`) lie there too, and that a run without a result was not left
cleanup-blocked by its snapshot (`Settled`). For the reminders, which are written through
a queue, `Reminding` says that the queue rises from above what is written up to the
highest stage remembered.

`RequestsProofs` proves, for any callers, identifiers, texts and bounds:
`ReceiptsAlwaysHold`, `OperationsKeepTheirText`, `AcceptedIsQueued`, `AbortedRunsStop`
(the four invariants of the run) and `RequestsTyped`. Its invariant has two parts that
share only the index and the objects. `ControlInv`: the call that executes is the first
of its object's tail and nobody was answered under its identifier (`Heads`), an answer
is the receipt the object keeps (`Kept`), whoever got past the claim has the index's
text (`Indexed`), an accepted operation is in the journal and reached the session
(`Filed`). `ToolInv`: only the last object is not over (`Latest`), so the object the
tool waits for is the one its abort found.

Of `Quarantine`, `StoreProofs` proves, for any requests, builds and launches and while one
seat at a time has the store open (`~Together`): `ServicesFindTheirOwn`, `BytesAreKept` and
`QuarantineTyped`. The invariant adds that entries of another revision are all in the
plan (`Planned`), that the place chosen is free (`Aimed`), that transcripts and
checkouts say no revision (`Silent`) and that one seat is at work (`Alone`). A plan has
one move per entry, for the oldest revision that names it; that a non-empty set of
revisions has an oldest (`OldestExists`) is proved from the well-foundedness of finite
sets, since induction over numbers is out of reach here.

Of `WarmBoot`, `StoreProofs` proves, for any starts, keys, slots and store size:

- `StartsGiveBack`: `NothingLeftBehind`, a start that is over holds nothing.
- `WarmBootTyped`: the type invariant, with no more slots taken than there are.

and, where nobody is overtaken between what it read of a lock and the file it removes
because of that (`~Overtaking`; `WarmBootOvertaken` below shows why):

- `WarmupsAreExclusive`: `OneWarmup`, one warm-up per key runs at a time.
- `LeasedImagesStay`: `LeasedStays`, no eviction takes the image of a granted lease.

None is inductive: locks, leases and images are files that others read at one step and
remove at another. `OwnInv`, which holds in every behaviour, says that a lock that names a
living process is one it believes it has (`LockInv`), that the leases that name it are
exactly those it has or is about to confirm (`LeaseInv`), and who has a key or a slot
(`IdleInv`). An overtaken process may believe in a lock that is gone, which costs it
nothing at its end. `WarmInv` adds, where nobody is overtaken, that the lock a process
believes in is there (`KeptInv`), that a lock about to be reclaimed is no living
process's (`ReclaimInv`), and what the steps of an eviction have established
(`SweepInv`): once it has looked at the lock no publication of its victim is under way,
then the sidecar stays away, so that no new lease is granted, and after the second look
at the leases there is none.

`CommitsInOrder` is proved and no longer run, since it follows from
`NoStaleWriter` and the growing generations.

The type invariants are proved but for that of `Worktree` (only the shape that the proofs
need); it holds in the instance of the runs (add `TypeOK` to a configuration). The runs
leave type invariants out, because they say nothing about the code.

Every invariant the runs check is proved. Model-checked only: all liveness (`EndsUnlessPromptedLate`, `WaitsEnd`,
`CallsAnswered`), which the proof system does not reach, nor does it reach fairness or
enabledness.

## Where code and documentation disagree

The runs above that are *violated*, in more words:

- **An interrupted prune after a reopening** (`retention.ts:452`). A seat that
  dies in the middle of pruning leaves a manifest whose files are partly moved.
  Opening the store makes the run's journal directory again, and taking the run
  lease writes its lease file again; from then on recovery finds a file both in the
  store and in the trash and throws "duplicate state", in this prune and in every
  later one. `persistence.md` says pruning resumes each remaining rename.

- **A settlement that fails forgets what was spent** (`service.ts:2705`). An attempt
  that ends cleanup-blocked has its snapshot written and then rejects in the service;
  the run has no result in memory, reconcile writes a usage of zero, and the resume
  that follows has its full limits again. `acceptance.md:208` says run-wide limits
  survive retry and resume.

Further ones that TLC refutes. Those with a configuration of their own are kept
beside the runs (`tlc -config <cfg> <module>`); for the others take the constants of
the run's configuration, changed as said, and check the one property:

| Configuration | Module | Property | What happens |
|---|---|---|---|
| `RunLeaseUnawaited` | `MCRunLease` | `NoStaleWriter` | an append nobody awaits (`service.ts:1940`) lands after another seat became the holder |
| `Journal.cfg`, `Shared = TRUE` | `MCJournal` | `JournalReadable` | two operations under one retained lease (`service.ts:965`) both append the same sequence number |
| `JournalPartial` | `MCJournal` | `ReadableWhateverFails` | a write fails halfway in a process that lives on (`journal.ts:223`); the next append is glued to it |
| `AttemptStopInSetup` | `MCAttempt` | `AttemptEnds` | a stop during the setup finds no session, the listener is spent (`attempt.ts:378`), and the prompt that follows cannot be aborted, though `architecture.md:290` says operator cancellation aborts model activity |
| `Attempt.cfg` | `MCAttempt` | `NoPromptAfterAbort` | a repair prompt follows an aborted prompt (`attempt.ts:704`) |
| `AttemptLeak` | `MCAttempt` | `RetryableIsClean` | a start whose cleanup failed (`gondolin.ts:705`) is reported as needing none and as retryable |
| `Attempt.cfg` | `MCAttempt` | `InterruptedKeepsWorkspace` | a failure after the capture, with a shutdown signalled (`attempt.ts:829`), is recorded as interrupted without a workspace |
| `RunServiceLeak` | `MCRunService` | `OneGuest` | a leaked start is retried beside the VM it left |
| `RunServiceAbandon` | `MCRunService` | `ResultsAreValid` | the pending result of an abandonment on the live checkout (`service.ts:2830`) is one `isRunResult` rejects |
| `RunService.cfg`, `MaxCrashes = 2` | `MCRunService` | `RecoversFromLatest` | a recovery that read the latest attempt before its lease (`service.ts:1038`) reports an older one |
| `RunService.cfg` | `MCRunService` | `ReleaseSparesInterrupted` | a reconcile makes the run interrupted between release's check and its act (`service.ts:2978`) |
| `RunServiceReadOnly` | `MCRunService` | `AttemptsStartOnce` | after the first seat has finished, the same launch of a read-only run through a second seat executes the attempt again (`service.ts:2142`); for a writing run the reserved worktree stops it |
| `RunService.cfg`, `MaxCrashes = 2`, `Adversities = {TRUE}` | `MCRunService` | `ReleaseSparesGuests` | release at a seat that knows an older attempt judges the latest by its own snapshot of the run (`service.ts:2986`) and frees a worktree whose guest runs, though `persistence.md:208` says release cannot acquire the worktree while the prior VM remains live |
| `Retention.cfg` | `MCRetention` | `PinnedStays` | a run pinned after its prune was interrupted is moved by the next recovery (`retention.ts:452`), though `persistence.md` says pins protect indefinitely |
| `RunService.cfg` | `MCRunService` | `AttemptsStartOnce` | in an adverse behaviour two seats check the same resume; the second, slow to its lease, finds the first's attempt record identical to its own and starts the attempt again (`service.ts:2465`) |
| `RunServiceRelease` | `MCRunService` | `NoGuestWithoutTree` | release frees the worktrees of a cleanup-blocked run without looking at the sandbox cleanup (`service.ts:2990`); `persistence.md` says release cannot acquire the worktree while the VM's end is unproved |
| `RetentionUnsettled` | `MCRetention` | `UnsettledStays` | prune judges a run by the seat's own memory; a run that another seat retried and that ended interrupted is pruned as failed (`service.ts` prune), though `persistence.md` keeps such runs |
| `WorktreeRetries` | `MCWorktree` | `PreparationRetries` | a preparation that failed leaves its reservation; the next one has the same attempt name and is refused, for good (`worktree.ts:374`), though `failures.md:28` says such a failure may be retried |
| `WorktreeWindow` | `MCWorktree` | `CrashWindowReclaimed` | after a death between the commit or the ref and the record (`worktree.ts:491`) the branch is not what the record expects: the run can never be released, hence never be pruned, though `persistence.md:233` says retention reclaims such a ref |
| `Worktree.cfg` | `MCWorktree` | `ResumedWorkIsCaptured` | a worktree that was captured and not yet removed can be resumed, but what is then written can never be captured: "already captured" (`worktree.ts:415`) |
| `Worktree.cfg` | `MCWorktree` | `HandoffIsLatest` | the capture succeeds and the removal fails: the run reports no hand-off, or an earlier one (`worktree.ts:702`) |
| `Worktree.cfg` | `MCWorktree` | `HandoffsAreWork` | a removal that is cut short leaves a dirty worktree; a resume captures it, deleted files and all |
| `Worktree.cfg` | `MCWorktree` | `SnapshotsCanBeRead` | a death between opening and writing a snapshot record (`worktree.ts:958`) leaves one that no listing can read, so no read-only run of the store is reconciled |
| `WarmBootCold` | `MCWarmBoot` | `FailedStaysCold` | a checkpoint that will not resume is leased before its failure record is looked at (`gondolin.ts:262`), though the comment at `gondolin.ts:606` says no later attempt retries it |
| `WarmBootOvertaken` | `MCWarmBoot` | `OneWarmup` | a reclaimer removes the lock another process has just taken (`checkpoints.ts:283`) |
| `Budget.cfg` | `Budget` | `ChargedOnce` | a death or a failure between an attempt's record and its start charges the previous attempt's usage to the run once more (`service.ts:1323`) |
| `Requests.cfg` | `MCRequests` | `DuplicatesReplay` | after a retry, or when neither event of a control could be written, the same identifier queues its message again (`service.ts:1927`), though `contracts.md:663` says duplicates replay the prior receipt |
| `Requests.cfg` | `MCRequests` | `ShutdownLeavesNone` | a launch under way when the session shuts down goes on (`service.ts:1883`), though `persistence.md:128-133` says shutdown marks active attempts as stopping |
| `QuarantineStays` | `MCQuarantine` | `NothingStays` | a launch that died between its reservation and its attempt record, or a gate that died between two moves, leaves a worktree record or a transcript that no other entry names any more (`store-revision.ts:253`) |
| `Quarantine.cfg` | `MCQuarantine` | `StartsClean` | the branch of a quarantined attempt stays in the repository; the same request, whose identifiers are computed (`service.ts:412`), then fails at `git worktree add -b` |
| `Quarantine.cfg`, `Seats = {s1, s2}`, `Together = TRUE` | `MCQuarantine` | `OpenStoresStay`, `ServesOnlyCurrent`, `BytesKept` | the gate looks at no lease: it empties the store under a live seat of another build, and two that move at once rename over each other (`store-revision.ts:279`) |

Not stated as properties, seen while modelling `Budget`: `failures.md` says a missing
receipt permits a reminder to be sent again, but the stage is remembered before its
event is appended (`attempt.ts:581`), so one whose append failed is never sent; an
attempt with two terminal events counts twice in the usage that a later attempt takes
for earlier ones', and a crashed one, which has none, not at all.

## What is not modelled

- *Preflight, launch contracts, settings, providers*: one sequential compilation of
  a plan from files, or one synchronous exchange with the host.
- *Inspector, commands, formatting*: they read what the service shows; of the
  extension only the subagent tool and the session's end are in `Requests`.
- *Artifacts, guest dependencies*: create-once files and path selection.
- *Structured output, host tools*: schemas; only the repair prompts and tool timeouts
  appear, in `Attempt`.
- *Write budget*: a counter of one attempt's guest writes, with a refusal.
- *Process signalling* (`reconciliation/process.ts`): only its verdict, in `RunService`;
  whether a process id was reused is the operating system's.
- *Journal sizes, schema checks, milliseconds*: refusals before anything is written.
- *Listings, logs, hand-off export, waiting* of the service: they change nothing.
- *The host's reaction to an unhandled rejection*, a file system that loses synced data.

## The plan

Written, in this order: `RunStatus`, `FencedLease`, `RunLease`; `AttemptContract`,
`Attempt`, `AttemptProofs`; `RunLifecycle`, `RunService`, `RunServiceProofs`; `EventLog`,
`Journal`, `JournalProofs`;
`WarmBoot`, proved in `StoreProofs`; `Retention`, `RetentionProofs`; `Worktree`, `WorktreeProofs`; `Budget`,
`BudgetProofs`; `Requests`, `RequestsProofs`; `Quarantine`, proved in `StoreProofs`.

Next modules, most important first:

1. `ProcessControl`: identity, signalling and proof of termination.
2. `Records`: attempt and run records as create-once files under two seats.
3. `WriteBudget` and the artifact store, over bounded integers.
4. Liveness of `RunService`: every run is eventually settled or blocked under
   repeated reconciliation.
5. `Worktree` as what implements the `trees` of `RunService`, `Budget` and `Requests` as
   what implements its attempts and its launches.

Next proofs: the type invariant of `Worktree`.
