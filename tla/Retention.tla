------------------------------ MODULE Retention ------------------------------
(***************************************************************************)
(* Pins, pruning and the recovery of interrupted pruning by several seats  *)
(* over one store: createRetentionManager (src/persistence/retention.ts),  *)
(* called by prune, pin and unpin of src/service.ts, beside seats that     *)
(* retry and resume runs, die and reopen.                                  *)
(*                                                                         *)
(* A run is a graph of files.  Pruning holds the retention lease for all   *)
(* of its steps and the run's lease while it moves one run: it writes a    *)
(* manifest into the trash, deletes the hand-off ref and renames file      *)
(* after file, the run record last.  Recovery repeats what an unfinished   *)
(* manifest lists.  Each step is one change others can see.                *)
(*                                                                         *)
(* Attempts are those of RunService, seen from the outside.  Abstracted:   *)
(* which ordinary runs are old or large enough (any of them), worktree     *)
(* and operation records (they go the way of a session), runs that retain  *)
(* a worktree (never candidates).                                          *)
(* Bounds: MaxAttempts attempts of a run, MaxIntents manifests.            *)
(***************************************************************************)
EXTENDS Naturals, Sequences, FiniteSets

CONSTANTS
  Seats,
  NoSeat,         \* nobody has the lease
  Runs,
  MaxAttempts,
  MaxIntents

ASSUME SeatAssumption == NoSeat \notin Seats
ASSUME BoundAssumption == MaxAttempts \in Nat \ {0} /\ MaxIntents \in Nat

VARIABLES
  store,          \* the files of each run under the service root
  status,         \* the status its journal proves, "none" without one
  attempts,       \* how many attempt records it has got
  trash,          \* the manifests in the order they were written
  refs,           \* the runs whose hand-off ref exists
  pins,           \* the runs with a pin
  port,           \* who has the retention lease
  held,           \* who has each run's lease
  mem,            \* what an open seat believes of the runs it knows
  pc,
  job             \* what its operation has read and has yet to do

files == <<store, status, attempts, trash, refs, pins>>
vars == <<files, port, held, mem, pc, job>>

Ref == <<"ref", 0>>
Log == <<"log", 0>>
Tries == <<"attempts", 0>>
Lease == <<"lease", 0>>
Record == <<"record", 0>>
Session(n) == <<"session", n>>
Files == {Log, Tries, Lease, Record} \cup {Session(n) : n \in 1..MaxAttempts}

Ordinary == {"completed", "failed", "cancelled", "abandoned"}
Outcomes == {"completed", "failed", "interrupted", "cleanup-blocked"}
Recorded == Outcomes \cup {"active", "none"}
Beliefs == [status : Recorded, latest : 0..MaxAttempts]

Intents == [run : Runs, paths : SUBSET Files, moved : SUBSET Files,
            done : BOOLEAN]

NoJob == [run |-> {}, seen |-> <<>>, picks |-> <<>>, at |-> 0, todo |-> {},
          gone |-> {}]

(* The graph of a run with n attempts. *)
Graph(n) == {Log, Tries, Lease, Record} \cup {Session(i) : i \in 1..n}

(* linkedPaths: what exists of the files a descriptor with n attempts lists *)
Linked(r, n) == store[r] \cap Graph(n)

(* Record first: a death leaves the commit marker without its graph. *)
PlaceRecordFirst(p, label) ==
  CASE p = Ref    -> 0
    [] p = Log    -> 2
    [] p = Tries  -> 3
    [] p = Lease  -> 4
    [] p = Record -> 1
    [] OTHER      -> 4 + p[2]

(* Where a file stands in the order of a manifest's moves: that of the     *)
(* listing, the run record last (moveRunToTrash); a recovery takes the     *)
(* lease file late as well (recoverTrashIntents).                          *)
Last == MaxAttempts + 5
Place(p, label) ==
  CASE p = Ref    -> 0
    [] p = Log    -> 1
    [] p = Tries  -> 2
    [] p = Lease  -> IF label = "restoring" THEN Last - 1 ELSE 3
    [] p = Record -> Last
    [] OTHER      -> 3 + p[2]

OnDisk(r) == IF Tries \in store[r] THEN attempts[r] ELSE 0

(* The run in a seat's hands *)
InHand(s) == CHOOSE r \in job[s].run : TRUE
Drop(f, r) == [x \in DOMAIN f \ {r} |-> f[x]]

Init ==
  /\ store = [r \in Runs |-> Graph(1)]
  /\ status \in [Runs -> Ordinary \cap Outcomes]
  /\ attempts = [r \in Runs |-> 1]
  /\ trash = <<>>
  /\ refs = Runs
  /\ pins = {}
  /\ port = NoSeat
  /\ held = [r \in Runs |-> NoSeat]
  /\ mem = [s \in Seats |-> [r \in Runs |-> [status |-> status[r], latest |-> 1]]]
  /\ pc = [s \in Seats |-> "idle"]
  /\ job = [s \in Seats |-> NoJob]

Goes(s, label) == pc' = [pc EXCEPT ![s] = label]
Ends(s) == Goes(s, "idle") /\ job' = [job EXCEPT ![s] = NoJob]

(***************************************************************************)
(* Attempts: a seat checks what it remembers and the records, then takes   *)
(* the run's lease, opens the journal, compares the durable status.        *)
(***************************************************************************)
Ask(s, r) ==
  /\ pc[s] = "idle"
  /\ r \in DOMAIN mem[s]
  /\ mem[s][r].status \in {"failed", "interrupted"}
  /\ mem[s][r].latest = OnDisk(r)
  /\ attempts[r] < MaxAttempts
  /\ Record \in store[r]
  /\ Goes(s, "asked")
  /\ job' = [job EXCEPT ![s].run = {r}]
  /\ UNCHANGED <<files, port, held, mem>>

StartAttempt(s) ==
  LET r == InHand(s)
      n == attempts[r] + 1
  IN  /\ pc[s] = "asked"
      /\ held[r] = NoSeat
      /\ IF /\ status[r] = mem[s][r].status
            /\ {Tries, Record} \subseteq store[r]
            /\ attempts[r] = mem[s][r].latest
         THEN /\ held' = [held EXCEPT ![r] = s]
              /\ store' = [store EXCEPT ![r] = @ \cup {Lease, Session(n)}]
              /\ status' = [status EXCEPT ![r] = "active"]
              /\ attempts' = [attempts EXCEPT ![r] = n]
              /\ mem' = [mem EXCEPT ![s][r] = [status |-> "active", latest |-> n]]
         ELSE /\ store' = [store EXCEPT ![r] = @ \cup {Lease, Log}]
              /\ UNCHANGED <<held, status, attempts, mem>>
      /\ Ends(s)
      /\ UNCHANGED <<trash, refs, pins, port>>

StartRefused(s) ==
  /\ pc[s] = "asked"
  /\ held[InHand(s)] # NoSeat
  /\ Ends(s)
  /\ UNCHANGED <<files, port, held, mem>>

(* A cleanup-blocked attempt keeps its run lease in its seat. *)
Settle(s, r) ==
  /\ r \in DOMAIN mem[s]
  /\ mem[s][r].status = "active"
  /\ \E outcome \in Outcomes :
       /\ status' = [status EXCEPT ![r] = outcome]
       /\ mem' = [mem EXCEPT ![s][r].status = outcome]
       /\ held' = IF outcome = "cleanup-blocked" THEN held
                                                 ELSE [held EXCEPT ![r] = NoSeat]
  /\ UNCHANGED <<store, attempts, trash, refs, pins, port, pc, job>>

(***************************************************************************)
(* Pins hold the retention lease for their one change.                     *)
(***************************************************************************)
(* Without the lease: a pin between the reading of pins and a manifest. *)
PinUnlocked(s, r) ==
  /\ r \in DOMAIN mem[s]
  /\ Record \in store[r]
  /\ pins' = pins \cup {r}
  /\ UNCHANGED <<store, status, attempts, trash, refs, port, held, mem, pc, job>>

Pin(s, r) ==
  /\ r \in DOMAIN mem[s]
  /\ port = NoSeat
  /\ Record \in store[r]
  /\ pins' = pins \cup {r}
  /\ UNCHANGED <<store, status, attempts, trash, refs, port, held, mem, pc, job>>

Unpin(s, r) ==
  /\ r \in DOMAIN mem[s]
  /\ port = NoSeat
  /\ pins' = pins \ {r}
  /\ UNCHANGED <<store, status, attempts, trash, refs, port, held, mem, pc, job>>

(***************************************************************************)
(* Prune: what the seat describes it reads before it has the lease.        *)
(***************************************************************************)
Describe(s) ==
  /\ pc[s] = "idle"
  /\ Goes(s, "described")
  /\ job' = [job EXCEPT ![s].seen =
               [r \in DOMAIN mem[s] |-> [status |-> mem[s][r].status,
                                         dated |-> status[r] # "none",
                                         count |-> OnDisk(r)]]]
  /\ UNCHANGED <<files, port, held, mem>>

TakeLease(s) ==
  /\ pc[s] = "described"
  /\ port = NoSeat
  /\ port' = s
  /\ Goes(s, "recovering")
  /\ job' = [job EXCEPT ![s].at = 1]
  /\ UNCHANGED <<files, held, mem>>

LeaseRefused(s) ==
  /\ pc[s] = "described"
  /\ port # NoSeat
  /\ Ends(s)
  /\ UNCHANGED <<files, port, held, mem>>

(* The next manifest: finished, or its run's lease is taken, or resumed.   *)
(* Taking the run's lease writes its lease file.                           *)
NextIntent(s) ==
  LET i == job[s].at
      r == trash[i].run
  IN  /\ pc[s] = "recovering"
      /\ i \in DOMAIN trash
      /\ IF trash[i].done \/ held[r] # NoSeat
         THEN /\ job' = [job EXCEPT ![s].at = i + 1]
              /\ UNCHANGED <<store, held, pc>>
         ELSE /\ held' = [held EXCEPT ![r] = s]
              /\ store' = [store EXCEPT ![r] = @ \cup {Lease}]
              /\ job' = [job EXCEPT ![s].run = {r},
                                    ![s].todo = {Ref} \cup trash[i].paths]
              /\ Goes(s, "restoring")
      /\ UNCHANGED <<status, attempts, trash, refs, pins, port, mem>>

Validate(s, known) ==
  /\ pc[s] = "recovering"
  /\ job[s].at \notin DOMAIN trash
  /\ known = (\A r \in DOMAIN job[s].seen \ job[s].gone : Record \in store[r])

(* A run another seat has pruned stops every prune of a seat that knows it. *)
RootMissing(s) ==
  /\ Validate(s, FALSE)
  /\ port' = NoSeat
  /\ Ends(s)
  /\ mem' = mem
  /\ UNCHANGED <<files, held>>

Candidates(s) ==
  {r \in DOMAIN job[s].seen \ (job[s].gone \cup pins) :
     job[s].seen[r].dated /\ job[s].seen[r].status \in Ordinary}

Assess(s) ==
  /\ Validate(s, TRUE)
  /\ \E chosen \in SUBSET Candidates(s) :
       job' = [job EXCEPT ![s].picks =
                 [r \in chosen |-> Linked(r, job[s].seen[r].count)]]
  /\ Goes(s, "picking")
  /\ UNCHANGED <<files, port, held, mem>>

(* Without the lease of the run: it may be at work. *)
TakeRunAnyway(s) ==
  /\ pc[s] = "picking"
  /\ \E r \in DOMAIN job[s].picks :
       /\ held' = [held EXCEPT ![r] = s]
       /\ store' = [store EXCEPT ![r] = @ \cup {Lease}]
       /\ job' = [job EXCEPT ![s].run = {r}]
  /\ Goes(s, "leased")
  /\ UNCHANGED <<status, attempts, trash, refs, pins, port, mem>>

TakeRun(s) ==
  /\ pc[s] = "picking"
  /\ \E r \in DOMAIN job[s].picks :
       IF held[r] = NoSeat
       THEN /\ held' = [held EXCEPT ![r] = s]
            /\ store' = [store EXCEPT ![r] = @ \cup {Lease}]
            /\ job' = [job EXCEPT ![s].run = {r}]
            /\ Goes(s, "leased")
       ELSE /\ job' = [job EXCEPT ![s].picks = Drop(@, r)]
            /\ UNCHANGED <<store, held, pc>>
  /\ UNCHANGED <<status, attempts, trash, refs, pins, port, mem>>

(* The ref resolves elsewhere: the run is protected after all. *)
Spare(s) ==
  LET r == InHand(s)
  IN  /\ pc[s] = "leased"
      /\ r \in refs
      /\ held' = [held EXCEPT ![r] = NoSeat]
      /\ job' = [job EXCEPT ![s].picks = Drop(@, r), ![s].run = {}]
      /\ Goes(s, "picking")
      /\ UNCHANGED <<files, port, mem>>

WriteManifest(s) ==
  LET r == InHand(s)
      paths == job[s].picks[r] \cup {Lease}
  IN  /\ pc[s] = "leased"
      /\ Len(trash) < MaxIntents
      /\ trash' = Append(trash, [run |-> r, paths |-> paths, moved |-> {},
                                 done |-> FALSE])
      /\ job' = [job EXCEPT ![s].picks = Drop(@, r),
                            ![s].at = Len(trash) + 1,
                            ![s].todo = {Ref} \cup paths]
      /\ Goes(s, "pruning")
      /\ UNCHANGED <<store, status, attempts, refs, pins, port, held, mem>>

DropRef(s) ==
  /\ pc[s] \in {"pruning", "restoring"}
  /\ Ref \in job[s].todo
  /\ refs' = refs \ {InHand(s)}
  /\ job' = [job EXCEPT ![s].todo = @ \ {Ref}]
  /\ UNCHANGED <<store, status, attempts, trash, pins, port, held, mem, pc>>

(* rename: the file leaves the store and enters the manifest's directory *)
Rename(s, p) ==
  LET r == InHand(s)
  IN  /\ store' = [store EXCEPT ![r] = @ \ {p}]
      /\ trash' = [trash EXCEPT ![job[s].at].moved = @ \cup {p}]
      /\ status' = IF p = Log THEN [status EXCEPT ![r] = "none"] ELSE status

Turn(s, label, p) ==
  /\ pc[s] = label
  /\ p \in job[s].todo
  /\ \A q \in job[s].todo \ {p} : Place(p, label) < Place(q, label)

Move(s) ==
  /\ \E p \in Files :
       /\ Turn(s, "pruning", p)
       /\ IF p \in store[InHand(s)] THEN Rename(s, p)
                                    ELSE UNCHANGED <<store, status, trash>>
       /\ job' = [job EXCEPT ![s].todo = @ \ {p}]
  /\ UNCHANGED <<attempts, refs, pins, port, held, mem, pc>>

(* Without the check for duplicates. *)
RestoreOver(s) ==
  /\ \E p \in Files :
       /\ Turn(s, "restoring", p)
       /\ IF p \in store[InHand(s)] THEN Rename(s, p)
                                    ELSE UNCHANGED <<store, status, trash>>
       /\ job' = [job EXCEPT ![s].todo = @ \ {p}]
  /\ UNCHANGED <<attempts, refs, pins, port, held, mem, pc>>

Restore(s) ==
  /\ \E p \in Files :
       /\ Turn(s, "restoring", p)
       /\ (p \in store[InHand(s)]) # (p \in trash[job[s].at].moved)
       /\ IF p \in store[InHand(s)] THEN Rename(s, p)
                                    ELSE UNCHANGED <<store, status, trash>>
       /\ job' = [job EXCEPT ![s].todo = @ \ {p}]
  /\ UNCHANGED <<attempts, refs, pins, port, held, mem, pc>>

(* Recovery found a file in both places or in neither, or a file operation *)
(* failed: prune throws and gives both leases back.                        *)
Give(s) ==
  /\ held' = [held EXCEPT ![InHand(s)] = NoSeat]
  /\ port' = NoSeat
  /\ Ends(s)

Refuses(s) ==
  \E p \in Files :
    /\ Turn(s, "restoring", p)
    /\ (p \in store[InHand(s)]) = (p \in trash[job[s].at].moved)

RestoreRefused(s) == Refuses(s) /\ Give(s) /\ UNCHANGED <<files, mem>>

Throw(s) ==
  /\ pc[s] \in {"leased", "pruning", "restoring"}
  /\ Give(s)
  /\ UNCHANGED <<files, mem>>

Finish(s) ==
  LET r == InHand(s)
  IN  /\ pc[s] \in {"pruning", "restoring"}
      /\ job[s].todo = {}
      /\ trash' = [trash EXCEPT ![job[s].at].done = TRUE]
      /\ held' = [held EXCEPT ![r] = NoSeat]
      /\ job' = [job EXCEPT ![s].run = {}, ![s].at = @ + 1,
                            ![s].gone = @ \cup {r}]
      /\ Goes(s, IF pc[s] = "pruning" THEN "picking" ELSE "recovering")
      /\ UNCHANGED <<store, status, attempts, refs, pins, port, mem>>

EndPrune(s) ==
  /\ pc[s] = "picking"
  /\ DOMAIN job[s].picks = {}
  /\ port' = NoSeat
  /\ mem' = [mem EXCEPT ![s] = [r \in DOMAIN @ \ job[s].gone |-> @[r]]]
  /\ Ends(s)
  /\ UNCHANGED <<files, held>>

(***************************************************************************)
(* A seat dies, and the OS closes its listeners; a seat opens the store:   *)
(* under each run's lease it opens the journal, which makes its directory, *)
(* and a run whose end is not proved becomes cleanup-blocked.              *)
(***************************************************************************)
Crash(s) ==
  /\ pc[s] # "down"
  /\ Goes(s, "down")
  /\ port' = IF port = s THEN NoSeat ELSE port
  /\ held' = [r \in Runs |-> IF held[r] = s THEN NoSeat ELSE held[r]]
  /\ mem' = [mem EXCEPT ![s] = <<>>]
  /\ job' = [job EXCEPT ![s] = NoJob]
  /\ UNCHANGED files

Open(s) ==
  LET known == {r \in Runs : Record \in store[r] /\ held[r] = NoSeat}
  IN  /\ pc[s] = "down"
      /\ store' = [r \in Runs |-> IF r \in known THEN store[r] \cup {Lease, Log}
                                                 ELSE store[r]]
      /\ status' = [r \in Runs |->
                      IF r \in known /\ status[r] \in {"active", "none"}
                      THEN "cleanup-blocked" ELSE status[r]]
      /\ mem' = [mem EXCEPT ![s] =
                   [r \in known |-> [status |-> status'[r], latest |-> OnDisk(r)]]]
      /\ Goes(s, "idle")
      /\ UNCHANGED <<attempts, trash, refs, pins, port, held, job>>

Attempts(s) ==
  \/ StartAttempt(s)
  \/ StartRefused(s)
  \/ \E r \in Runs : Ask(s, r) \/ Settle(s, r)
Pinning(s) == \E r \in Runs : Pin(s, r) \/ Unpin(s, r)
Prune(s) ==
  \/ Describe(s)
  \/ TakeLease(s)
  \/ LeaseRefused(s)
  \/ NextIntent(s)
  \/ RootMissing(s)
  \/ Assess(s)
  \/ TakeRun(s)
  \/ Spare(s)
  \/ WriteManifest(s)
  \/ DropRef(s)
  \/ Move(s)
  \/ Restore(s)
  \/ RestoreRefused(s)
  \/ Throw(s)
  \/ Finish(s)
  \/ EndPrune(s)

Next ==
  \E s \in Seats : Attempts(s) \/ Pinning(s) \/ Prune(s) \/ Crash(s) \/ Open(s)

Spec == Init /\ [][Next]_vars

-----------------------------------------------------------------------------
(* Every variable keeps its type.  No file of the graph is anybody's but   *)
(* the ones createRetentionManager and the attempts make.                  *)
TypeOK ==
  /\ store \in [Runs -> SUBSET Files]
  /\ status \in [Runs -> Recorded]
  /\ attempts \in [Runs -> 1..MaxAttempts]
  /\ trash \in Seq(Intents)
  /\ refs \subseteq Runs
  /\ pins \subseteq Runs
  /\ port \in Seats \cup {NoSeat}
  /\ held \in [Runs -> Seats \cup {NoSeat}]
  /\ \A s \in Seats :
       /\ DOMAIN mem[s] \subseteq Runs
       /\ \A r \in DOMAIN mem[s] : mem[s][r] \in Beliefs
       /\ pc[s] \in {"down", "idle", "asked", "described", "recovering",
                     "restoring", "picking", "leased", "pruning"}
       /\ job[s].at \in 0..(Len(trash) + 1)

Running(s, r) == r \in DOMAIN mem[s] /\ mem[s][r].status = "active"

(* A live attempt keeps its whole graph: whatever a pruning seat read of   *)
(* the run before it was retried, no file of it is moved under the seat    *)
(* that executes it (prune under the run lease, startAttempt's checks).    *)
LiveStays ==
  \A s \in Seats, r \in Runs : Running(s, r) => Graph(attempts[r]) \subseteq store[r]

NoManifestForPins ==
  \A i \in DOMAIN trash' \ DOMAIN trash : trash'[i].run \notin pins

(* Only a run without a pin gets a manifest, however pins and prunes of    *)
(* several seats interleave (withLease around both).                       *)
PinsHold == [][NoManifestForPins]_vars

(* The run record is the commit marker: a manifest that has it has all the *)
(* files it lists, after any death and any recovery (moveRunToTrash and    *)
(* recoverTrashIntents order it last).                                     *)
CommitLast ==
  \A i \in DOMAIN trash :
    Record \in trash[i].moved => trash[i].paths \subseteq trash[i].moved

(* Pruning never deletes: a file that leaves the store enters the trash,   *)
(* and none there is overwritten by another of its name.                   *)
NeverDeleted ==
  [][\A r \in Runs : \A p \in store[r] \ store'[r] :
       \E i \in DOMAIN trash : /\ trash[i].run = r
                               /\ p \in trash'[i].moved \ trash[i].moved]_vars

(* docs/persistence.md:302: applied pruning reacquires the run lease of an *)
(* incomplete manifest and resumes each remaining rename: no resumption is *)
(* refused for what it finds (recoverTrashIntents).                        *)
IntentsResume == \A s \in Seats : ~Refuses(s)

(* docs/persistence.md:264: explicit owner pins protect indefinitely: no   *)
(* file of a pinned run leaves the store (recoverTrashIntents).            *)
PinnedStays ==
  [][\A r \in pins : store[r] \subseteq store'[r]]_vars

(* docs/persistence.md:262: interrupted and cleanup-blocked runs are kept  *)
(* indefinitely: the journal of such a run is not moved (prune).           *)
UnsettledStays ==
  [][\A r \in Runs : status[r] \in {"interrupted", "cleanup-blocked"} =>
       (Log \in store[r] => Log \in store'[r])]_vars
==============================================================================
