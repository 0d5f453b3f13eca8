----------------------------- MODULE Quarantine -----------------------------
(***************************************************************************)
(* The revision gate of the store (src/persistence/store-revision.ts) and  *)
(* the launches of the builds on either side of it.  Every build writes    *)
(* entries that declare its contract revision; before a service opens the  *)
(* store, quarantineStaleState reads the revisions declared, refuses a     *)
(* store with a newer one, and moves the entries of runs and attempts with *)
(* an older one to quarantine/<revision>, one rename after another.  The   *)
(* process may end between two steps, and another build may open the store *)
(* next: an upgrade may be taken back.                                     *)
(*                                                                         *)
(* A run's identifiers are computed from its request (deterministicIds),   *)
(* so one request asked of two builds has the same paths.  An entry is its *)
(* path: a kind and a run; its contents are the launches that wrote to it. *)
(* Left out: attempts after the first, whose entries share the fate of the *)
(* first's; snapshots and pins, which are handled as worktrees and         *)
(* operations are; release and pruning (Worktree, Retention); what opens   *)
(* after the gate (RunService).  The reads of a probe are one step.        *)
(* Bounds: MaxLaunches, and as many numbers of destinations.               *)
(***************************************************************************)
EXTENDS Integers

CONSTANTS
  Seats,
  Runs,         \* requests, by the identifier computed from them
  Builds,       \* contract revisions
  NoRun,
  MaxLaunches,
  Together      \* several seats may have the store open

ASSUME QuarantineAssumption ==
  /\ Builds \subseteq Nat \ {0} /\ MaxLaunches \in Nat
  /\ NoRun \notin Runs /\ Together \in BOOLEAN

\* in the order of their paths, in which the gate moves them
Kinds == {"attempt-records", "leases", "operations", "run-records", "runs",
          "sessions", "records", "worktrees"}
Rank == [kind \in Kinds |->
  CASE kind = "attempt-records" -> 1 [] kind = "leases" -> 2
    [] kind = "operations" -> 3 [] kind = "run-records" -> 4
    [] kind = "runs" -> 5 [] kind = "sessions" -> 6
    [] kind = "records" -> 7 [] kind = "worktrees" -> 8]
RunKinds == {"attempt-records", "leases", "run-records", "runs"}
AttemptKinds == {"sessions", "records", "worktrees"}

\* what startAttempt writes after what; the last step is the attempt's own
Order == [step \in 1..9 |->
  CASE step = 1 -> "operations" [] step = 2 -> "leases" [] step = 3 -> "runs"
    [] step = 4 -> "run-records" [] step = 5 -> "records" [] step = 6 -> "worktrees"
    [] step = 7 -> "records" [] step = 8 -> "attempt-records" [] step = 9 -> "sessions"]

VARIABLES
  store,        \* of each entry the launches in it, and the revision it says
  branches,     \* runs whose branch is in the user's repository
  quarantine,   \* entries moved: where they came from, where to, what they hold
  written,      \* the entries each launch has written (nobody reads it)
  launches,
  phase,        \* of each seat
  build,        \* the revision it writes
  plan,         \* the entries it is to move, and to which revision's directory
  target,       \* the move it is about to make
  launch,       \* the launch under way: run, number, next step, with a tree
  known         \* the runs in its memory

files == <<store, branches, quarantine, written, launches>>
seats == <<phase, build, plan, target, launch, known>>
quarantineVars == <<files, seats>>

Entries == Kinds \X Runs
Launches == 1..MaxLaunches
Revisions == Builds \cup {0}
Absent == [by |-> {}, says |-> 0]
Moves == [entry : Entries, revision : Builds]
Destinations == [entry : Entries, revision : Builds, ordinal : Launches]
NoMove == [entry |-> <<"none", NoRun>>, revision |-> 0, ordinal |-> 0]
NoLaunch == [run |-> NoRun, number |-> 0, next |-> 0, tree |-> FALSE]

QuarantineTypeOK ==
  /\ store \in [Entries -> [by : SUBSET Launches, says : Revisions]]
  /\ branches \subseteq Runs
  /\ quarantine \subseteq [place : Destinations, by : SUBSET Launches]
  /\ written \subseteq Entries \X Launches
  /\ launches \in 0..MaxLaunches
  /\ phase \in [Seats -> {"closed", "moving", "renaming", "serving"}]
  /\ build \in [Seats -> Revisions]
  /\ plan \in [Seats -> SUBSET Moves]
  /\ target \in [Seats -> Destinations \cup {NoMove}]
  /\ launch \in [Seats -> {NoLaunch} \cup
       [run : Runs, number : Launches, next : 1..10, tree : BOOLEAN]]
  /\ known \in [Seats -> SUBSET Runs]

QuarantineInit ==
  /\ store = [e \in Entries |-> Absent]
  /\ branches = {}
  /\ quarantine = {}
  /\ written = {}
  /\ launches = 0
  /\ phase = [s \in Seats |-> "closed"]
  /\ build = [s \in Seats |-> 0]
  /\ plan = [s \in Seats |-> {}]
  /\ target = [s \in Seats |-> NoMove]
  /\ launch = [s \in Seats |-> NoLaunch]
  /\ known = [s \in Seats |-> {}]

Present(e) == store[e].by # {}
Newer(b) == \E e \in Entries : store[e].says > b
Old(e, n, b) == store[e].says = n /\ n < b

------------------------------------------------------------------------------
(* Slips: the forms the gate might have had.                               *)

\* the attempts are those of the stale runs
AttemptIsOldWithRun(r, n, b) ==
  Present(<<"attempt-records", r>>) /\ \E k \in RunKinds : Old(<<k, r>>, n, b)

\* what lies at the destination is replaced
FreeAnyway(m, n) == n = 1

------------------------------------------------------------------------------
(* The gate.                                                               *)

\* a run of which an entry is of an older revision
RunIsOld(r, n, b) == \E k \in RunKinds : Old(<<k, r>>, n, b)

\* an attempt in the attempt-records of such a run, or else one whose
\* worktree record is of an older revision
AttemptIsOld(r, n, b) ==
  IF Present(<<"attempt-records", r>>) /\ \E o \in Builds : RunIsOld(r, o, b)
  THEN RunIsOld(r, n, b)
  ELSE Old(<<"records", r>>, n, b)

Due(e, n, b) ==
  \/ e[1] \in RunKinds /\ RunIsOld(e[2], n, b)
  \/ e[1] \in AttemptKinds /\ AttemptIsOld(e[2], n, b)
  \/ e[1] = "operations" /\ Old(e, n, b)

\* each entry once, for the oldest revision
Plan(b) ==
  {m \in Moves : /\ Due(m.entry, m.revision, b)
                 /\ \A n \in Builds : Due(m.entry, n, b) => m.revision <= n}

\* quarantineStaleState is asked by build b; a newer store refuses it
Open(s, b) ==
  /\ phase[s] = "closed"
  /\ Together \/ \A t \in Seats \ {s} : phase[t] = "closed"
  /\ ~Newer(b)
  /\ phase' = [phase EXCEPT ![s] = "moving"]
  /\ build' = [build EXCEPT ![s] = b]
  /\ plan' = [plan EXCEPT ![s] = Plan(b)]
  /\ UNCHANGED <<files, target, launch, known>>

Upcoming(s, m) ==
  /\ phase[s] = "moving" /\ m \in plan[s]
  /\ \A o \in plan[s] : Rank[m.entry[1]] <= Rank[o.entry[1]]

\* the source is not there: the next one
Skip(s, m) ==
  /\ Upcoming(s, m) /\ ~Present(m.entry)
  /\ plan' = [plan EXCEPT ![s] = @ \ {m}]
  /\ UNCHANGED <<files, phase, build, target, launch, known>>

Destination(m, n) == [entry |-> m.entry, revision |-> m.revision, ordinal |-> n]
Taken(place) == \E q \in quarantine : q.place = place

\* the path under quarantine, or the first free one with a number
Free(m, n) ==
  /\ ~Taken(Destination(m, n))
  /\ \A i \in 1..(n - 1) : Taken(Destination(m, i))

Choose(s, m) ==
  /\ Upcoming(s, m) /\ Present(m.entry)
  /\ \E n \in Launches :
       Free(m, n) /\ target' = [target EXCEPT ![s] = Destination(m, n)]
  /\ phase' = [phase EXCEPT ![s] = "renaming"]
  /\ UNCHANGED <<files, build, plan, launch, known>>

\* rename replaces a file that came to the destination meanwhile
Rename(s) ==
  LET place == target[s]
      e == place.entry
  IN
  /\ phase[s] = "renaming" /\ Present(e)
  /\ quarantine' = {q \in quarantine : q.place # place} \cup
                     {[place |-> place, by |-> store[e].by]}
  /\ store' = [store EXCEPT ![e] = Absent]
  /\ plan' = [plan EXCEPT ![s] = {m \in @ : m.entry # e}]
  /\ phase' = [phase EXCEPT ![s] = "moving"]
  /\ target' = [target EXCEPT ![s] = NoMove]
  /\ UNCHANGED <<branches, written, launches, build, launch, known>>

Closed(s) ==
  /\ phase' = [phase EXCEPT ![s] = "closed"]
  /\ build' = [build EXCEPT ![s] = 0]
  /\ plan' = [plan EXCEPT ![s] = {}]
  /\ target' = [target EXCEPT ![s] = NoMove]
  /\ launch' = [launch EXCEPT ![s] = NoLaunch]
  /\ known' = [known EXCEPT ![s] = {}]

\* the gate is passed; the runs on record are the seat's
Serve(s) ==
  /\ phase[s] = "moving" /\ plan[s] = {}
  /\ phase' = [phase EXCEPT ![s] = "serving"]
  /\ known' = [known EXCEPT ![s] = {r \in Runs : Present(<<"run-records", r>>)}]
  /\ UNCHANGED <<files, build, plan, target, launch>>

\* the process ends, at any point, or the open rejects: a seat that was
\* faster has made the move
Stop(s) ==
  /\ phase[s] # "closed"
  /\ Closed(s)
  /\ UNCHANGED files

------------------------------------------------------------------------------
(* Launches.                                                               *)

\* a run in memory would be returned; with a tree or on the live checkout
Launch(s, r) ==
  /\ phase[s] = "serving" /\ launch[s] = NoLaunch /\ r \notin known[s]
  /\ launches < MaxLaunches
  /\ launches' = launches + 1
  /\ \E tree \in BOOLEAN :
       launch' = [launch EXCEPT ![s] =
                    [run |-> r, number |-> launches + 1, next |-> 1, tree |-> tree]]
  /\ UNCHANGED <<store, branches, quarantine, written, phase, build, plan, target, known>>

\* of the eight kinds these hold files that say their revision, these are
\* directories to which a launch adds, and the others are created once
Says(kind) == kind \notin {"sessions", "worktrees"}
Adds(kind) == kind \in {"runs", "sessions"}

Step(s) == Order[launch[s].next]
Target(s) == <<Step(s), launch[s].run>>
Advance(s) == launch' = [launch EXCEPT ![s].next = @ + 1]

Write(s, says) ==
  LET e == Target(s)
      new == ~Present(e) \/ Adds(Step(s)) \/ launch[s].next = 7
  IN
  /\ store' = IF new
              THEN [store EXCEPT ![e] =
                      [by |-> @.by \cup {launch[s].number},
                       says |-> IF @.says = 0 THEN says ELSE @.says]]
              ELSE store
  /\ written' = IF new THEN written \cup {<<e, launch[s].number>>} ELSE written

\* the claim, the lease, the directory of the run with or without a first
\* event, the run's and the attempt's record, the transcript
CreateEntry(s) ==
  /\ launch[s] # NoLaunch /\ launch[s].next \in {1, 2, 3, 4, 8, 9}
  /\ \E says \in {build[s]} \cup IF Step(s) = "runs" THEN {0} ELSE {} :
       Write(s, IF Says(Step(s)) THEN says ELSE 0)
  /\ Advance(s)
  /\ known' = IF launch[s].next = 8 THEN [known EXCEPT ![s] = @ \cup {launch[s].run}]
              ELSE known
  /\ UNCHANGED <<branches, quarantine, launches, phase, build, plan, target>>

\* createAttemptWorktree: an empty record reserves the attempt
Reserve(s) ==
  /\ launch[s] # NoLaunch /\ launch[s].next = 5 /\ launch[s].tree
  /\ ~Present(Target(s))
  /\ Write(s, 0)
  /\ Advance(s)
  /\ UNCHANGED <<branches, quarantine, launches, phase, build, plan, target, known>>

\* git worktree add -b: neither the branch nor the directory may exist
AddTree(s) ==
  /\ launch[s] # NoLaunch /\ launch[s].next = 6 /\ launch[s].tree
  /\ launch[s].run \notin branches /\ ~Present(Target(s))
  /\ branches' = branches \cup {launch[s].run}
  /\ Write(s, 0)
  /\ Advance(s)
  /\ UNCHANGED <<quarantine, launches, phase, build, plan, target, known>>

\* the record is written over the reservation
Record(s) ==
  /\ launch[s] # NoLaunch /\ launch[s].next = 7 /\ launch[s].tree
  /\ Write(s, build[s])
  /\ Advance(s)
  /\ UNCHANGED <<branches, quarantine, launches, phase, build, plan, target, known>>

\* no tree is asked for
NoTree(s) ==
  /\ launch[s] # NoLaunch /\ launch[s].next \in {5, 6, 7} /\ ~launch[s].tree
  /\ Advance(s)
  /\ UNCHANGED <<files, phase, build, plan, target, known>>

\* the attempt has a session, or a step rejected: what is written stays
EndLaunch(s) ==
  /\ launch[s] # NoLaunch
  /\ launch' = [launch EXCEPT ![s] = NoLaunch]
  /\ UNCHANGED <<files, phase, build, plan, target, known>>

Gate(s) ==
  \/ \E b \in Builds : Open(s, b)
  \/ \E m \in plan[s] : Skip(s, m) \/ Choose(s, m)
  \/ Rename(s) \/ Serve(s)

Launching(s) ==
  \/ \E r \in Runs : Launch(s, r)
  \/ CreateEntry(s) \/ Reserve(s) \/ AddTree(s) \/ Record(s) \/ NoTree(s) \/ EndLaunch(s)

QuarantineNext == \E s \in Seats : Gate(s) \/ Launching(s) \/ Stop(s)

QuarantineSpec == QuarantineInit /\ [][QuarantineNext]_quarantineVars

------------------------------------------------------------------------------

(* A service that is open finds no entry of another revision, whatever was *)
(* left by launches and moves that were cut off: store-revision.ts:21-22,  *)
(* "A stale record left in place would otherwise make the shared service   *)
(* unstartable for every consumer in the seat".                            *)
ServesOnlyCurrent ==
  \A s \in Seats : phase[s] = "serving" =>
    \A e \in Entries : store[e].says \in {0, build[s]}

(* Whatever a launch wrote is in the store or in quarantine, under its own *)
(* path: no move replaces what an earlier one brought there                *)
(* (persistence.md: "a discard with the bytes kept for the operator").     *)
BytesKept ==
  \A w \in written :
    \/ w[2] \in store[w[1]].by
    \/ \E q \in quarantine : q.place.entry = w[1] /\ w[2] \in q.by

------------------------------------------------------------------------------
(* What does not hold.                                                     *)

(* An attempt of whose run no entry says a revision has no entry at all    *)
(* (store-revision.ts:253-255: "an attempt whose records are quarantined   *)
(* must not leave its transcript or worktree record behind for a           *)
(* reconciler to adopt").                                                  *)
NothingStays ==
  \A s \in Seats, r \in Runs :
    (phase[s] = "serving" /\ \A k \in Kinds : store[<<k, r>>].says = 0)
      => \A k \in AttemptKinds : ~Present(<<k, r>>)

(* ... nor a branch: the request can be launched again (store-revision.ts: *)
(* "so the shared service starts clean on an empty history").              *)
StartsClean ==
  \A s \in Seats, r \in Runs :
    (phase[s] = "serving" /\ \A k \in Kinds : ~Present(<<k, r>>)) => r \notin branches

(* An open store is emptied under no seat that serves its revision         *)
(* (persistence.md: "A second seat cannot launch, resume, reconcile        *)
(* destructively, or release the same run while the lease holder is        *)
(* live").                                                                 *)
OpenStoresStay ==
  [][\A s \in Seats, e \in Entries :
       (/\ phase[s] = "serving" /\ phase'[s] = "serving"
        /\ store[e].says = build[s] /\ store[e].says # 0)
         => store'[e].says = build[s]]_quarantineVars
==============================================================================
