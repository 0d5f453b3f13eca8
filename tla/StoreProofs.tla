---------------------------- MODULE StoreProofs ----------------------------
(***************************************************************************)
(* Theorems about the two stores that processes come and go at: the        *)
(* entries behind the revision gate (Quarantine), for any requests, builds *)
(* and number of launches while one seat at a time has the store open, and *)
(* the warm checkpoints (WarmBoot), for any starts, keys, slots and        *)
(* images.                                                                 *)
(*                                                                         *)
(* The gate: the plan of an open names every entry of another revision     *)
(* (Planned), of which a move takes one away, so an empty plan leaves      *)
(* none.  The plan keeps one move for each entry, the one for the oldest   *)
(* revision: that there is an oldest one is a property of the natural      *)
(* numbers.                                                                *)
(*                                                                         *)
(* The checkpoints: a lock or a lease file that names a living process is  *)
(* one it believes it has, so what it gives back at its end is all there   *)
(* is (OwnInv).  Where nobody is overtaken between what it read of a lock  *)
(* and the file it removes because of that (~Overtaking), the lock it      *)
(* believes in is also there (KeptInv).  Then an eviction that saw no lock *)
(* keeps publications of its victim away (SweepInv): once the sidecar is   *)
(* gone no lease of it is granted, and the second look at the leases is    *)
(* the last word.                                                          *)
(***************************************************************************)
EXTENDS Quarantine, WarmBoot, FiniteSetTheorems, TLAPS

\* one seat at a time has the store open, and launches when it serves
Alone ==
  /\ \A s, t \in Seats : s # t => phase[s] = "closed" \/ phase[t] = "closed"
  /\ \A s \in Seats : phase[s] # "serving" => launch[s] = NoLaunch
  /\ \A s \in Seats : phase[s] # "closed" => build[s] \in Builds

\* transcripts and checkouts say nothing, nor does what is absent
Silent ==
  /\ \A r \in Runs, k \in {"sessions", "worktrees"} : store[<<k, r>>].says = 0
  /\ \A e \in Entries : store[e].says # 0 => Present(e)

\* the entries of other revisions are those still to be moved
Planned ==
  \A s \in Seats : phase[s] \in {"moving", "renaming"} =>
    \A e \in Entries :
      store[e].says \in {0, build[s]} \/ \E m \in plan[s] : m.entry = e

\* the place chosen is free
Aimed ==
  \A s \in Seats : phase[s] = "renaming" =>
    target[s] \in Destinations /\ ~Taken(target[s])

Inv ==
  /\ QuarantineTypeOK /\ Alone /\ Silent /\ Planned /\ Aimed
  /\ ServesOnlyCurrent /\ BytesKept

------------------------------------------------------------------------------

(* A non-empty set of revisions has an oldest one: of the sets of those    *)
(* up to one of them, a smallest.                                          *)
LEMMA OldestExists ==
  ASSUME NEW T \in SUBSET Nat, T # {}
  PROVE  \E x \in T : \A y \in T : x <= y
<1> DEFINE UpTo(n) == {k \in T : k <= n}
           F == {UpTo(n) : n \in T}
<1>1. ASSUME NEW n \in T PROVE IsFiniteSet(UpTo(n))
  BY FS_BoundedSetOfNaturals
<1>2. F \in SUBSET FiniteSubsetsOf(T) /\ F # {}
  BY <1>1 DEF FiniteSubsetsOf
<1>3. IsWellFoundedOn(StrictSubsetOrdering(T), FiniteSubsetsOf(T))
  BY FS_StrictSubsetOrderingWellFounded
<1>4. PICK M \in F : \A N \in F : <<N, M>> \notin StrictSubsetOrdering(T)
  BY <1>2, <1>3, WFMin, Zenon
<1>5. PICK x \in T : M = UpTo(x)
  OBVIOUS
<1>6. ASSUME NEW y \in T, y < x PROVE FALSE
  <2>1. UpTo(y) \subseteq UpTo(x) /\ x \in UpTo(x) /\ x \notin UpTo(y)
    <3>1. \A k \in T : k <= y => k <= x
      BY <1>6
    <3>2. x <= x /\ ~(x <= y)
      BY <1>6
    <3> QED  BY <3>1, <3>2
  <2>2. UpTo(y) \in F /\ UpTo(y) \subseteq T /\ UpTo(x) \subseteq T
    OBVIOUS
  <2> HIDE DEF UpTo
  <2>3. <<UpTo(y), UpTo(x)>> \in StrictSubsetOrdering(T)
    BY <2>1, <2>2 DEF StrictSubsetOrdering
  <2> QED  BY <1>4, <1>5, <2>2, <2>3
<1> QED  BY <1>6

(* Every entry of an older revision is in the plan.                        *)
LEMMA PlanCovers ==
  ASSUME QuarantineTypeOK, Silent, NEW b \in Builds, NEW e \in Entries,
         store[e].says \in Builds, store[e].says < b
  PROVE  \E m \in Plan(b) : m.entry = e
<1> DEFINE T == {n \in Builds : Due(e, n, b)}
<1>1. PICK k \in Kinds, r \in Runs : e = <<k, r>>
  BY DEF Entries
<1>2. \E n \in Builds : Due(e, n, b)
  <2>1. Old(e, store[e].says, b) /\ e[1] = k /\ e[2] = r
    BY <1>1 DEF Old
  <2>2. CASE k \in RunKinds
    BY <2>1, <2>2, <1>1 DEF Due, RunIsOld
  <2>3. CASE k \in {"sessions", "worktrees"}
    BY <1>1, <2>3, QuarantineAssumption DEF Silent
  <2>4. CASE k = "records"
    BY <2>1, <2>4, <1>1 DEF Due, AttemptIsOld, AttemptKinds
  <2>5. CASE k = "operations"
    BY <2>1, <2>5, <1>1 DEF Due
  <2> QED  BY <2>2, <2>3, <2>4, <2>5 DEF Kinds, RunKinds
<1>3. T \in SUBSET Nat /\ T # {}
  BY <1>2, QuarantineAssumption
<1>4. PICK n \in T : \A i \in T : n <= i
  BY <1>3, OldestExists
<1>5. [entry |-> e, revision |-> n] \in Plan(b)
  BY <1>4 DEF Plan, Moves
<1> QED  BY <1>5

------------------------------------------------------------------------------

(* The types, of one step.                                                 *)

LEMMA StepsWrite ==
  ASSUME QuarantineTypeOK, NEW s \in Seats, launch[s] # NoLaunch, launch[s].next \in 1..9,
         NEW says \in Revisions, Write(s, says)
  PROVE  /\ Target(s) \in Entries
         /\ launch[s].number \in Launches
         /\ store' \in [Entries -> [by : SUBSET Launches, says : Revisions]]
         /\ written' \subseteq Entries \X Launches
<1>1. launch[s].run \in Runs /\ launch[s].number \in Launches
  BY DEF QuarantineTypeOK
<1>2. Step(s) \in Kinds
  BY DEF Step, Order, Kinds
<1>3. Target(s) \in Entries
  BY <1>1, <1>2 DEF Target, Entries
<1>4. store \in [Entries -> [by : SUBSET Launches, says : Revisions]] /\ written \subseteq Entries \X Launches
  BY DEF QuarantineTypeOK
<1>5. store[Target(s)].by \in SUBSET Launches /\ store[Target(s)].says \in Revisions
  BY <1>3, <1>4
<1> QED  BY <1>1, <1>3, <1>4, <1>5 DEF Write

LEMMA LaunchAdvances ==
  ASSUME QuarantineTypeOK, NEW s \in Seats, launch[s] # NoLaunch, launch[s].next \in 1..9, Advance(s)
  PROVE  launch' \in [Seats -> {NoLaunch} \cup
           [run : Runs, number : Launches, next : 1..10, tree : BOOLEAN]]
<1>1. launch[s] \in [run : Runs, number : Launches, next : 1..10, tree : BOOLEAN]
  BY DEF QuarantineTypeOK
<1>2. [launch[s] EXCEPT !.next = @ + 1] \in [run : Runs, number : Launches, next : 1..10, tree : BOOLEAN]
  BY <1>1
<1> QED  BY <1>2 DEF Advance, QuarantineTypeOK

LEMMA ClosesTyped ==
  ASSUME QuarantineTypeOK, NEW s \in Seats, Closed(s), UNCHANGED files
  PROVE  QuarantineTypeOK'
BY DEF QuarantineTypeOK, Closed, files, Revisions

LEMMA TypeStep ==
  ASSUME QuarantineTypeOK, Aimed, NEW s \in Seats, Gate(s) \/ Launching(s) \/ Stop(s)
  PROVE  QuarantineTypeOK'
<1>1. ASSUME NEW b \in Builds, Open(s, b) PROVE QuarantineTypeOK'
  <2>1. Plan(b) \subseteq Moves
    BY DEF Plan
  <2> QED  BY <1>1, <2>1 DEF Open, QuarantineTypeOK, files, Revisions
<1>2. ASSUME NEW m \in plan[s], Skip(s, m) PROVE QuarantineTypeOK'
  BY <1>2 DEF Skip, QuarantineTypeOK, files
<1>3. ASSUME NEW m \in plan[s], Choose(s, m) PROVE QuarantineTypeOK'
  <2>1. m \in Moves
    BY DEF QuarantineTypeOK
  <2>2. \A n \in Launches : Destination(m, n) \in Destinations
    BY <2>1 DEF Destination, Destinations, Moves
  <2>3. target' \in [Seats -> Destinations \cup {NoMove}]
    BY <1>3, <2>2 DEF Choose, QuarantineTypeOK
  <2> QED  BY <1>3, <2>3 DEF Choose, QuarantineTypeOK, files
<1>4. ASSUME Rename(s) PROVE QuarantineTypeOK'
  <2>1. target[s] \in Destinations
    BY <1>4 DEF Rename, Aimed
  <2>2. target[s].entry \in Entries
    BY <2>1 DEF Destinations
  <2>3. store[target[s].entry].by \in SUBSET Launches
    BY <2>2 DEF QuarantineTypeOK
  <2>4. quarantine' \subseteq [place : Destinations, by : SUBSET Launches]
    BY <1>4, <2>1, <2>3 DEF Rename, QuarantineTypeOK
  <2>5. store' \in [Entries -> [by : SUBSET Launches, says : Revisions]]
    BY <1>4 DEF Rename, QuarantineTypeOK, Absent, Revisions
  <2>6. plan' \in [Seats -> SUBSET Moves]
    BY <1>4 DEF Rename, QuarantineTypeOK
  <2> QED  BY <1>4, <2>4, <2>5, <2>6 DEF Rename, QuarantineTypeOK
<1>5. ASSUME Serve(s) PROVE QuarantineTypeOK'
  BY <1>5 DEF Serve, QuarantineTypeOK, files
<1>6. ASSUME Stop(s) PROVE QuarantineTypeOK'
  BY <1>6, ClosesTyped DEF Stop
<1>7. ASSUME NEW r \in Runs, Launch(s, r) PROVE QuarantineTypeOK'
  <2>1. launches + 1 \in Launches /\ launches' \in 0..MaxLaunches
    BY <1>7, QuarantineAssumption DEF Launch, QuarantineTypeOK, Launches
  <2>2. launch' \in [Seats -> {NoLaunch} \cup
           [run : Runs, number : Launches, next : 1..10, tree : BOOLEAN]]
    BY <1>7, <2>1 DEF Launch, QuarantineTypeOK
  <2> QED  BY <1>7, <2>1, <2>2 DEF Launch, QuarantineTypeOK
<1>8. ASSUME CreateEntry(s) PROVE QuarantineTypeOK'
  <2>1. launch[s] # NoLaunch /\ launch[s].next \in 1..9
    BY <1>8 DEF CreateEntry
  <2>2. PICK says \in Revisions : Write(s, says)
    BY <1>8 DEF CreateEntry, QuarantineTypeOK, Revisions
  <2>3. known' \in [Seats -> SUBSET Runs]
    <3>1. launch[s].run \in Runs
      BY <2>1 DEF QuarantineTypeOK
    <3> QED  BY <1>8, <3>1 DEF CreateEntry, QuarantineTypeOK
  <2>4. launch' \in [Seats -> {NoLaunch} \cup
           [run : Runs, number : Launches, next : 1..10, tree : BOOLEAN]]
    BY <1>8, <2>1, LaunchAdvances DEF CreateEntry
  <2> QED  BY <1>8, <2>1, <2>2, <2>3, <2>4, StepsWrite DEF CreateEntry, QuarantineTypeOK
<1>9. ASSUME Reserve(s) \/ Record(s) \/ AddTree(s) PROVE QuarantineTypeOK'
  <2>1. launch[s] # NoLaunch /\ launch[s].next \in 1..9 /\ Advance(s)
    BY <1>9 DEF Reserve, Record, AddTree
  <2>2. PICK says \in Revisions : Write(s, says)
    BY <1>9 DEF Reserve, Record, AddTree, QuarantineTypeOK, Revisions
  <2>3. branches' \subseteq Runs
    BY <1>9, <2>1 DEF Reserve, Record, AddTree, QuarantineTypeOK
  <2>4. launch' \in [Seats -> {NoLaunch} \cup
           [run : Runs, number : Launches, next : 1..10, tree : BOOLEAN]]
    BY <2>1, LaunchAdvances
  <2>5. UNCHANGED <<quarantine, launches, phase, build, plan, target, known>>
    BY <1>9 DEF Reserve, Record, AddTree
  <2> QED  BY <2>1, <2>2, <2>3, <2>4, <2>5, StepsWrite DEF QuarantineTypeOK
<1>10. ASSUME NoTree(s) PROVE QuarantineTypeOK'
  <2>1. launch[s] # NoLaunch /\ launch[s].next \in 1..9 /\ Advance(s)
    BY <1>10 DEF NoTree
  <2> QED  BY <1>10, <2>1, LaunchAdvances DEF NoTree, QuarantineTypeOK, files
<1>11. ASSUME EndLaunch(s) PROVE QuarantineTypeOK'
  BY <1>11 DEF EndLaunch, QuarantineTypeOK, files
<1> QED  BY <1>1, <1>2, <1>3, <1>4, <1>5, <1>6, <1>7, <1>8, <1>9, <1>10, <1>11
           DEF Gate, Launching

------------------------------------------------------------------------------
(* The rest of the invariant.                                              *)

(* What a launch writes says the revision of its seat, which is alone.     *)
LEMMA WritesKeep ==
  ASSUME Inv, ~Together, NEW s \in Seats, launch[s] # NoLaunch, launch[s].next \in 1..9,
         NEW says \in {0, build[s]}, Write(s, says),
         Step(s) \in {"sessions", "worktrees"} => says = 0,
         UNCHANGED <<quarantine, phase, build, plan, target>>,
         \A t \in Seats : t # s => launch'[t] = launch[t]
  PROVE  Alone' /\ Silent' /\ Planned' /\ Aimed' /\ ServesOnlyCurrent' /\ BytesKept'
<1> DEFINE e == Target(s)
<1>1. phase[s] = "serving" /\ build[s] \in Builds /\ \A t \in Seats : t # s => phase[t] = "closed"
  BY DEF Inv, Alone
<1>2. says \in Revisions
  BY <1>1 DEF Revisions
<1>3. e \in Entries /\ launch[s].number \in Launches
  BY <1>2, StepsWrite DEF Inv
<1>4. store \in [Entries -> [by : SUBSET Launches, says : Revisions]]
  BY DEF Inv, QuarantineTypeOK
<1>5. \A f \in Entries : f # e => store'[f] = store[f]
  BY <1>3, <1>4 DEF Write
<1>6. \/ store'[e] = store[e]
      \/ /\ store'[e].by = store[e].by \cup {launch[s].number}
         /\ store'[e].says = IF store[e].says = 0 THEN says ELSE store[e].says
  BY <1>3, <1>4 DEF Write
<1>7. Alone'
  BY <1>1 DEF Inv, Alone
<1>8. Silent'
  <2>1. e = <<Step(s), launch[s].run>>
    BY DEF Target
  <2>2. \A r \in Runs, k \in {"sessions", "worktrees"} :
          <<k, r>> \in Entries /\ (<<k, r>> = e => says = 0)
    BY <2>1 DEF Entries, Kinds
  <2>3. \A r \in Runs, k \in {"sessions", "worktrees"} : store'[<<k, r>>].says = 0
    BY <2>2, <1>5, <1>6 DEF Inv, Silent
  <2>4. \A f \in Entries : store'[f].says # 0 => store'[f].by # {}
    BY <1>5, <1>6 DEF Inv, Silent, Present
  <2> QED  BY <2>3, <2>4 DEF Silent, Present
<1>9. Planned' /\ Aimed'
  BY <1>1 DEF Planned, Aimed, Inv, Taken
<1>10. ServesOnlyCurrent'
  BY <1>1, <1>5, <1>6 DEF ServesOnlyCurrent, Inv
<1>11. BytesKept'
  <2>1. ASSUME NEW w \in written'
        PROVE  w[2] \in store'[w[1]].by \/ \E q \in quarantine : q.place.entry = w[1] /\ w[2] \in q.by
    <3>1. CASE w \in written
      <4>1. w[1] \in Entries
        BY <3>1 DEF Inv, QuarantineTypeOK
      <4>2. store[w[1]].by \subseteq store'[w[1]].by
        BY <4>1, <1>5, <1>6
      <4> QED  BY <3>1, <4>2 DEF Inv, BytesKept
    <3>2. CASE w \notin written
      <4>1. w = <<e, launch[s].number>>
        BY <3>2, <2>1 DEF Write
      <4>2. launch[s].number \in store'[e].by
        BY <3>2, <2>1, <1>3, <1>4 DEF Write
      <4> QED  BY <4>1, <4>2
    <3> QED  BY <3>1, <3>2
  <2> QED  BY <2>1 DEF BytesKept
<1> QED  BY <1>7, <1>8, <1>9, <1>10, <1>11

LEMMA RenameKeeps ==
  ASSUME Inv, ~Together, NEW s \in Seats, Rename(s)
  PROVE  Alone' /\ Silent' /\ Planned' /\ Aimed' /\ ServesOnlyCurrent' /\ BytesKept'
<1> DEFINE place == target[s]
           e == place.entry
<1>1. phase[s] = "renaming" /\ build[s] \in Builds /\ \A t \in Seats : t # s => phase[t] = "closed"
  BY DEF Inv, Alone, Rename
<1>2. place \in Destinations /\ ~Taken(place) /\ e \in Entries
  BY <1>1 DEF Inv, Aimed, Destinations
<1>3. store \in [Entries -> [by : SUBSET Launches, says : Revisions]]
  BY DEF Inv, QuarantineTypeOK
<1>4. store' = [store EXCEPT ![e] = Absent]
  BY DEF Rename
<1>5. \A f \in Entries : f # e => store'[f] = store[f]
  BY <1>3, <1>4
<1>6. store'[e].says = 0 /\ store'[e].by = {}
  BY <1>2, <1>3, <1>4 DEF Absent
<1>7. /\ phase' = [phase EXCEPT ![s] = "moving"]
      /\ phase \in [Seats -> {"closed", "moving", "renaming", "serving"}]
  BY DEF Rename, Inv, QuarantineTypeOK
<1>8. phase'[s] = "moving" /\ \A t \in Seats : t # s => phase'[t] = "closed"
  BY <1>1, <1>7
<1>9. Alone'
  BY <1>1, <1>8 DEF Inv, Alone, Rename
<1>10. Silent'
  <2>1. \A r \in Runs, k \in {"sessions", "worktrees"} : <<k, r>> \in Entries
    BY DEF Entries, Kinds
  <2> QED  BY <2>1, <1>5, <1>6 DEF Inv, Silent, Present
<1>11. Planned'
  <2>1. ASSUME NEW f \in Entries
        PROVE  store'[f].says \in {0, build'[s]} \/ \E m \in plan'[s] : m.entry = f
    <3>1. plan'[s] = {m \in plan[s] : m.entry # e} /\ build'[s] = build[s]
      BY DEF Rename, Inv, QuarantineTypeOK
    <3>2. CASE f = e
      BY <3>2, <1>6
    <3>3. CASE f # e
      BY <3>1, <3>3, <1>1, <1>5 DEF Inv, Planned
    <3> QED  BY <3>2, <3>3
  <2> QED  BY <2>1, <1>8 DEF Planned
<1>12. Aimed'
  BY <1>8 DEF Aimed
<1>13. ServesOnlyCurrent'
  BY <1>8 DEF ServesOnlyCurrent
<1>14. BytesKept'
  <2>1. quarantine' = quarantine \cup {[place |-> place, by |-> store[e].by]} /\ written' = written
    BY <1>2 DEF Rename, Taken
  <2>2. ASSUME NEW w \in written
        PROVE  w[2] \in store'[w[1]].by \/ \E q \in quarantine' : q.place.entry = w[1] /\ w[2] \in q.by
    <3>1. w[1] \in Entries
      BY DEF Inv, QuarantineTypeOK
    <3>2. CASE w[2] \in store[w[1]].by
      <4>1. CASE w[1] = e
        <5> DEFINE q == [place |-> place, by |-> store[e].by]
        <5>1. q \in quarantine' /\ q.place = place /\ q.by = store[e].by
          BY <2>1
        <5>2. q.place.entry = w[1] /\ w[2] \in q.by
          BY <3>2, <4>1, <5>1
        <5> QED  BY <5>1, <5>2
      <4>2. CASE w[1] # e
        BY <1>5, <3>1, <3>2, <4>2
      <4> QED  BY <4>1, <4>2
    <3>3. CASE \E q \in quarantine : q.place.entry = w[1] /\ w[2] \in q.by
      BY <2>1, <3>3
    <3> QED  BY <3>2, <3>3 DEF Inv, BytesKept
  <2> QED  BY <2>1, <2>2 DEF BytesKept
<1> QED  BY <1>9, <1>10, <1>11, <1>12, <1>13, <1>14

LEMMA StepKeeps ==
  ASSUME Inv, ~Together, NEW s \in Seats, Gate(s) \/ Launching(s) \/ Stop(s)
  PROVE  Alone' /\ Silent' /\ Planned' /\ Aimed' /\ ServesOnlyCurrent' /\ BytesKept'
<1> DEFINE Rest == Alone' /\ Silent' /\ Planned' /\ Aimed' /\ ServesOnlyCurrent' /\ BytesKept'
<1> SUFFICES Rest
  OBVIOUS
<1>0. QuarantineTypeOK /\ phase \in [Seats -> {"closed", "moving", "renaming", "serving"}]
  BY DEF Inv, QuarantineTypeOK
<1>1. ASSUME NEW b \in Builds, Open(s, b) PROVE Rest
  <2>1. /\ phase'[s] = "moving" /\ build'[s] = b /\ plan'[s] = Plan(b)
        /\ \A t \in Seats : t # s => phase'[t] = "closed"
    BY <1>0, <1>1 DEF Open, QuarantineTypeOK
  <2>2. \A e \in Entries : store[e].says \in {0, b} \/ \E m \in Plan(b) : m.entry = e
    <3>1. ASSUME NEW e \in Entries, store[e].says \notin {0, b}
          PROVE  \E m \in Plan(b) : m.entry = e
      <4>1. store[e].says \in Builds
        BY <3>1, <1>0 DEF QuarantineTypeOK, Revisions
      <4>2. ~(store[e].says > b)
        BY <1>1 DEF Open, Newer
      <4>3. store[e].says < b
        <5>1. store[e].says \in Nat /\ b \in Nat
          BY <4>1, QuarantineAssumption
        <5>2. store[e].says # b
          BY <3>1
        <5> QED  BY <4>2, <5>1, <5>2
      <4> QED  BY <4>1, <4>3, <1>0, PlanCovers DEF Inv
    <3> QED  BY <3>1
  <2>3. Planned'
    BY <2>1, <2>2, <1>1 DEF Planned, Open, files
  <2> QED  BY <2>1, <2>3, <1>1 DEF Alone, Silent, Present, Aimed, ServesOnlyCurrent, BytesKept, Inv, Open, files
<1>2. ASSUME NEW m \in plan[s], Skip(s, m) PROVE Rest
  <2>1. m.entry \in Entries /\ store[m.entry].says = 0
    BY <1>0, <1>2 DEF QuarantineTypeOK, Moves, Skip, Inv, Silent
  <2>2. plan'[s] = plan[s] \ {m} /\ \A t \in Seats : t # s => plan'[t] = plan[t]
    BY <1>0, <1>2 DEF Skip, QuarantineTypeOK
  <2>3. Planned'
    BY <2>1, <2>2, <1>2 DEF Skip, Planned, Inv, files
  <2> QED  BY <2>3, <1>2 DEF Alone, Silent, Present, Aimed, Taken, ServesOnlyCurrent, BytesKept, Inv, Skip, files
<1>3. ASSUME NEW m \in plan[s], Choose(s, m) PROVE Rest
  <2>1. /\ phase[s] = "moving" /\ phase'[s] = "renaming"
        /\ \A t \in Seats : t # s => phase'[t] = phase[t]
    BY <1>0, <1>3 DEF Choose, Upcoming
  <2>2. PICK n \in Launches : Free(m, n) /\ target' = [target EXCEPT ![s] = Destination(m, n)]
    BY <1>3 DEF Choose
  <2>3. target'[s] = Destination(m, n) /\ \A t \in Seats : t # s => target'[t] = target[t]
    BY <1>0, <2>2 DEF QuarantineTypeOK
  <2>4. Destination(m, n) \in Destinations /\ ~Taken(Destination(m, n))
    BY <1>0, <2>2 DEF QuarantineTypeOK, Moves, Destination, Destinations, Free
  <2>5. Aimed'
    BY <2>1, <2>3, <2>4, <1>3 DEF Aimed, Inv, Taken, Choose, files
  <2>6. Alone'
    BY <2>1, <1>3 DEF Alone, Inv, Choose
  <2>7. Planned'
    BY <2>1, <1>3 DEF Planned, Inv, Choose, files
  <2>8. ServesOnlyCurrent'
    BY <2>1, <1>3 DEF ServesOnlyCurrent, Inv, Choose, files
  <2> QED  BY <2>5, <2>6, <2>7, <2>8, <1>3 DEF Silent, Present, BytesKept, Inv, Choose, files
<1>4. ASSUME Rename(s) PROVE Rest
  BY <1>4, RenameKeeps
<1>5. ASSUME Serve(s) PROVE Rest
  <2>1. /\ phase[s] = "moving" /\ phase'[s] = "serving"
        /\ \A t \in Seats : t # s => phase'[t] = phase[t]
    BY <1>0, <1>5 DEF Serve
  <2>2. \A e \in Entries : store[e].says \in {0, build[s]}
    BY <2>1, <1>5 DEF Serve, Inv, Planned
  <2>3. ServesOnlyCurrent'
    BY <2>1, <2>2, <1>5 DEF ServesOnlyCurrent, Inv, Serve, files
  <2>4. Alone'
    BY <2>1, <1>5 DEF Alone, Inv, Serve
  <2> QED  BY <2>1, <2>3, <2>4, <1>5 DEF Silent, Present, Planned, Aimed, Taken, BytesKept, Inv, Serve, files
<1>6. ASSUME Stop(s) PROVE Rest
  <2>1. /\ phase'[s] = "closed" /\ launch'[s] = NoLaunch
        /\ \A t \in Seats : t # s => /\ phase'[t] = phase[t] /\ build'[t] = build[t]
             /\ plan'[t] = plan[t] /\ target'[t] = target[t] /\ launch'[t] = launch[t]
    BY <1>0, <1>6 DEF Stop, Closed, QuarantineTypeOK
  <2>2. UNCHANGED <<store, quarantine, written>>
    BY <1>6 DEF Stop, files
  <2>3. Alone'
    BY <2>1 DEF Alone, Inv
  <2>4. Planned' /\ Aimed' /\ ServesOnlyCurrent'
    BY <2>1, <2>2 DEF Planned, Aimed, Taken, ServesOnlyCurrent, Inv
  <2> QED  BY <2>2, <2>3, <2>4 DEF Silent, Present, BytesKept, Inv
<1>7. ASSUME NEW r \in Runs, Launch(s, r) PROVE Rest
  <2>1. \A t \in Seats : t # s => launch'[t] = launch[t]
    BY <1>0, <1>7 DEF Launch, QuarantineTypeOK
  <2>2. Alone'
    BY <2>1, <1>7 DEF Alone, Inv, Launch
  <2> QED  BY <2>2, <1>7 DEF Silent, Present, Planned, Aimed, Taken, ServesOnlyCurrent, BytesKept, Inv, Launch
<1>8. ASSUME CreateEntry(s) PROVE Rest
  <2>1. launch[s] # NoLaunch /\ launch[s].next \in 1..9 /\ Advance(s)
    BY <1>8 DEF CreateEntry
  <2>2. \A t \in Seats : t # s => launch'[t] = launch[t]
    BY <1>0, <2>1 DEF Advance, QuarantineTypeOK
  <2>3. PICK says \in {0, build[s]} :
          Write(s, says) /\ (Step(s) \in {"sessions", "worktrees"} => says = 0)
    BY <1>8 DEF CreateEntry, Says
  <2> QED  BY <2>1, <2>2, <2>3, <1>8, WritesKeep DEF CreateEntry
<1>9. ASSUME Reserve(s) \/ AddTree(s) \/ Record(s) PROVE Rest
  <2>1. launch[s] # NoLaunch /\ launch[s].next \in 1..9 /\ Advance(s)
    BY <1>9 DEF Reserve, AddTree, Record
  <2>2. \A t \in Seats : t # s => launch'[t] = launch[t]
    BY <1>0, <2>1 DEF Advance, QuarantineTypeOK
  <2>3. PICK says \in {0, build[s]} :
          Write(s, says) /\ (Step(s) \in {"sessions", "worktrees"} => says = 0)
    BY <1>9 DEF Reserve, AddTree, Record, Step, Order
  <2>4. UNCHANGED <<quarantine, phase, build, plan, target>>
    BY <1>9 DEF Reserve, AddTree, Record
  <2> QED  BY <2>1, <2>2, <2>3, <2>4, WritesKeep
<1>10. ASSUME NoTree(s) \/ EndLaunch(s) PROVE Rest
  <2>1. \A t \in Seats : t # s => launch'[t] = launch[t]
    BY <1>0, <1>10 DEF NoTree, EndLaunch, Advance, QuarantineTypeOK
  <2>2. launch[s] # NoLaunch /\ UNCHANGED <<files, phase, build, plan, target>>
    BY <1>10 DEF NoTree, EndLaunch
  <2>3. Alone'
    BY <2>1, <2>2 DEF Alone, Inv
  <2> QED  BY <2>2, <2>3 DEF Silent, Present, Planned, Aimed, Taken, ServesOnlyCurrent, BytesKept, Inv, files
<1> QED  BY <1>1, <1>2, <1>3, <1>4, <1>5, <1>6, <1>7, <1>8, <1>9, <1>10 DEF Gate, Launching

LEMMA Initially == QuarantineInit => Inv
<1>1. QuarantineInit => QuarantineTypeOK
  BY QuarantineAssumption DEF QuarantineInit, QuarantineTypeOK, Absent, Revisions, Launches
<1> QED  BY <1>1 DEF QuarantineInit, Inv, Alone, Silent, Absent, Entries, Kinds, Planned, Aimed,
                     ServesOnlyCurrent, BytesKept

LEMMA Inductive == ~Together /\ Inv /\ [QuarantineNext]_quarantineVars => Inv'
<1> SUFFICES ASSUME ~Together, Inv, [QuarantineNext]_quarantineVars PROVE Inv'
  OBVIOUS
<1>1. CASE QuarantineNext
  <2>1. PICK s \in Seats : Gate(s) \/ Launching(s) \/ Stop(s)
    BY <1>1 DEF QuarantineNext
  <2> QED  BY <2>1, TypeStep, StepKeeps DEF Inv
<1>2. CASE UNCHANGED quarantineVars
  BY <1>2 DEF quarantineVars, files, seats, Inv, QuarantineTypeOK, Alone, Silent, Present, Planned, Aimed, Taken,
              ServesOnlyCurrent, BytesKept
<1> QED  BY <1>1, <1>2

------------------------------------------------------------------------------

(* The invariant holds throughout.                                         *)
LEMMA InvHolds ==
  ASSUME ~Together PROVE QuarantineSpec => []Inv
<1>1. Inv /\ [QuarantineNext]_quarantineVars => Inv'
  BY Inductive
<1> QED  BY <1>1, Initially, PTL DEF QuarantineSpec

(* While one seat at a time has it open, the store's state keeps its types *)
(* through gates, launches and deaths.                                     *)
THEOREM QuarantineTyped ==
  ASSUME ~Together PROVE QuarantineSpec => []QuarantineTypeOK
<1>1. Inv => QuarantineTypeOK
  BY DEF Inv
<1> QED  BY <1>1, InvHolds, PTL

(* A service that passed the gate finds only what its own build wrote,     *)
(* whatever moves and launches were cut off before.                        *)
THEOREM ServicesFindTheirOwn ==
  ASSUME ~Together PROVE QuarantineSpec => []ServesOnlyCurrent
<1>1. Inv => ServesOnlyCurrent
  BY DEF Inv
<1> QED  BY <1>1, InvHolds, PTL

(* Every byte a launch wrote stays in the store or in quarantine.          *)
THEOREM BytesAreKept ==
  ASSUME ~Together PROVE QuarantineSpec => []BytesKept
<1>1. Inv => BytesKept
  BY DEF Inv
<1> QED  BY <1>1, InvHolds, PTL

------------------------------------------------------------------------------
(* The store of warm checkpoints.                                          *)

Evicting == {"suspecting", "condemning", "doubting", "removing"}
\* a start there has a key
Keyed == Warming \cup {"seeking", "avoiding", "locking", "inspecting", "reclaiming",
                       "waiting", "probing", "rejoining", "unlocking", "loading",
                       "resuming"}
\* its lease file is in place and not yet confirmed
Leasing == {"seeking", "rejoining", "adopting"}
\* it may hold a slot
Holding == Warming \cup {"unlocking", "loading", "resuming", "creating", "starting",
                         "running", "stuck"}
States == Warming \cup
  {"idle", "seeking", "avoiding", "locking", "inspecting", "reclaiming", "waiting",
   "probing", "rejoining", "queueing", "unlocking", "loading", "resuming", "creating",
   "starting", "running", "stuck"}
Sweeps == [todo : SUBSET Keys, excess : Nat, victim : Keys \cup {NoKey}]

BootTyped ==
  /\ at \in [Boots -> States]
  /\ key \in [Boots -> Keys \cup {NoKey}]
  /\ has \in [Boots -> SUBSET {"lock", "lease"}]
StoreTyped ==
  /\ images \subseteq Keys /\ sidecars \subseteq Keys
  /\ lock \in [Keys -> Boots \cup {Dead, NoOwner}]
  /\ leases \in [Keys -> SUBSET (Boots \cup {Dead})]
SweepTyped == sweep \in [Boots -> Sweeps]
Counted ==
  /\ slots \subseteq Boots /\ IsFiniteSet(slots) /\ Cardinality(slots) <= MaxSlots
  /\ failures \subseteq Keys /\ IsFiniteSet(images)
  /\ round \in [Boots -> 0..2] /\ SweepTyped
  /\ \A b \in Boots : at[b] \in Evicting => sweep[b].excess > 0
  /\ starts \in 0..MaxStarts
Shape == BootTyped /\ StoreTyped /\ Counted

\* an idle start has nothing, and who has something has a key
IdleInv == \A b \in Boots :
  /\ at[b] = "idle" => key[b] = NoKey /\ has[b] = {}
  /\ key[b] \in Keys \cup {NoKey}
  /\ at[b] \in Keyed \/ has[b] # {} => key[b] \in Keys
  /\ b \in slots => at[b] \in Holding

\* a lock that names a living process is one it believes it has
LockInv == \A b \in Boots :
  /\ \A k \in Keys : lock[k] = b => "lock" \in has[b] /\ key[b] = k
  /\ "lock" \in has[b] => at[b] \in Warming \cup {"queueing", "unlocking"}
  /\ at[b] \in Warming \cup {"unlocking"} => "lock" \in has[b]

\* the lease files that name it are those it believes it has, and the one it
\* is about to confirm
LeaseInv == \A b \in Boots :
  /\ \A k \in Keys :
       b \in leases[k] <=> key[b] = k /\ ("lease" \in has[b] \/ at[b] \in Leasing)
  /\ "lease" \in has[b] => at[b] \in {"queueing", "unlocking", "loading", "resuming",
                                      "starting", "running", "stuck"}
  /\ {"lock", "lease"} \subseteq has[b] => at[b] = "unlocking"

OwnInv == Shape /\ IdleInv /\ LockInv /\ LeaseInv

\* where nobody is overtaken, a process has the lock it believes it has
KeptInv == \A b \in Boots : "lock" \in has[b] => lock[key[b]] = b

\* what is reclaimed is no living process's lock
ReclaimInv == \A b \in Boots : at[b] = "reclaiming" => lock[key[b]] \notin Boots

\* an eviction that has looked at the lock meets no publication of its
\* victim, whose sidecar stays away once it is gone, so that no lease is
\* granted any more; after the second look at the leases none is left
SweepInv == \A b \in Boots :
  /\ at[b] \in Evicting => sweep[b].victim \in Keys
  /\ at[b] \in {"condemning", "doubting", "removing"} =>
       \A c \in Boots : at[c] = "describing" => key[c] # sweep[b].victim
  /\ at[b] \in {"doubting", "removing"} => sweep[b].victim \notin sidecars
  /\ at[b] = "removing" =>
       \A c \in Boots : "lease" \in has[c] => key[c] # sweep[b].victim

WarmInv == OwnInv /\ KeptInv /\ ReclaimInv /\ SweepInv /\ LeasedStays

\* a step that is no part of an eviction or a publication
Quiet ==
  /\ UNCHANGED sidecars
  /\ \A b \in Boots :
       /\ at'[b] \in Evicting => at'[b] = at[b] /\ sweep'[b] = sweep[b]
       /\ at'[b] = "describing" => at[b] = "describing" /\ key'[b] = key[b]
       /\ "lease" \in has'[b] =>
            key'[b] = key[b] /\ ("lease" \in has[b] \/ key[b] \in sidecars)

(* The next victim keeps a record of an eviction one.                      *)
LEMMA NextVictim ==
  ASSUME NEW r \in Sweeps, NEW k \in Keys, NEW victim \in Keys \cup {NoKey}
  PROVE  /\ [r EXCEPT !.todo = @ \ {k}, !.victim = victim] \in Sweeps
         /\ [r EXCEPT !.todo = @ \ {k}, !.victim = victim].excess = r.excess
  BY DEF Sweeps

(* Slots, images, rounds and starts are counted right, overtaken or not.   *)
LEMMA CountedStep ==
  ASSUME OwnInv, [Next]_vars
  PROVE  Counted'
<1>a. /\ Counted /\ images \subseteq Keys /\ at = [b \in Boots |-> at[b]]
      /\ \A b \in Boots : at[b] \in Keyed => key[b] \in Keys
  BY DEF OwnInv, Shape, BootTyped, StoreTyped, IdleInv
<1> USE <1>a, BoundsAssumption, KeysAssumption
    DEF Counted, SweepTyped, Sweeps, Go, Move, Leave, checkpoints, boot, Keyed, Warming
<1>1. ASSUME NEW b \in Boots, Begin(b) PROVE Counted'
  BY <1>1 DEF Begin, Evicting
<1>2. ASSUME NEW b \in Boots, FirstLease(b) \/ LateLease(b) \/ OwnLease(b) PROVE Counted'
  BY <1>2 DEF FirstLease, LateLease, OwnLease, Confirm, Evicting
<1>3. ASSUME NEW b \in Boots, CheckFailure(b) \/ LinkLock(b) \/ Inspect(b) \/ Reclaim(b) PROVE Counted'
  BY <1>3 DEF CheckFailure, LinkLock, Inspect, Reclaim, Evicting
<1>4. ASSUME NEW b \in Boots, Poll(b) \/ Probe(b) \/ StopWaiting(b) PROVE Counted'
  BY <1>4 DEF Poll, Probe, StopWaiting, Evicting
<1>5. ASSUME NEW b \in Boots, TakeSlot(b) PROVE Counted'
  <2>1. slots' = slots \cup {b} /\ Cardinality(slots) < MaxSlots
    BY <1>5 DEF TakeSlot
  <2>2. /\ IsFiniteSet(slots')
        /\ Cardinality(slots') = IF b \in slots THEN Cardinality(slots)
                                 ELSE Cardinality(slots) + 1
    BY <2>1, FS_AddElement
  <2>3. Cardinality(slots) \in Nat
    BY FS_CardinalityType
  <2> QED BY <1>5, <2>1, <2>2, <2>3 DEF TakeSlot, Evicting
<1>6. ASSUME NEW b \in Boots, slots' \in {slots, slots \ {b}}
      PROVE  IsFiniteSet(slots') /\ Cardinality(slots') <= MaxSlots
  <2>1. /\ IsFiniteSet(slots \ {b})
        /\ Cardinality(slots \ {b}) = IF b \in slots THEN Cardinality(slots) - 1
                                      ELSE Cardinality(slots)
    BY FS_RemoveElement
  <2>2. Cardinality(slots) \in Nat
    BY FS_CardinalityType
  <2>3. CASE slots' = slots
    BY <2>3
  <2>4. CASE slots' = slots \ {b}
    BY <2>1, <2>2, <2>4
  <2> QED BY <1>6, <2>3, <2>4
<1>7. ASSUME NEW b \in Boots, NoSlot(b) \/ WarmUp(b) \/ Create(b) \/ Close(b) PROVE Counted'
  <2>1. slots' \in {slots, slots \ {b}}
    BY <1>7 DEF NoSlot, WarmUp, Create, Close
  <2> QED BY <1>7, <1>6, <2>1 DEF NoSlot, WarmUp, Create, Close, Evicting
<1>8. ASSUME NEW b \in Boots, PublishFails(b) \/ Crash(b) PROVE Counted'
  <2>1. slots' = slots \ {b} /\ sweep' = [sweep EXCEPT ![b] = NoSweep]
    BY <1>8 DEF PublishFails, Crash
  <2>2. sweep' \in [Boots -> Sweeps]
    BY <2>1 DEF NoSweep
  <2>3. /\ at' = [at EXCEPT ![b] = "idle"]
        /\ round' \in {round, [round EXCEPT ![b] = 0]}
        /\ UNCHANGED <<images, failures, starts>>
    BY <1>8 DEF PublishFails, Crash
  <2>4. IsFiniteSet(slots') /\ Cardinality(slots') <= MaxSlots
    BY <1>6, <2>1
  <2> QED BY <2>1, <2>2, <2>3, <2>4 DEF Evicting
<1>9. ASSUME NEW b \in Boots, Publish(b) PROVE Counted'
  <2>1. IsFiniteSet(images')
    BY <1>9, FS_AddElement DEF Publish
  <2> QED BY <1>9, <2>1 DEF Publish, Evicting
<1>10. ASSUME NEW b \in Boots, Describe(b) PROVE Counted'
  <2>1. Cardinality(images) \in Nat
    BY FS_CardinalityType
  <2> DEFINE n == IF Cardinality(images) > MaxImages
                  THEN Cardinality(images) - MaxImages ELSE 0
             start == [todo |-> images, victim |-> NoKey, excess |-> n]
  <2>2. n \in Nat
    BY <2>1
  <2>3. sweep' = [sweep EXCEPT ![b] = start]
    BY <1>10 DEF Describe
  <2> HIDE DEF n
  <2>4. sweep' \in [Boots -> Sweeps]
    BY <2>2, <2>3
  <2> QED BY <1>10, <2>3, <2>4 DEF Describe, Evicting
<1>11. ASSUME NEW b \in Boots, Sweep(b) PROVE Counted'
  <2>1. UNCHANGED <<images, failures, slots, round, starts>>
    BY <1>11 DEF Sweep
  <2>2. CASE sweep' = [sweep EXCEPT ![b] = NoSweep] /\ Go(b, "adopting")
    <3>1. NoSweep \in Sweeps
      BY DEF NoSweep, Sweeps
    <3> QED BY <2>1, <2>2, <3>1 DEF Evicting
  <2>3. CASE /\ sweep[b].excess # 0
             /\ \E k \in sweep[b].todo, victim \in Keys \cup {NoKey} :
                  sweep' = [sweep EXCEPT ![b].todo = @ \ {k}, ![b].victim = victim]
             /\ \E to \in {"sweeping", "suspecting"} : Go(b, to)
    <3>1. PICK k \in sweep[b].todo, victim \in Keys \cup {NoKey} :
            sweep' = [sweep EXCEPT ![b].todo = @ \ {k}, ![b].victim = victim]
      BY <2>3
    <3> DEFINE next == [sweep[b] EXCEPT !.todo = @ \ {k}, !.victim = victim]
    <3>2. sweep' = [c \in Boots |-> IF c = b THEN next ELSE sweep[c]]
      BY <3>1
    <3>3. /\ next \in Sweeps
          /\ next.excess > 0
      <4>1. sweep[b] \in Sweeps /\ k \in Keys /\ sweep[b].excess \in Nat
        OBVIOUS
      <4> HIDE DEF Sweeps
      <4>2. next \in Sweeps /\ next.excess = sweep[b].excess
        BY <4>1, NextVictim, Zenon
      <4> QED BY <2>3, <4>1, <4>2
    <3> HIDE DEF next
    <3> QED BY <2>1, <2>3, <3>2, <3>3 DEF Evicting
  <2> QED BY <1>11, <2>2, <2>3 DEF Sweep
<1>12. ASSUME NEW b \in Boots, Suspect(b) \/ Condemn(b) \/ Doubt(b) PROVE Counted'
  BY <1>12 DEF Suspect, Condemn, Doubt, Spare, Evicting
<1>13. ASSUME NEW b \in Boots, Remove(b) PROVE Counted'
  <2>1. IsFiniteSet(images')
    BY <1>13, FS_RemoveElement DEF Remove
  <2> QED BY <1>13, <2>1 DEF Remove, Evicting
<1>14. ASSUME NEW b \in Boots, Unlock(b) \/ Load(b) \/ Resume(b) \/ Start(b) PROVE Counted'
  BY <1>14 DEF Unlock, Load, Resume, Start, Evicting
<1>15. CASE (\E k \in Keys : Forget(k)) \/ UNCHANGED vars
  BY <1>15 DEF Forget, vars
<1> QED
  BY <1>1, <1>2, <1>3, <1>4, <1>5, <1>7, <1>8, <1>9, <1>10, <1>11, <1>12, <1>13, <1>14,
     <1>15 DEF Next, Prepare, Evict, Warm, Slot, StartVm

(* Where each start is, its key and what it believes it has.               *)
LEMMA BootTypedStep ==
  ASSUME OwnInv, [Next]_vars
  PROVE  BootTyped'
<1> USE OwnerAssumption, KeysAssumption
    DEF Go, Leave, Move, Unlocked, Unleased, checkpoints, boot,
        OwnInv, Shape, BootTyped, States, Warming
<1>1. ASSUME NEW b \in Boots, Begin(b) PROVE BootTyped'
  BY <1>1 DEF Begin
<1>2. ASSUME NEW b \in Boots, FirstLease(b) PROVE BootTyped'
  BY <1>2 DEF FirstLease, Confirm
<1>3. ASSUME NEW b \in Boots, LateLease(b) PROVE BootTyped'
  BY <1>3 DEF LateLease, Confirm
<1>4. ASSUME NEW b \in Boots, OwnLease(b) PROVE BootTyped'
  BY <1>4 DEF OwnLease, Confirm
<1>5. ASSUME NEW b \in Boots, CheckFailure(b) PROVE BootTyped'
  BY <1>5 DEF CheckFailure
<1>6. ASSUME NEW b \in Boots, LinkLock(b) PROVE BootTyped'
  BY <1>6 DEF LinkLock, Reclaimed
<1>7. ASSUME NEW b \in Boots, Inspect(b) PROVE BootTyped'
  BY <1>7 DEF Inspect, Reclaimed, Locked, Alive
<1>8. ASSUME NEW b \in Boots, Reclaim(b) PROVE BootTyped'
  BY <1>8 DEF Reclaim
<1>9. ASSUME NEW b \in Boots, Poll(b) PROVE BootTyped'
  BY <1>9 DEF Poll
<1>10. ASSUME NEW b \in Boots, Probe(b) PROVE BootTyped'
  BY <1>10 DEF Probe, Locked, Alive
<1>11. ASSUME NEW b \in Boots, StopWaiting(b) PROVE BootTyped'
  BY <1>11 DEF StopWaiting
<1>12. ASSUME NEW b \in Boots, TakeSlot(b) PROVE BootTyped'
  BY <1>12 DEF TakeSlot
<1>13. ASSUME NEW b \in Boots, NoSlot(b) PROVE BootTyped'
  BY <1>13 DEF NoSlot
<1>14. ASSUME NEW b \in Boots, WarmUp(b) PROVE BootTyped'
  BY <1>14 DEF WarmUp
<1>15. ASSUME NEW b \in Boots, Publish(b) PROVE BootTyped'
  BY <1>15 DEF Publish, Condemned
<1>16. ASSUME NEW b \in Boots, Describe(b) PROVE BootTyped'
  BY <1>16 DEF Describe
<1>17. ASSUME NEW b \in Boots, PublishFails(b) PROVE BootTyped'
  BY <1>17 DEF PublishFails
<1>18. ASSUME NEW b \in Boots, Sweep(b) PROVE BootTyped'
  BY <1>18 DEF Sweep, Leased
<1>19. ASSUME NEW b \in Boots, Suspect(b) PROVE BootTyped'
  BY <1>19 DEF Suspect, Spare, Locked, Alive
<1>20. ASSUME NEW b \in Boots, Condemn(b) PROVE BootTyped'
  BY <1>20 DEF Condemn
<1>21. ASSUME NEW b \in Boots, Doubt(b) PROVE BootTyped'
  BY <1>21 DEF Doubt, Spare, Leased
<1>22. ASSUME NEW b \in Boots, Remove(b) PROVE BootTyped'
  BY <1>22 DEF Remove
<1>23. ASSUME NEW b \in Boots, Unlock(b) PROVE BootTyped'
  BY <1>23 DEF Unlock
<1>24. ASSUME NEW b \in Boots, Load(b) PROVE BootTyped'
  BY <1>24 DEF Load
<1>25. ASSUME NEW b \in Boots, Resume(b) PROVE BootTyped'
  BY <1>25 DEF Resume
<1>26. ASSUME NEW b \in Boots, Create(b) PROVE BootTyped'
  BY <1>26 DEF Create
<1>27. ASSUME NEW b \in Boots, Start(b) PROVE BootTyped'
  BY <1>27 DEF Start
<1>28. ASSUME NEW b \in Boots, Close(b) PROVE BootTyped'
  BY <1>28 DEF Close
<1>29. ASSUME NEW b \in Boots, Crash(b) PROVE BootTyped'
  BY <1>29 DEF Crash
<1>30. CASE (\E k \in Keys : Forget(k)) \/ UNCHANGED vars
  BY <1>30 DEF Forget, vars
<1> QED
  BY <1>1, <1>2, <1>3, <1>4, <1>5, <1>6, <1>7, <1>8, <1>9, <1>10, <1>11,
     <1>12, <1>13, <1>14, <1>15, <1>16, <1>17, <1>18, <1>19, <1>20, <1>21,
     <1>22, <1>23, <1>24, <1>25, <1>26, <1>27, <1>28, <1>29, <1>30 DEF Next,
     Prepare, Evict, Warm, Slot, StartVm

(* The files: images, sidecars, locks and leases.                          *)
LEMMA StoreTypedStep ==
  ASSUME OwnInv, [Next]_vars
  PROVE  StoreTyped'
<1> USE OwnerAssumption, KeysAssumption
    DEF Go, Leave, Move, Unlocked, Unleased, checkpoints, boot,
        OwnInv, Shape, BootTyped, StoreTyped, IdleInv, Keyed, Warming
<1>f. ASSUME UNCHANGED <<images, sidecars, lock, leases>> PROVE StoreTyped'
  BY <1>f DEF StoreTyped, OwnInv, Shape
<1>1. ASSUME NEW b \in Boots,
            CheckFailure(b) \/ Inspect(b) \/ StopWaiting(b)
              \/ TakeSlot(b) \/ Suspect(b) \/ Create(b)
              \/ Start(b)
      PROVE  UNCHANGED <<images, sidecars, lock, leases>>
  BY <1>1 DEF CheckFailure, Inspect, Reclaimed, Locked, Alive, StopWaiting,
     TakeSlot, Suspect, Spare, Create, Start
<1>2. ASSUME NEW b \in Boots, Begin(b) PROVE StoreTyped'
  BY <1>2 DEF Begin
<1>3. ASSUME NEW b \in Boots, FirstLease(b) PROVE StoreTyped'
  BY <1>3 DEF FirstLease, Confirm
<1>4. ASSUME NEW b \in Boots, LateLease(b) PROVE StoreTyped'
  BY <1>4 DEF LateLease, Confirm
<1>5. ASSUME NEW b \in Boots, OwnLease(b) PROVE StoreTyped'
  BY <1>5 DEF OwnLease, Confirm
<1>6. ASSUME NEW b \in Boots, LinkLock(b) PROVE StoreTyped'
  BY <1>6 DEF LinkLock, Reclaimed
<1>7. ASSUME NEW b \in Boots, Reclaim(b) PROVE StoreTyped'
  BY <1>7 DEF Reclaim
<1>8. ASSUME NEW b \in Boots, Poll(b) PROVE StoreTyped'
  BY <1>8 DEF Poll
<1>9. ASSUME NEW b \in Boots, Probe(b) PROVE StoreTyped'
  BY <1>9 DEF Probe, Locked, Alive
<1>10. ASSUME NEW b \in Boots, NoSlot(b) PROVE StoreTyped'
  BY <1>10 DEF NoSlot
<1>11. ASSUME NEW b \in Boots, WarmUp(b) PROVE StoreTyped'
  BY <1>11 DEF WarmUp
<1>12. ASSUME NEW b \in Boots, Publish(b) PROVE StoreTyped'
  BY <1>12 DEF Publish, Condemned
<1>13. ASSUME NEW b \in Boots, Describe(b) PROVE StoreTyped'
  BY <1>13 DEF Describe
<1>14. ASSUME NEW b \in Boots, PublishFails(b) PROVE StoreTyped'
  BY <1>14 DEF PublishFails
<1>15. ASSUME NEW b \in Boots, Sweep(b) PROVE StoreTyped'
  <2>0. key[b] \in Keys
    <3>1. at[b] = "sweeping"
      BY <1>15 DEF Sweep
    <3> QED BY <3>1 DEF IdleInv, Keyed, Warming, OwnInv
  <2>1. CASE leases' = [leases EXCEPT ![key[b]] = @ \cup {b}]
    <3>1. UNCHANGED <<images, sidecars, lock>>
      BY <1>15 DEF Sweep
    <3>2. leases' \in [Keys -> SUBSET (Boots \cup {Dead})]
      <4>1. leases \in [Keys -> SUBSET (Boots \cup {Dead})]
        BY DEF OwnInv, Shape, StoreTyped
      <4>2. (leases[key[b]] \cup {b}) \in SUBSET (Boots \cup {Dead})
        BY <2>0, <4>1
      <4> QED BY <2>1, <4>1, <4>2
    <3> QED BY <3>1, <3>2 DEF OwnInv, Shape, StoreTyped
  <2>2. CASE \E k \in sweep[b].todo : leases' = [leases EXCEPT ![k] = @ \ {Dead}]
    <3>1. UNCHANGED <<images, sidecars, lock>>
      BY <1>15 DEF Sweep
    <3>2. leases' \in [Keys -> SUBSET (Boots \cup {Dead})]
      BY <2>2 DEF OwnInv, Shape, StoreTyped, Counted, SweepTyped, Sweeps
    <3> QED BY <3>1, <3>2 DEF OwnInv, Shape, StoreTyped
  <2> QED BY <1>15, <2>1, <2>2 DEF Sweep
<1>16. ASSUME NEW b \in Boots, Condemn(b) PROVE StoreTyped'
  BY <1>16 DEF Condemn
<1>17. ASSUME NEW b \in Boots, Doubt(b) PROVE StoreTyped'
  BY <1>17 DEF Doubt, Spare, Leased
<1>18. ASSUME NEW b \in Boots, Remove(b) PROVE StoreTyped'
  BY <1>18 DEF Remove
<1>19. ASSUME NEW b \in Boots, Unlock(b) PROVE StoreTyped'
  BY <1>19 DEF Unlock
<1>20. ASSUME NEW b \in Boots, Load(b) PROVE StoreTyped'
  BY <1>20 DEF Load
<1>21. ASSUME NEW b \in Boots, Resume(b) PROVE StoreTyped'
  BY <1>21 DEF Resume
<1>22. ASSUME NEW b \in Boots, Close(b) PROVE StoreTyped'
  BY <1>22 DEF Close
<1>23. ASSUME NEW b \in Boots, Crash(b) PROVE StoreTyped'
  BY <1>23 DEF Crash
<1>24. CASE (\E k \in Keys : Forget(k)) \/ UNCHANGED vars
  BY <1>24 DEF Forget, vars
<1> QED
  BY <1>f, <1>1, <1>2, <1>3, <1>4, <1>5, <1>6, <1>7, <1>8, <1>9, <1>10,
     <1>11, <1>12, <1>13, <1>14, <1>15, <1>16, <1>17, <1>18, <1>19, <1>20,
     <1>21, <1>22, <1>23, <1>24 DEF Next, Prepare, Evict, Warm, Slot, StartVm

(* What an idle start has, and who has a key, after every step.            *)
LEMMA IdleInvStep ==
  ASSUME OwnInv, [Next]_vars
  PROVE  IdleInv'
<1> USE OwnerAssumption, KeysAssumption
    DEF Go, Leave, Move, Unlocked, Unleased, checkpoints, boot,
        IdleInv, OwnInv, Shape, BootTyped, Keyed, Warming, Holding
<1>1. ASSUME NEW b \in Boots, Begin(b) PROVE IdleInv'
  BY <1>1 DEF Begin
<1>2. ASSUME NEW b \in Boots, FirstLease(b) PROVE IdleInv'
  BY <1>2 DEF FirstLease, Confirm
<1>3. ASSUME NEW b \in Boots, LateLease(b) PROVE IdleInv'
  BY <1>3 DEF LateLease, Confirm
<1>4. ASSUME NEW b \in Boots, OwnLease(b) PROVE IdleInv'
  BY <1>4 DEF OwnLease, Confirm
<1>5. ASSUME NEW b \in Boots, CheckFailure(b) PROVE IdleInv'
  BY <1>5 DEF CheckFailure
<1>6. ASSUME NEW b \in Boots, LinkLock(b) PROVE IdleInv'
  BY <1>6 DEF LinkLock, Reclaimed
<1>7. ASSUME NEW b \in Boots, Inspect(b) PROVE IdleInv'
  BY <1>7 DEF Inspect, Reclaimed, Locked, Alive
<1>8. ASSUME NEW b \in Boots, Reclaim(b) PROVE IdleInv'
  BY <1>8 DEF Reclaim
<1>9. ASSUME NEW b \in Boots, Poll(b) PROVE IdleInv'
  BY <1>9 DEF Poll
<1>10. ASSUME NEW b \in Boots, Probe(b) PROVE IdleInv'
  BY <1>10 DEF Probe, Locked, Alive
<1>11. ASSUME NEW b \in Boots, StopWaiting(b) PROVE IdleInv'
  BY <1>11 DEF StopWaiting
<1>12. ASSUME NEW b \in Boots, TakeSlot(b) PROVE IdleInv'
  BY <1>12 DEF TakeSlot
<1>13. ASSUME NEW b \in Boots, NoSlot(b) PROVE IdleInv'
  BY <1>13 DEF NoSlot
<1>14. ASSUME NEW b \in Boots, WarmUp(b) PROVE IdleInv'
  BY <1>14 DEF WarmUp
<1>15. ASSUME NEW b \in Boots, Publish(b) PROVE IdleInv'
  BY <1>15 DEF Publish, Condemned
<1>16. ASSUME NEW b \in Boots, Describe(b) PROVE IdleInv'
  BY <1>16 DEF Describe
<1>17. ASSUME NEW b \in Boots, PublishFails(b) PROVE IdleInv'
  BY <1>17 DEF PublishFails
<1>18. ASSUME NEW b \in Boots, Sweep(b) PROVE IdleInv'
  BY <1>18 DEF Sweep, Leased
<1>19. ASSUME NEW b \in Boots, Suspect(b) PROVE IdleInv'
  BY <1>19 DEF Suspect, Spare, Locked, Alive
<1>20. ASSUME NEW b \in Boots, Condemn(b) PROVE IdleInv'
  BY <1>20 DEF Condemn
<1>21. ASSUME NEW b \in Boots, Doubt(b) PROVE IdleInv'
  BY <1>21 DEF Doubt, Spare, Leased
<1>22. ASSUME NEW b \in Boots, Remove(b) PROVE IdleInv'
  BY <1>22 DEF Remove
<1>23. ASSUME NEW b \in Boots, Unlock(b) PROVE IdleInv'
  BY <1>23 DEF Unlock
<1>24. ASSUME NEW b \in Boots, Load(b) PROVE IdleInv'
  BY <1>24 DEF Load
<1>25. ASSUME NEW b \in Boots, Resume(b) PROVE IdleInv'
  BY <1>25 DEF Resume
<1>26. ASSUME NEW b \in Boots, Create(b) PROVE IdleInv'
  BY <1>26 DEF Create
<1>27. ASSUME NEW b \in Boots, Start(b) PROVE IdleInv'
  BY <1>27 DEF Start
<1>28. ASSUME NEW b \in Boots, Close(b) PROVE IdleInv'
  BY <1>28 DEF Close
<1>29. ASSUME NEW b \in Boots, Crash(b) PROVE IdleInv'
  BY <1>29 DEF Crash
<1>30. CASE (\E k \in Keys : Forget(k)) \/ UNCHANGED vars
  BY <1>30 DEF Forget, vars
<1> QED
  BY <1>1, <1>2, <1>3, <1>4, <1>5, <1>6, <1>7, <1>8, <1>9, <1>10, <1>11,
     <1>12, <1>13, <1>14, <1>15, <1>16, <1>17, <1>18, <1>19, <1>20, <1>21,
     <1>22, <1>23, <1>24, <1>25, <1>26, <1>27, <1>28, <1>29, <1>30 DEF Next,
     Prepare, Evict, Warm, Slot, StartVm

(* A lock that is taken is remembered until it is gone.                    *)
LEMMA LockInvStep ==
  ASSUME OwnInv, [Next]_vars
  PROVE  LockInv'
<1> USE OwnerAssumption, KeysAssumption
    DEF Go, Leave, Move, Unlocked, Unleased, checkpoints, boot,
        LockInv, OwnInv, Shape, BootTyped, StoreTyped, Warming
<1>1. ASSUME NEW b \in Boots, Begin(b) PROVE LockInv'
  BY <1>1 DEF Begin
<1>2. ASSUME NEW b \in Boots, FirstLease(b) PROVE LockInv'
  BY <1>2 DEF FirstLease, Confirm
<1>3. ASSUME NEW b \in Boots, LateLease(b) PROVE LockInv'
  BY <1>3 DEF LateLease, Confirm
<1>4. ASSUME NEW b \in Boots, OwnLease(b) PROVE LockInv'
  BY <1>4 DEF OwnLease, Confirm
<1>5. ASSUME NEW b \in Boots, CheckFailure(b) PROVE LockInv'
  BY <1>5 DEF CheckFailure
<1>6. ASSUME NEW b \in Boots, LinkLock(b) PROVE LockInv'
  BY <1>6 DEF LinkLock, Reclaimed
<1>7. ASSUME NEW b \in Boots, Inspect(b) PROVE LockInv'
  BY <1>7 DEF Inspect, Reclaimed, Locked, Alive
<1>8. ASSUME NEW b \in Boots, Reclaim(b) PROVE LockInv'
  BY <1>8 DEF Reclaim
<1>9. ASSUME NEW b \in Boots, Poll(b) PROVE LockInv'
  BY <1>9 DEF Poll
<1>10. ASSUME NEW b \in Boots, Probe(b) PROVE LockInv'
  BY <1>10 DEF Probe, Locked, Alive
<1>11. ASSUME NEW b \in Boots, StopWaiting(b) PROVE LockInv'
  BY <1>11 DEF StopWaiting
<1>12. ASSUME NEW b \in Boots, TakeSlot(b) PROVE LockInv'
  BY <1>12 DEF TakeSlot
<1>13. ASSUME NEW b \in Boots, NoSlot(b) PROVE LockInv'
  BY <1>13 DEF NoSlot
<1>14. ASSUME NEW b \in Boots, WarmUp(b) PROVE LockInv'
  BY <1>14 DEF WarmUp
<1>15. ASSUME NEW b \in Boots, Publish(b) PROVE LockInv'
  BY <1>15 DEF Publish, Condemned
<1>16. ASSUME NEW b \in Boots, Describe(b) PROVE LockInv'
  BY <1>16 DEF Describe
<1>17. ASSUME NEW b \in Boots, PublishFails(b) PROVE LockInv'
  BY <1>17 DEF PublishFails
<1>18. ASSUME NEW b \in Boots, Sweep(b) PROVE LockInv'
  <2>1. /\ at[b] = "sweeping" /\ UNCHANGED <<lock, key, has>>
        /\ \E to \in {"adopting", "sweeping", "suspecting"} :
             at' = [at EXCEPT ![b] = to]
    BY <1>18 DEF Sweep
  <2> QED BY <2>1
<1>19. ASSUME NEW b \in Boots, Suspect(b) PROVE LockInv'
  BY <1>19 DEF Suspect, Spare, Locked, Alive
<1>20. ASSUME NEW b \in Boots, Condemn(b) PROVE LockInv'
  BY <1>20 DEF Condemn
<1>21. ASSUME NEW b \in Boots, Doubt(b) PROVE LockInv'
  BY <1>21 DEF Doubt, Spare, Leased
<1>22. ASSUME NEW b \in Boots, Remove(b) PROVE LockInv'
  BY <1>22 DEF Remove
<1>23. ASSUME NEW b \in Boots, Unlock(b) PROVE LockInv'
  BY <1>23 DEF Unlock
<1>24. ASSUME NEW b \in Boots, Load(b) PROVE LockInv'
  BY <1>24 DEF Load
<1>25. ASSUME NEW b \in Boots, Resume(b) PROVE LockInv'
  BY <1>25 DEF Resume
<1>26. ASSUME NEW b \in Boots, Create(b) PROVE LockInv'
  BY <1>26 DEF Create
<1>27. ASSUME NEW b \in Boots, Start(b) PROVE LockInv'
  BY <1>27 DEF Start
<1>28. ASSUME NEW b \in Boots, Close(b) PROVE LockInv'
  BY <1>28 DEF Close
<1>29. ASSUME NEW b \in Boots, Crash(b) PROVE LockInv'
  BY <1>29 DEF Crash
<1>30. CASE (\E k \in Keys : Forget(k)) \/ UNCHANGED vars
  BY <1>30 DEF Forget, vars
<1> QED
  BY <1>1, <1>2, <1>3, <1>4, <1>5, <1>6, <1>7, <1>8, <1>9, <1>10, <1>11,
     <1>12, <1>13, <1>14, <1>15, <1>16, <1>17, <1>18, <1>19, <1>20, <1>21,
     <1>22, <1>23, <1>24, <1>25, <1>26, <1>27, <1>28, <1>29, <1>30 DEF Next,
     Prepare, Evict, Warm, Slot, StartVm

(* Lease files come and go with what their process believes it has.        *)
LEMMA LeaseInvStep ==
  ASSUME OwnInv, [Next]_vars
  PROVE  LeaseInv'
<1> USE OwnerAssumption, KeysAssumption
    DEF Go, Leave, Move, Unlocked, Unleased, checkpoints, boot,
        IdleInv, LockInv, Keyed, LeaseInv, OwnInv, Shape, BootTyped, StoreTyped, Warming, Leasing
<1>1. ASSUME NEW b \in Boots, Begin(b) PROVE LeaseInv'
  BY <1>1 DEF Begin
<1>2. ASSUME NEW b \in Boots, FirstLease(b) PROVE LeaseInv'
  BY <1>2 DEF FirstLease, Confirm
<1>3. ASSUME NEW b \in Boots, LateLease(b) PROVE LeaseInv'
  BY <1>3 DEF LateLease, Confirm
<1>4. ASSUME NEW b \in Boots, OwnLease(b) PROVE LeaseInv'
  BY <1>4 DEF OwnLease, Confirm
<1>5. ASSUME NEW b \in Boots, CheckFailure(b) PROVE LeaseInv'
  BY <1>5 DEF CheckFailure
<1>6. ASSUME NEW b \in Boots, LinkLock(b) PROVE LeaseInv'
  BY <1>6 DEF LinkLock, Reclaimed
<1>7. ASSUME NEW b \in Boots, Inspect(b) PROVE LeaseInv'
  BY <1>7 DEF Inspect, Reclaimed, Locked, Alive
<1>8. ASSUME NEW b \in Boots, Reclaim(b) PROVE LeaseInv'
  BY <1>8 DEF Reclaim
<1>9. ASSUME NEW b \in Boots, Poll(b) PROVE LeaseInv'
  BY <1>9 DEF Poll
<1>10. ASSUME NEW b \in Boots, Probe(b) PROVE LeaseInv'
  BY <1>10 DEF Probe, Locked, Alive
<1>11. ASSUME NEW b \in Boots, StopWaiting(b) PROVE LeaseInv'
  BY <1>11 DEF StopWaiting
<1>12. ASSUME NEW b \in Boots, TakeSlot(b) PROVE LeaseInv'
  <2>1. CASE "lock" \in has[b]
    BY <1>12, <2>1 DEF TakeSlot
  <2>2. CASE "lock" \notin has[b] /\ "lease" \in has[b]
    BY <1>12, <2>2 DEF TakeSlot
  <2>3. CASE "lock" \notin has[b] /\ "lease" \notin has[b]
    BY <1>12, <2>3 DEF TakeSlot
  <2> QED BY <2>1, <2>2, <2>3
<1>13. ASSUME NEW b \in Boots, NoSlot(b) PROVE LeaseInv'
  BY <1>13 DEF NoSlot
<1>14. ASSUME NEW b \in Boots, WarmUp(b) PROVE LeaseInv'
  BY <1>14 DEF WarmUp
<1>15. ASSUME NEW b \in Boots, Publish(b) PROVE LeaseInv'
  BY <1>15 DEF Publish, Condemned
<1>16. ASSUME NEW b \in Boots, Describe(b) PROVE LeaseInv'
  BY <1>16 DEF Describe
<1>17. ASSUME NEW b \in Boots, PublishFails(b) PROVE LeaseInv'
  BY <1>17 DEF PublishFails
<1>18. ASSUME NEW b \in Boots, Sweep(b) PROVE LeaseInv'
  <2>1. at[b] = "sweeping" /\ UNCHANGED <<key, has>>
    BY <1>18 DEF Sweep
  <2>2. CASE /\ leases' = [leases EXCEPT ![key[b]] = @ \cup {b}]
             /\ at' = [at EXCEPT ![b] = "adopting"]
    BY <2>1, <2>2
  <2>3. CASE \E k \in sweep[b].todo, to \in {"sweeping", "suspecting"} :
               /\ leases' = [leases EXCEPT ![k] = @ \ {Dead}]
               /\ at' = [at EXCEPT ![b] = to]
    BY <2>1, <2>3 DEF Counted, SweepTyped, Sweeps
  <2> QED BY <1>18, <2>2, <2>3 DEF Sweep
<1>19. ASSUME NEW b \in Boots, Suspect(b) PROVE LeaseInv'
  BY <1>19 DEF Suspect, Spare, Locked, Alive
<1>20. ASSUME NEW b \in Boots, Condemn(b) PROVE LeaseInv'
  BY <1>20 DEF Condemn
<1>21. ASSUME NEW b \in Boots, Doubt(b) PROVE LeaseInv'
  BY <1>21 DEF Doubt, Spare, Leased
<1>22. ASSUME NEW b \in Boots, Remove(b) PROVE LeaseInv'
  BY <1>22 DEF Remove
<1>23. ASSUME NEW b \in Boots, Unlock(b) PROVE LeaseInv'
  BY <1>23 DEF Unlock
<1>24. ASSUME NEW b \in Boots, Load(b) PROVE LeaseInv'
  BY <1>24 DEF Load
<1>25. ASSUME NEW b \in Boots, Resume(b) PROVE LeaseInv'
  BY <1>25 DEF Resume
<1>26. ASSUME NEW b \in Boots, Create(b) PROVE LeaseInv'
  BY <1>26 DEF Create
<1>27. ASSUME NEW b \in Boots, Start(b) PROVE LeaseInv'
  BY <1>27 DEF Start
<1>28. ASSUME NEW b \in Boots, Close(b) PROVE LeaseInv'
  BY <1>28 DEF Close
<1>29. ASSUME NEW b \in Boots, Crash(b) PROVE LeaseInv'
  BY <1>29 DEF Crash
<1>30. CASE (\E k \in Keys : Forget(k)) \/ UNCHANGED vars
  BY <1>30 DEF Forget, vars
<1> QED
  BY <1>1, <1>2, <1>3, <1>4, <1>5, <1>6, <1>7, <1>8, <1>9, <1>10, <1>11,
     <1>12, <1>13, <1>14, <1>15, <1>16, <1>17, <1>18, <1>19, <1>20, <1>21,
     <1>22, <1>23, <1>24, <1>25, <1>26, <1>27, <1>28, <1>29, <1>30 DEF Next,
     Prepare, Evict, Warm, Slot, StartVm

(* Where nobody is overtaken, a lock that is removed by path is one's own or*)
(* a dead process's.                                                       *)
LEMMA KeptInvStep ==
  ASSUME ~Overtaking, WarmInv, [Next]_vars
  PROVE  KeptInv'
<1> USE OwnerAssumption, KeysAssumption
    DEF Go, Leave, Move, Unlocked, Unleased, checkpoints, boot,
        IdleInv, LockInv, KeptInv, ReclaimInv, Keyed, WarmInv, OwnInv, Shape, BootTyped, StoreTyped, Warming
<1>1. ASSUME NEW b \in Boots, Begin(b) PROVE KeptInv'
  BY <1>1 DEF Begin
<1>2. ASSUME NEW b \in Boots, FirstLease(b) PROVE KeptInv'
  BY <1>2 DEF FirstLease, Confirm
<1>3. ASSUME NEW b \in Boots, LateLease(b) PROVE KeptInv'
  BY <1>3 DEF LateLease, Confirm
<1>4. ASSUME NEW b \in Boots, OwnLease(b) PROVE KeptInv'
  BY <1>4 DEF OwnLease, Confirm
<1>5. ASSUME NEW b \in Boots, CheckFailure(b) PROVE KeptInv'
  BY <1>5 DEF CheckFailure
<1>6. ASSUME NEW b \in Boots, LinkLock(b) PROVE KeptInv'
  BY <1>6 DEF LinkLock, Reclaimed
<1>7. ASSUME NEW b \in Boots, Inspect(b) PROVE KeptInv'
  BY <1>7 DEF Inspect, Reclaimed, Locked, Alive
<1>8. ASSUME NEW b \in Boots, Reclaim(b) PROVE KeptInv'
  BY <1>8 DEF Reclaim
<1>9. ASSUME NEW b \in Boots, Poll(b) PROVE KeptInv'
  BY <1>9 DEF Poll
<1>10. ASSUME NEW b \in Boots, Probe(b) PROVE KeptInv'
  BY <1>10 DEF Probe, Locked, Alive
<1>11. ASSUME NEW b \in Boots, StopWaiting(b) PROVE KeptInv'
  BY <1>11 DEF StopWaiting
<1>12. ASSUME NEW b \in Boots, TakeSlot(b) PROVE KeptInv'
  BY <1>12 DEF TakeSlot
<1>13. ASSUME NEW b \in Boots, NoSlot(b) PROVE KeptInv'
  BY <1>13 DEF NoSlot
<1>14. ASSUME NEW b \in Boots, WarmUp(b) PROVE KeptInv'
  BY <1>14 DEF WarmUp
<1>15. ASSUME NEW b \in Boots, Publish(b) PROVE KeptInv'
  BY <1>15 DEF Publish, Condemned
<1>16. ASSUME NEW b \in Boots, Describe(b) PROVE KeptInv'
  BY <1>16 DEF Describe
<1>17. ASSUME NEW b \in Boots, PublishFails(b) PROVE KeptInv'
  BY <1>17 DEF PublishFails
<1>18. ASSUME NEW b \in Boots, Sweep(b) PROVE KeptInv'
  <2>1. /\ at[b] = "sweeping" /\ UNCHANGED <<lock, key, has>>
        /\ \E to \in {"adopting", "sweeping", "suspecting"} :
             at' = [at EXCEPT ![b] = to]
    BY <1>18 DEF Sweep
  <2> QED BY <2>1
<1>19. ASSUME NEW b \in Boots, Suspect(b) PROVE KeptInv'
  BY <1>19 DEF Suspect, Spare, Locked, Alive
<1>20. ASSUME NEW b \in Boots, Condemn(b) PROVE KeptInv'
  BY <1>20 DEF Condemn
<1>21. ASSUME NEW b \in Boots, Doubt(b) PROVE KeptInv'
  BY <1>21 DEF Doubt, Spare, Leased
<1>22. ASSUME NEW b \in Boots, Remove(b) PROVE KeptInv'
  BY <1>22 DEF Remove
<1>23. ASSUME NEW b \in Boots, Unlock(b) PROVE KeptInv'
  BY <1>23 DEF Unlock
<1>24. ASSUME NEW b \in Boots, Load(b) PROVE KeptInv'
  BY <1>24 DEF Load
<1>25. ASSUME NEW b \in Boots, Resume(b) PROVE KeptInv'
  BY <1>25 DEF Resume
<1>26. ASSUME NEW b \in Boots, Create(b) PROVE KeptInv'
  BY <1>26 DEF Create
<1>27. ASSUME NEW b \in Boots, Start(b) PROVE KeptInv'
  BY <1>27 DEF Start
<1>28. ASSUME NEW b \in Boots, Close(b) PROVE KeptInv'
  BY <1>28 DEF Close
<1>29. ASSUME NEW b \in Boots, Crash(b) PROVE KeptInv'
  BY <1>29 DEF Crash
<1>30. CASE (\E k \in Keys : Forget(k)) \/ UNCHANGED vars
  BY <1>30 DEF Forget, vars
<1> QED
  BY <1>1, <1>2, <1>3, <1>4, <1>5, <1>6, <1>7, <1>8, <1>9, <1>10, <1>11,
     <1>12, <1>13, <1>14, <1>15, <1>16, <1>17, <1>18, <1>19, <1>20, <1>21,
     <1>22, <1>23, <1>24, <1>25, <1>26, <1>27, <1>28, <1>29, <1>30 DEF Next,
     Prepare, Evict, Warm, Slot, StartVm

(* Between the look at a lock and its removal nobody takes it, where nobody*)
(* is overtaken.                                                           *)
LEMMA ReclaimInvStep ==
  ASSUME ~Overtaking, WarmInv, [Next]_vars
  PROVE  ReclaimInv'
<1> USE OwnerAssumption, KeysAssumption
    DEF Go, Leave, Move, Unlocked, Unleased, checkpoints, boot,
        IdleInv, ReclaimInv, WarmInv, OwnInv, Shape, BootTyped, StoreTyped, Keyed, KeptInv, LockInv
<1>1. ASSUME NEW b \in Boots, Begin(b) PROVE ReclaimInv'
  BY <1>1 DEF Begin
<1>2. ASSUME NEW b \in Boots, FirstLease(b) PROVE ReclaimInv'
  BY <1>2 DEF FirstLease, Confirm
<1>3. ASSUME NEW b \in Boots, LateLease(b) PROVE ReclaimInv'
  BY <1>3 DEF LateLease, Confirm
<1>4. ASSUME NEW b \in Boots, OwnLease(b) PROVE ReclaimInv'
  BY <1>4 DEF OwnLease, Confirm
<1>5. ASSUME NEW b \in Boots, CheckFailure(b) PROVE ReclaimInv'
  BY <1>5 DEF CheckFailure
<1>6. ASSUME NEW b \in Boots, LinkLock(b) PROVE ReclaimInv'
  BY <1>6 DEF LinkLock, Reclaimed
<1>7. ASSUME NEW b \in Boots, Inspect(b) PROVE ReclaimInv'
  BY <1>7 DEF Inspect, Reclaimed, Locked, Alive
<1>8. ASSUME NEW b \in Boots, Reclaim(b) PROVE ReclaimInv'
  BY <1>8 DEF Reclaim
<1>9. ASSUME NEW b \in Boots, Poll(b) PROVE ReclaimInv'
  BY <1>9 DEF Poll
<1>10. ASSUME NEW b \in Boots, Probe(b) PROVE ReclaimInv'
  BY <1>10 DEF Probe, Locked, Alive
<1>11. ASSUME NEW b \in Boots, StopWaiting(b) PROVE ReclaimInv'
  BY <1>11 DEF StopWaiting
<1>12. ASSUME NEW b \in Boots, TakeSlot(b) PROVE ReclaimInv'
  BY <1>12 DEF TakeSlot
<1>13. ASSUME NEW b \in Boots, NoSlot(b) PROVE ReclaimInv'
  BY <1>13 DEF NoSlot
<1>14. ASSUME NEW b \in Boots, WarmUp(b) PROVE ReclaimInv'
  BY <1>14 DEF WarmUp
<1>15. ASSUME NEW b \in Boots, Publish(b) PROVE ReclaimInv'
  BY <1>15 DEF Publish, Condemned
<1>16. ASSUME NEW b \in Boots, Describe(b) PROVE ReclaimInv'
  BY <1>16 DEF Describe
<1>17. ASSUME NEW b \in Boots, PublishFails(b) PROVE ReclaimInv'
  BY <1>17 DEF PublishFails
<1>18. ASSUME NEW b \in Boots, Sweep(b) PROVE ReclaimInv'
  <2>1. /\ at[b] = "sweeping" /\ UNCHANGED <<lock, key>>
        /\ \E to \in {"adopting", "sweeping", "suspecting"} :
             at' = [at EXCEPT ![b] = to]
    BY <1>18 DEF Sweep
  <2> QED BY <2>1
<1>19. ASSUME NEW b \in Boots, Suspect(b) PROVE ReclaimInv'
  BY <1>19 DEF Suspect, Spare, Locked, Alive
<1>20. ASSUME NEW b \in Boots, Condemn(b) PROVE ReclaimInv'
  BY <1>20 DEF Condemn
<1>21. ASSUME NEW b \in Boots, Doubt(b) PROVE ReclaimInv'
  BY <1>21 DEF Doubt, Spare, Leased
<1>22. ASSUME NEW b \in Boots, Remove(b) PROVE ReclaimInv'
  BY <1>22 DEF Remove
<1>23. ASSUME NEW b \in Boots, Unlock(b) PROVE ReclaimInv'
  BY <1>23 DEF Unlock
<1>24. ASSUME NEW b \in Boots, Load(b) PROVE ReclaimInv'
  BY <1>24 DEF Load
<1>25. ASSUME NEW b \in Boots, Resume(b) PROVE ReclaimInv'
  BY <1>25 DEF Resume
<1>26. ASSUME NEW b \in Boots, Create(b) PROVE ReclaimInv'
  BY <1>26 DEF Create
<1>27. ASSUME NEW b \in Boots, Start(b) PROVE ReclaimInv'
  BY <1>27 DEF Start
<1>28. ASSUME NEW b \in Boots, Close(b) PROVE ReclaimInv'
  BY <1>28 DEF Close
<1>29. ASSUME NEW b \in Boots, Crash(b) PROVE ReclaimInv'
  BY <1>29 DEF Crash
<1>30. CASE (\E k \in Keys : Forget(k)) \/ UNCHANGED vars
  BY <1>30 DEF Forget, vars
<1> QED
  BY <1>1, <1>2, <1>3, <1>4, <1>5, <1>6, <1>7, <1>8, <1>9, <1>10, <1>11,
     <1>12, <1>13, <1>14, <1>15, <1>16, <1>17, <1>18, <1>19, <1>20, <1>21,
     <1>22, <1>23, <1>24, <1>25, <1>26, <1>27, <1>28, <1>29, <1>30 DEF Next,
     Prepare, Evict, Warm, Slot, StartVm

(* An eviction is met by no publication and by no lease of its victim.     *)
LEMMA SweepInvStep ==
  ASSUME ~Overtaking, WarmInv, [Next]_vars
  PROVE  SweepInv'
<1> USE OwnerAssumption, KeysAssumption
    DEF Go, Leave, Move, Unlocked, Unleased, checkpoints, boot
<1>q. ASSUME Quiet PROVE SweepInv'
  BY <1>q DEF Quiet, SweepInv, WarmInv, Evicting
<1>1. ASSUME NEW b \in Boots,
            FirstLease(b) \/ LateLease(b) \/ OwnLease(b)
              \/ CheckFailure(b)
      PROVE  Quiet
  BY <1>1 DEF FirstLease, Confirm, LateLease, OwnLease, CheckFailure, Quiet,
     WarmInv, OwnInv, Shape, BootTyped, Counted, SweepTyped, Sweeps, Evicting
<1>2. ASSUME NEW b \in Boots,
            LinkLock(b) \/ Inspect(b) \/ Reclaim(b) \/ Poll(b)
      PROVE  Quiet
  BY <1>2 DEF LinkLock, Reclaimed, Inspect, Locked, Alive, Reclaim, Poll,
     Quiet, WarmInv, OwnInv, Shape, BootTyped, Counted, SweepTyped, Sweeps, Evicting
<1>3. ASSUME NEW b \in Boots,
            Probe(b) \/ StopWaiting(b) \/ TakeSlot(b)
              \/ NoSlot(b)
      PROVE  Quiet
  BY <1>3 DEF Probe, Locked, Alive, StopWaiting, TakeSlot, NoSlot, Quiet,
     WarmInv, OwnInv, Shape, BootTyped, Counted, SweepTyped, Sweeps, Evicting
<1>4. ASSUME NEW b \in Boots,
            WarmUp(b) \/ Unlock(b) \/ Load(b) \/ Resume(b)
      PROVE  Quiet
  BY <1>4 DEF WarmUp, Unlock, Load, Resume, Quiet, WarmInv, OwnInv, Shape, BootTyped,
     Counted, SweepTyped, Sweeps, Evicting
<1>5. ASSUME NEW b \in Boots,
            Create(b) \/ Start(b) \/ Close(b)
      PROVE  Quiet
  BY <1>5 DEF Create, Start, Close, Quiet, WarmInv, OwnInv, Shape, BootTyped, Counted,
     SweepTyped, Sweeps, Evicting
<1>6. ASSUME NEW b \in Boots, Begin(b) PROVE SweepInv'
  <2>1. Quiet
    BY <1>6 DEF Begin, Quiet, IdleInv, WarmInv, OwnInv, Shape, BootTyped, Counted,
       SweepTyped, Sweeps, Evicting
  <2> QED BY <1>q, <2>1
<1>7. ASSUME NEW b \in Boots, Publish(b) PROVE SweepInv'
  BY <1>7 DEF Publish, Condemned, IdleInv, LockInv, KeptInv, LeaseInv,
     SweepInv, WarmInv, OwnInv, Shape, BootTyped, StoreTyped, Counted, SweepTyped,
     Sweeps, Keyed, Warming, Leasing, Evicting
<1>8. ASSUME NEW b \in Boots, Describe(b) PROVE SweepInv'
  BY <1>8 DEF Describe, IdleInv, LockInv, KeptInv, LeaseInv, SweepInv, WarmInv,
     Shape, BootTyped, StoreTyped, Counted, SweepTyped, Sweeps, Keyed,
     Warming, Leasing, Evicting
<1>9. ASSUME NEW b \in Boots, PublishFails(b) PROVE SweepInv'
  <2>1. Quiet
    BY <1>9 DEF PublishFails, Quiet, WarmInv, OwnInv, Shape, BootTyped, Counted,
       SweepTyped, Sweeps, Evicting
  <2> QED BY <1>q, <2>1
<1>10. ASSUME NEW b \in Boots, Sweep(b) PROVE SweepInv'
  <2>1. CASE sweep[b].excess = 0 \/ sweep[b].todo = {}
    <3>1. Quiet
      BY <1>10, <2>1 DEF Sweep, Quiet, WarmInv, OwnInv, Shape, BootTyped, Counted,
         SweepTyped, Sweeps, Evicting
    <3> QED BY <1>q, <3>1
  <2>2. ASSUME NEW k \in sweep[b].todo,
               sweep' = [sweep EXCEPT ![b].todo = @ \ {k},
                                      ![b].victim = IF Leased(k) THEN NoKey ELSE k],
               Go(b, IF Leased(k) THEN "sweeping" ELSE "suspecting")
        PROVE  SweepInv'
    <3>1. CASE Leased(k)
      <4>1. Quiet
        BY <1>10, <2>2, <3>1 DEF Sweep, Quiet, WarmInv, OwnInv, Shape, BootTyped,
           Counted, SweepTyped, Sweeps, Evicting
      <4> QED BY <1>q, <4>1
    <3>2. CASE ~Leased(k)
      <4>1. k \in Keys
        BY DEF WarmInv, OwnInv, Shape, Counted, SweepTyped, Sweeps
      <4>2. /\ sweep'[b].victim = k
            /\ \A c \in Boots \ {b} : sweep'[c] = sweep[c]
        BY <2>2, <3>2 DEF WarmInv, OwnInv, Shape, Counted, SweepTyped, Sweeps
      <4>3. /\ at'[b] = "suspecting"
            /\ \A c \in Boots \ {b} : at'[c] = at[c]
        BY <2>2, <3>2 DEF WarmInv, OwnInv, Shape, BootTyped
      <4>4. UNCHANGED <<key, has, sidecars>>
        BY <1>10 DEF Sweep
      <4> QED BY <4>1, <4>2, <4>3, <4>4 DEF WarmInv, SweepInv, Evicting
    <3> QED BY <3>1, <3>2
  <2> QED BY <1>10, <2>1, <2>2 DEF Sweep
<1>11. ASSUME NEW b \in Boots, Suspect(b) PROVE SweepInv'
  <2>1. CASE Locked(sweep[b].victim)
    <3>1. Quiet
      BY <1>11, <2>1 DEF Suspect, Spare, Quiet, WarmInv, OwnInv, Shape, BootTyped,
         Counted, SweepTyped, Sweeps, Evicting
    <3> QED BY <1>q, <3>1
  <2>2. CASE ~Locked(sweep[b].victim)
    <3>1. /\ at'[b] = "condemning" /\ UNCHANGED <<key, has, sweep, sidecars>>
          /\ at[b] = "suspecting" /\ \A c \in Boots \ {b} : at'[c] = at[c]
      BY <1>11, <2>2 DEF Suspect, WarmInv, OwnInv, Shape, BootTyped
    <3>2. ASSUME NEW c \in Boots, at[c] = "describing" PROVE key[c] # sweep[b].victim
      BY <2>2, <3>2 DEF Locked, Alive, LockInv, KeptInv, IdleInv, Keyed,
         Warming, WarmInv, OwnInv
    <3> QED BY <3>1, <3>2 DEF WarmInv, SweepInv, Evicting
  <2> QED BY <2>1, <2>2
<1>12. ASSUME NEW b \in Boots, Condemn(b) PROVE SweepInv'
  BY <1>12 DEF Condemn, IdleInv, LockInv, KeptInv, LeaseInv, SweepInv, WarmInv,
     Shape, BootTyped, StoreTyped, Counted, SweepTyped, Sweeps, Keyed,
     Warming, Leasing, Evicting
<1>13. ASSUME NEW b \in Boots, Doubt(b) PROVE SweepInv'
  <2>1. CASE Leased(sweep[b].victim)
    <3>1. Quiet
      BY <1>13, <2>1 DEF Doubt, Spare, Quiet, WarmInv, OwnInv, Shape, BootTyped,
         Counted, SweepTyped, Sweeps, Evicting
    <3> QED BY <1>q, <3>1
  <2>2. CASE ~Leased(sweep[b].victim)
    <3>1. /\ at'[b] = "removing" /\ UNCHANGED <<key, has, sweep, sidecars>>
          /\ at[b] = "doubting" /\ \A c \in Boots \ {b} : at'[c] = at[c]
      BY <1>13, <2>2 DEF Doubt, WarmInv, OwnInv, Shape, BootTyped
    <3>2. ASSUME NEW c \in Boots, "lease" \in has[c] PROVE key[c] # sweep[b].victim
      BY <2>2, <3>2 DEF Leased, LeaseInv, IdleInv, WarmInv, OwnInv
    <3> QED BY <3>1, <3>2 DEF WarmInv, SweepInv, Evicting
  <2> QED BY <2>1, <2>2
<1>14. ASSUME NEW b \in Boots, Remove(b) PROVE SweepInv'
  <2>1. Quiet
    BY <1>14 DEF Remove, Quiet, WarmInv, OwnInv, Shape, BootTyped, Counted, SweepTyped,
       Sweeps, Evicting
  <2> QED BY <1>q, <2>1
<1>15. ASSUME NEW b \in Boots, Crash(b) PROVE SweepInv'
  <2>1. Quiet
    BY <1>15 DEF Crash, Quiet, WarmInv, OwnInv, Shape, BootTyped, Counted, SweepTyped,
       Sweeps, Evicting
  <2> QED BY <1>q, <2>1
<1>16. CASE (\E k \in Keys : Forget(k)) \/ UNCHANGED vars
  BY <1>16 DEF Forget, vars, IdleInv, LockInv, KeptInv, LeaseInv, SweepInv,
     WarmInv, OwnInv, Shape, BootTyped, StoreTyped, Counted, SweepTyped, Sweeps, Keyed,
     Warming, Leasing, Evicting
<1> QED
  BY <1>q, <1>1, <1>2, <1>3, <1>4, <1>5, <1>6, <1>7, <1>8, <1>9, <1>10,
     <1>11, <1>12, <1>13, <1>14, <1>15, <1>16 DEF Next, Prepare, Evict, Warm,
     Slot, StartVm

(* Images are removed by evictions only, after their second look.          *)
LEMMA LeasedStaysStep ==
  ASSUME ~Overtaking, WarmInv, [Next]_vars
  PROVE  LeasedStays'
<1> USE OwnerAssumption, KeysAssumption
    DEF Go, Leave, Move, Unlocked, Unleased, checkpoints, boot,
        LeaseInv, SweepInv, LeasedStays, WarmInv, OwnInv, Shape, BootTyped
<1>f. ASSUME UNCHANGED <<has, key, images>> PROVE LeasedStays'
  BY <1>f DEF LeasedStays, WarmInv
<1>1. ASSUME NEW b \in Boots,
            CheckFailure(b) \/ Inspect(b) \/ Reclaim(b)
              \/ Poll(b) \/ Probe(b) \/ TakeSlot(b)
              \/ Describe(b) \/ Sweep(b)
      PROVE  UNCHANGED <<has, key, images>>
  BY <1>1 DEF CheckFailure, Inspect, Reclaimed, Locked, Alive, Reclaim, Poll,
     Probe, TakeSlot, Describe, Sweep, Leased
<1>2. ASSUME NEW b \in Boots,
            Suspect(b) \/ Condemn(b) \/ Doubt(b) \/ Start(b)
      PROVE  UNCHANGED <<has, key, images>>
  BY <1>2 DEF Suspect, Spare, Locked, Alive, Condemn, Doubt, Leased, Start
<1>3. ASSUME NEW b \in Boots, Begin(b) PROVE LeasedStays'
  BY <1>3 DEF Begin
<1>4. ASSUME NEW b \in Boots, FirstLease(b) PROVE LeasedStays'
  BY <1>4 DEF FirstLease, Confirm
<1>5. ASSUME NEW b \in Boots, LateLease(b) PROVE LeasedStays'
  BY <1>5 DEF LateLease, Confirm
<1>6. ASSUME NEW b \in Boots, OwnLease(b) PROVE LeasedStays'
  BY <1>6 DEF OwnLease, Confirm
<1>7. ASSUME NEW b \in Boots, LinkLock(b) PROVE LeasedStays'
  BY <1>7 DEF LinkLock, Reclaimed
<1>8. ASSUME NEW b \in Boots, StopWaiting(b) PROVE LeasedStays'
  BY <1>8 DEF StopWaiting
<1>9. ASSUME NEW b \in Boots, NoSlot(b) PROVE LeasedStays'
  BY <1>9 DEF NoSlot
<1>10. ASSUME NEW b \in Boots, WarmUp(b) PROVE LeasedStays'
  BY <1>10 DEF WarmUp
<1>11. ASSUME NEW b \in Boots, Publish(b) PROVE LeasedStays'
  BY <1>11 DEF Publish, Condemned
<1>12. ASSUME NEW b \in Boots, PublishFails(b) PROVE LeasedStays'
  BY <1>12 DEF PublishFails
<1>13. ASSUME NEW b \in Boots, Remove(b) PROVE LeasedStays'
  BY <1>13 DEF Remove
<1>14. ASSUME NEW b \in Boots, Unlock(b) PROVE LeasedStays'
  BY <1>14 DEF Unlock
<1>15. ASSUME NEW b \in Boots, Load(b) PROVE LeasedStays'
  BY <1>15 DEF Load
<1>16. ASSUME NEW b \in Boots, Resume(b) PROVE LeasedStays'
  BY <1>16 DEF Resume
<1>17. ASSUME NEW b \in Boots, Create(b) PROVE LeasedStays'
  BY <1>17 DEF Create
<1>18. ASSUME NEW b \in Boots, Close(b) PROVE LeasedStays'
  BY <1>18 DEF Close
<1>19. ASSUME NEW b \in Boots, Crash(b) PROVE LeasedStays'
  BY <1>19 DEF Crash
<1>20. CASE (\E k \in Keys : Forget(k)) \/ UNCHANGED vars
  BY <1>20 DEF Forget, vars
<1> QED
  BY <1>f, <1>1, <1>2, <1>3, <1>4, <1>5, <1>6, <1>7, <1>8, <1>9, <1>10,
     <1>11, <1>12, <1>13, <1>14, <1>15, <1>16, <1>17, <1>18, <1>19, <1>20 DEF
     Next, Prepare, Evict, Warm, Slot, StartVm

(* What starts own: the invariant holds at the start ...                   *)
LEMMA OwnInitially == Init => OwnInv
<1> SUFFICES ASSUME Init PROVE OwnInv
  OBVIOUS
<1>1. Counted
  <2>1. IsFiniteSet({}) /\ Cardinality({}) = 0
    BY FS_EmptySet
  <2> QED BY <2>1, BoundsAssumption DEF Init, Counted, SweepTyped, Sweeps, NoSweep, Evicting
<1>2. BootTyped /\ StoreTyped
  BY DEF Init, BootTyped, StoreTyped, States
<1> QED
  BY <1>1, <1>2, OwnerAssumption, KeysAssumption
     DEF Init, OwnInv, Shape, IdleInv, LockInv, LeaseInv, Keyed, Warming, Leasing

(* ... and throughout, whoever is overtaken.                               *)
LEMMA OwnInvStep ==
  ASSUME OwnInv, [Next]_vars PROVE OwnInv'
  BY BootTypedStep, StoreTypedStep, CountedStep, IdleInvStep, LockInvStep, LeaseInvStep
     DEF OwnInv, Shape

LEMMA OwnInvHolds == Spec => []OwnInv
<1>1. OwnInv /\ [Next]_vars => OwnInv'
  BY OwnInvStep
<1> QED  BY <1>1, OwnInitially, PTL DEF Spec

(* Where nobody is overtaken, so does the rest.                            *)
LEMMA WarmInvHolds ==
  ASSUME ~Overtaking PROVE Spec => []WarmInv
<1>1. Init => WarmInv
  BY OwnInitially DEF Init, WarmInv, KeptInv, ReclaimInv, SweepInv, LeasedStays, Evicting
<1>2. WarmInv /\ [Next]_vars => WarmInv'
  BY OwnInvStep, KeptInvStep, ReclaimInvStep, SweepInvStep, LeasedStaysStep DEF WarmInv
<1> QED  BY <1>1, <1>2, PTL DEF Spec

(* Slots, files and what each start believes it owns keep their types; no  *)
(* more slots are taken than there are.                                    *)
THEOREM WarmBootTyped == Spec => []TypeOK
<1>1. OwnInv => TypeOK
  BY DEF OwnInv, Shape, BootTyped, StoreTyped, Counted, SweepTyped, Sweeps, TypeOK, States
<1> QED  BY <1>1, OwnInvHolds, PTL

(* A start that is over, however it ended, holds no slot, lock or lease.   *)
THEOREM StartsGiveBack == Spec => []NothingLeftBehind
<1>1. OwnInv => NothingLeftBehind
  BY DEF OwnInv, IdleInv, LockInv, LeaseInv, Leasing, Holding, Warming, NothingLeftBehind
<1> QED  BY <1>1, OwnInvHolds, PTL

(* One warm-up per key at a time, whatever dies: tryLock reclaims the      *)
(* locks of the dead only.                                                 *)
THEOREM WarmupsAreExclusive ==
  ASSUME ~Overtaking PROVE Spec => []OneWarmup
<1>1. WarmInv => OneWarmup
  BY DEF WarmInv, OwnInv, KeptInv, IdleInv, LockInv, OneWarmup, Keyed
<1> QED  BY <1>1, WarmInvHolds, PTL

(* No eviction takes an image from under a lease that was granted.         *)
THEOREM LeasedImagesStay ==
  ASSUME ~Overtaking PROVE Spec => []LeasedStays
<1>1. WarmInv => LeasedStays
  BY DEF WarmInv
<1> QED  BY <1>1, WarmInvHolds, PTL
==============================================================================
