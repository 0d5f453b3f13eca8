-------------------------- MODULE RunServiceProofs --------------------------
(***************************************************************************)
(* What RunService keeps whatever its seats do, for any number of seats,   *)
(* attempts and deaths.  A run with a worktree is in order because one     *)
(* seat at a time works on it, under its lease:                            *)
(*                                                                         *)
(*   LeaseInv    what a seat is doing fits what it remembers, and is under *)
(*               the lease that belongs to it;                             *)
(*   SoundInv    every result in memory or on record is acceptable, and    *)
(*               only a blocked run leaves its sandbox unproved;           *)
(*   LineageInv  whoever works on the run works on its latest attempt,     *)
(*               which has not started before it is executed;              *)
(*   CoverInv    the latest result is in the snapshot, after the latest    *)
(*               start;                                                    *)
(*   GuestInv    only the latest attempt may have a guest, in a worktree   *)
(*               that is kept, and whoever takes it to be gone is right.   *)
(*                                                                         *)
(* Each part needs those before it.  The last three hold where a seat      *)
(* moves from its checks to the lease before others start an attempt and   *)
(* every guest that outlives its seat is on record (~adverse).  That the   *)
(* run follows its lifecycle does not depend on either; it needs, next to  *)
(* LeaseInv and SoundInv,                                                  *)
(*                                                                         *)
(*   RootInv     nothing of a run is written before its record and first   *)
(*               worktree are, so a launch that finds no worktree is the   *)
(*               first;                                                    *)
(*   FiledInv    what the seat that works on the run relies on is what the *)
(*               store says.                                               *)
(***************************************************************************)
EXTENDS RunService, SequenceTheorems, FiniteSetTheorems, TLAPS

(* The parts of the type invariant.                                        *)
Memory == [status : ResultStatuses \cup {"active", "stopping"},
           attempt : Ordinals, ended : Executions \cup {NoExecution},
           leased : BOOLEAN]
Operation == [kind : Starting \cup {"abandon", "release"},
              at : {"checked", "leased", "prepared", "recorded", "abandoning",
                    "released"},
              ordinal : 0..MaxAttempts, tree : 0..MaxAttempts,
              prior : {"none", "failed", "interrupted"},
              via : {"none", "op", "run", "lost"}]
Entered == [at : {"leased"}, via : {"rec", "run", "lost"}]
Observed == [at : {"observed"}, via : {"rec", "run", "lost"},
             sandbox : Cleanups, workspace : Cleanups, pending : BOOLEAN,
             session : {"absent", "valid", "unknown"}]
Attempting == [at : {"entered", "started", "booted", "recorded", "session"},
               attempt : Ordinals, signal : {"none", "operator", "seat-shutdown"}]
Settled == [at : {"settled"}, attempt : Ordinals, ended : Executions]
Saved == [result : Results, session : BOOLEAN, at : Nat]
Handles == {"run", "op", "rec", "boot"}

Clean == {"proved", "not-needed"}
Known(s) == mem[s].status # "none"
Ended(s) == Known(s) /\ mem[s].ended # NoExecution
Starts(s, places) == op[s].at \in places /\ op[s].kind \in Starting

------------------------------------------------------------------------------
(* What is in the memory of a seat, told apart by one field.               *)
LEMMA MemoryType ==
  ASSUME TypeOK, NEW s \in Seats
  PROVE  /\ mem[s] = NoRun \/ mem[s] \in Memory
         /\ Known(s) <=> mem[s] # NoRun
         /\ Known(s) <=> mem[s] \in Memory
<1>1. mem[s] \in {NoRun} \cup Memory
  BY DEF TypeOK, Memory
<1>2. NoRun.status = "none"
  BY DEF NoRun
<1>3. ASSUME NEW m \in Memory PROVE m.status # "none"
  BY DEF Memory, ResultStatuses
<1> QED BY <1>1, <1>2, <1>3 DEF Known

(* What an operation under way holds.                                      *)
LEMMA OpType ==
  ASSUME TypeOK, NEW s \in Seats
  PROVE  /\ op[s] = Idle \/ op[s] \in Operation
         /\ op[s].at = "idle" <=> op[s] = Idle
         /\ op[s].at # "idle" <=> op[s] \in Operation
<1>1. op[s] \in {Idle} \cup Operation
  BY DEF TypeOK, Operation
<1>2. Idle.at = "idle"
  BY DEF Idle
<1>3. ASSUME NEW m \in Operation PROVE m.at # "idle"
  BY DEF Operation
<1> QED BY <1>1, <1>2, <1>3

(* What a reconcile under way holds.                                       *)
LEMMA RecType ==
  ASSUME TypeOK, NEW s \in Seats
  PROVE  /\ rec[s] = Idle \/ rec[s] \in Entered \cup Observed
         /\ rec[s].at = "idle" <=> rec[s] = Idle
         /\ rec[s].at # "idle" <=> rec[s] \in Entered \cup Observed
         /\ rec[s].at = "leased" <=> rec[s] \in Entered
         /\ rec[s].at = "observed" <=> rec[s] \in Observed
<1>1. rec[s] \in {Idle} \cup Entered \cup Observed
  BY DEF TypeOK, Entered, Observed
<1>2. Idle.at = "idle"
  BY DEF Idle
<1>3. /\ \A m \in Entered : m.at = "leased"
      /\ \A m \in Observed : m.at = "observed"
  BY DEF Entered, Observed
<1> QED BY <1>1, <1>2, <1>3

(* What an attempt under way holds.                                        *)
LEMMA ExecType ==
  ASSUME TypeOK, NEW s \in Seats
  PROVE  /\ exec[s] = Idle \/ exec[s] \in Attempting \cup Settled
         /\ exec[s].at = "idle" <=> exec[s] = Idle
         /\ exec[s].at \in {"entered", "started", "booted", "recorded", "session"}
              <=> exec[s] \in Attempting
         /\ exec[s].at = "settled" <=> exec[s] \in Settled
         /\ exec[s].at # "idle" => exec[s].attempt \in Ordinals
<1>1. exec[s] \in {Idle} \cup Attempting \cup Settled
  BY DEF TypeOK, Attempting, Settled
<1>2. Idle.at = "idle"
  BY DEF Idle
<1>3. /\ \A m \in Attempting : m.attempt \in Ordinals
        /\ m.at \in {"entered", "started", "booted", "recorded", "session"}
      /\ \A m \in Settled : m.at = "settled" /\ m.attempt \in Ordinals
  BY DEF Attempting, Settled
<1> QED BY <1>1, <1>2, <1>3

(* What the snapshot on record holds.                                      *)
LEMMA SavedType ==
  ASSUME TypeOK
  PROVE  /\ snapshot = NoSnapshot \/ snapshot \in Saved
         /\ snapshot.at \in Nat
         /\ \A x \in Saved : x # NoSnapshot
<1>1. snapshot \in {NoSnapshot} \cup Saved
  BY DEF TypeOK, Saved
<1>2. NoSnapshot.at \in Nat
  BY DEF NoSnapshot
<1>3. \A x \in Saved : x.at \in Nat /\ x # NoSnapshot
  BY DEF Saved, NoSnapshot
<1> QED BY <1>1, <1>2, <1>3

(* How an execution ended, from its result and whether a session was       *)
(* left.                                                                   *)
LEMMA ExecutionType ==
  /\ \A r \in Results, b \in BOOLEAN :
       Execution(r, b) \in Executions /\ Execution(r, b).result = r
  /\ \A e \in Executions : e # NoExecution /\ e.result \in Results
BY DEF Execution, Executions, NoExecution

------------------------------------------------------------------------------
(* TypeOK with the values named.                                           *)
StoreTyped ==
  /\ recorded \in BOOLEAN
  /\ attempts \in Seq([kind : Starting, tree : 0..MaxAttempts])
  /\ Len(attempts) <= MaxAttempts
  /\ journal \in Seq([type : EventTypes, attempt : Ordinals])
  /\ snapshot \in {NoSnapshot} \cup Saved
  /\ trees \in [Ordinals -> {"none", "reserved", "kept", "handed", "released"}]
  /\ guests \in [Ordinals -> Seats \cup {"none", "gone", "orphan"}]

Typed ==
  /\ adverse \in Adversities
  /\ holder \in {Free} \cup [seat : Seats, handle : Handles]
  /\ StoreTyped
  /\ seat \in [Seats -> {"down", "read", "leased", "up"}]
  /\ latest \in [Seats -> 0..MaxAttempts]
  /\ mem \in [Seats -> {NoRun} \cup Memory]
  /\ op \in [Seats -> {Idle} \cup Operation]
  /\ rec \in [Seats -> {Idle} \cup Entered \cup Observed]
  /\ exec \in [Seats -> {Idle} \cup Attempting \cup Settled]
  /\ crashes \in 0..MaxCrashes

(* The type invariant, in the parts the proofs cite.                       *)
LEMMA TypeParts == (TypeOK <=> Typed) /\ (TypeOK' <=> Typed')
<1>1. TypeOK <=> Typed
  BY DEF TypeOK, Typed, StoreTyped, Handles, Saved, Memory, Operation, Entered, Observed,
         Attempting, Settled
<1>2. TypeOK' <=> Typed'
  BY DEF TypeOK, Typed, StoreTyped, Handles, Saved, Memory, Operation, Entered, Observed,
         Attempting, Settled
<1> QED BY <1>1, <1>2

------------------------------------------------------------------------------
(* What a seat's memory, its operation, its reconcile and its attempt say  *)
(* of each other.                                                          *)
Fits(s) ==
  /\ seat[s] # "up" =>
       mem[s] = NoRun /\ op[s] = Idle /\ rec[s] = Idle /\ exec[s] = Idle
  /\ op[s].at # "idle" =>
       /\ exec[s].at = "idle"
       /\ op[s].at = "checked" <=> op[s].via = "none"
       /\ op[s].via \in {"run", "lost"} => op[s].kind = "release"
       /\ op[s].at \in {"prepared", "recorded"} => op[s].kind \in Starting
       /\ op[s].at = "abandoning" => op[s].kind = "abandon"
       /\ op[s].at = "released" => op[s].kind = "release"
       /\ op[s].kind \in Starting => op[s].ordinal \in Ordinals
       /\ op[s].kind = "launch" <=> ~Known(s)
       /\ op[s].kind = "retry" => mem[s].status = "failed"
       /\ op[s].kind = "resume" => mem[s].status = "interrupted"
       /\ op[s].kind = "abandon" =>
            /\ Ended(s) /\ mem[s].ended.result.sandbox \in Clean
            /\ mem[s].status = IF op[s].at = "abandoning" THEN "cleanup-blocked"
                                                       ELSE "interrupted"
  /\ rec[s].at # "idle" =>
       Known(s) /\ (rec[s].via # "lost" => mem[s].status = "cleanup-blocked")
  /\ exec[s].at # "idle" =>
       /\ mem[s].status \in {"active", "stopping"} /\ mem[s].leased
       /\ mem[s].attempt = exec[s].attempt /\ mem[s].ended = NoExecution
  /\ Known(s) =>
       /\ mem[s].status \in {"active", "stopping"} => exec[s].at # "idle"
       /\ IF mem[s].ended = NoExecution
          THEN mem[s].status \in {"active", "stopping", "cleanup-blocked"}
          ELSE mem[s].status = mem[s].ended.result.status
       /\ mem[s].leased =>
            mem[s].status \in {"active", "stopping", "cleanup-blocked"}

(* Who works under a lease has it.                                         *)
Holds(s) ==
  /\ seat[s] = "leased" => holder = [seat |-> s, handle |-> "boot"]
  /\ op[s].at # "idle" =>
       /\ op[s].via = "op" => holder = [seat |-> s, handle |-> "op"]
       /\ op[s].via = "run" => mem[s].leased
  /\ rec[s].at # "idle" =>
       /\ rec[s].via = "rec" => holder = [seat |-> s, handle |-> "rec"]
       /\ rec[s].via = "run" => mem[s].leased
  /\ Known(s) /\ mem[s].leased => holder = [seat |-> s, handle |-> "run"]

LeaseInv == \A s \in Seats : Fits(s) /\ Holds(s)

(* A step of one seat, to the others.                                      *)
Spares(s) ==
  \A t \in Seats \ {s} :
    /\ seat'[t] = seat[t] /\ latest'[t] = latest[t] /\ mem'[t] = mem[t]
    /\ op'[t] = op[t] /\ rec'[t] = rec[t] /\ exec'[t] = exec[t]
    /\ holder.seat = t => holder' = holder

(* A step of one seat keeps LeaseInv if it keeps that seat's part.         *)
LEMMA SparedKeep ==
  ASSUME LeaseInv, NEW s \in Seats, Spares(s), Fits(s)', Holds(s)'
  PROVE  LeaseInv'
<1>1. SUFFICES ASSUME NEW t \in Seats PROVE Fits(t)' /\ Holds(t)'
  BY DEF LeaseInv
<1>2. CASE t = s
  BY <1>2
<1>3. CASE t # s
  <2>1. /\ seat'[t] = seat[t] /\ mem'[t] = mem[t]
        /\ op'[t] = op[t] /\ rec'[t] = rec[t] /\ exec'[t] = exec[t]
        /\ holder.seat = t => holder' = holder
    BY <1>3 DEF Spares
  <2>2. Fits(t) /\ Holds(t)
    BY DEF LeaseInv
  <2>3. Fits(t)'
    BY <2>1, <2>2 DEF Fits, Known, Ended
  <2>4. \A h \in Handles : holder = [seat |-> t, handle |-> h] => holder' = holder
    BY <2>1
  <2>5. Holds(t)'
    BY <2>1, <2>2, <2>4 DEF Holds, Known, Handles
  <2> QED BY <2>3, <2>5
<1> QED BY <1>2, <1>3

(* At first no seat holds anything.                                        *)
LEMMA LeaseInit == Init => TypeOK /\ LeaseInv
<1>1. Init => Typed
  <2>1. SUFFICES ASSUME Init PROVE Typed
    OBVIOUS
  <2>2. attempts \in Seq([kind : Starting, tree : 0..MaxAttempts])
        /\ Len(attempts) <= MaxAttempts
        /\ journal \in Seq([type : EventTypes, attempt : Ordinals])
    BY <2>1, BoundsAssumption DEF Init
  <2>3. mem \in [Seats -> {NoRun} \cup Memory]
        /\ op \in [Seats -> {Idle} \cup Operation]
        /\ rec \in [Seats -> {Idle} \cup Entered \cup Observed]
        /\ exec \in [Seats -> {Idle} \cup Attempting \cup Settled]
    BY <2>1 DEF Init
  <2>4. latest \in [Seats -> 0..MaxAttempts] /\ crashes \in 0..MaxCrashes
    BY <2>1, BoundsAssumption DEF Init
  <2> QED BY <2>1, <2>2, <2>3, <2>4 DEF Init, Typed, StoreTyped
<1>2. Init => LeaseInv
  BY DEF Init, LeaseInv, Fits, Holds, Known, Ended, NoRun, Idle
<1> QED BY <1>1, <1>2, TypeParts

(* An operation begins with neither lease nor attempt.                     *)
LEMMA LeaseBegin ==
  ASSUME TypeOK, LeaseInv, UNCHANGED adverse, NEW s \in Seats,
         NEW kind \in Starting \cup {"abandon", "release"},
         NEW ordinal \in 0..MaxAttempts, NEW tree \in 0..MaxAttempts,
         NEW prior \in {"none", "failed", "interrupted"},
         Begin(s, kind, ordinal, tree, prior),
         exec[s].at = "idle",
         kind \in Starting => ordinal \in Ordinals,
         kind = "launch" <=> ~Known(s),
         kind = "retry" => mem[s].status = "failed",
         kind = "resume" => mem[s].status = "interrupted",
         kind = "abandon" =>
           /\ Ended(s) /\ mem[s].ended.result.sandbox \in Clean
           /\ mem[s].status = "interrupted"
  PROVE  TypeOK' /\ LeaseInv' /\ Spares(s)
<1> DEFINE new == [kind |-> kind, at |-> "checked", ordinal |-> ordinal,
                   tree |-> tree, prior |-> prior, via |-> "none"]
<1>1. /\ op' = [op EXCEPT ![s] = new] /\ seat[s] = "up"
      /\ UNCHANGED <<adverse, holder, recorded, attempts, journal, snapshot,
                     trees, guests, seat, latest, mem, rec, exec, crashes>>
  BY DEF Begin, Up, store, opening
<1>2. new \in Operation
  BY DEF Operation
<1>3. Typed
  BY TypeParts
<1>4. Typed'
  BY <1>1, <1>2, <1>3 DEF Typed, StoreTyped
<1>5. Spares(s) /\ op'[s] = new
  BY <1>1, <1>3 DEF Typed, Spares
<1>6. Fits(s) /\ Holds(s)
  BY DEF LeaseInv
<1>7. Fits(s)'
  BY <1>1, <1>5, <1>6 DEF Fits, Known, Ended
<1>8. Holds(s)'
  BY <1>1, <1>5, <1>6 DEF Holds, Known
<1> QED BY <1>4, <1>5, <1>7, <1>8, SparedKeep, TypeParts

(* The checks of the five operations only begin one.                       *)
LEMMA LeaseCheck ==
  ASSUME TypeOK, LeaseInv, UNCHANGED adverse, NEW s \in Seats, Check(s)
  PROVE  TypeOK' /\ LeaseInv' /\ Spares(s)
<1>1. Fits(s)
  BY DEF LeaseInv
<1>2. /\ Known(s) <=> mem[s] # NoRun
      /\ Known(s) => mem[s].attempt \in Ordinals
  BY MemoryType DEF Memory
<1>3. ASSUME mem[s].status \notin {"active", "stopping"}
      PROVE  exec[s].at = "idle"
  BY <1>1, <1>3 DEF Fits
<1>4. attempts \in Seq([kind : Starting, tree : 0..MaxAttempts])
  BY TypeParts DEF Typed, StoreTyped
<1>5. CASE CheckLaunch(s)
  BY <1>2, <1>3, <1>5, LeaseBegin, BoundsAssumption
  DEF CheckLaunch, NoRun, Ordinals, Starting
<1>6. CASE CheckRetry(s)
  BY <1>2, <1>3, <1>6, LeaseBegin, BoundsAssumption
  DEF CheckRetry, Loaded, Ordinals, Starting
<1>7. CASE CheckResume(s)
  <2>1. /\ mem[s].status = "interrupted" /\ Known(s)
        /\ mem[s].attempt + 1 \in Ordinals
        /\ attempts[mem[s].attempt].tree \in 0..MaxAttempts
        /\ Begin(s, "resume", mem[s].attempt + 1, attempts[mem[s].attempt].tree,
                 "interrupted")
    <3>1. /\ mem[s].status = "interrupted" /\ Known(s)
          /\ Len(attempts) = mem[s].attempt /\ mem[s].attempt < MaxAttempts
          /\ Begin(s, "resume", mem[s].attempt + 1, attempts[mem[s].attempt].tree,
                   "interrupted")
      BY <1>2, <1>7 DEF CheckResume, Loaded
    <3>2. mem[s].attempt \in 1..MaxAttempts /\ MaxAttempts \in Nat
      BY <1>2, <3>1, BoundsAssumption DEF Ordinals
    <3>3. attempts[mem[s].attempt] \in [kind : Starting, tree : 0..MaxAttempts]
      <4>1. mem[s].attempt \in 1..Len(attempts)
        BY <3>1, <3>2
      <4> QED BY <1>4, <4>1, ElementOfSeq
    <3> QED BY <3>1, <3>2, <3>3 DEF Ordinals
  <2> QED BY <1>3, <2>1, LeaseBegin DEF Starting, Ordinals
<1>8. CASE CheckAbandon(s)
  BY <1>1, <1>2, <1>3, <1>8, LeaseBegin, BoundsAssumption
  DEF CheckAbandon, Loaded, Starting, Fits, Ended, Clean
<1>9. CASE CheckRelease(s)
  BY <1>1, <1>2, <1>3, <1>9, LeaseBegin, BoundsAssumption
  DEF CheckRelease, Loaded, Starting
<1> QED BY <1>5, <1>6, <1>7, <1>8, <1>9 DEF Check

(* The operation of a seat ends, or goes on to another place.              *)
LEMMA LeaseThrow ==
  ASSUME TypeOK, LeaseInv, StoreTyped', NEW s \in Seats,
         UNCHANGED <<adverse, opening, mem, rec, exec, crashes>>,
         op[s] # Idle, Throw(s)
  PROVE  TypeOK' /\ LeaseInv' /\ Spares(s)
<1>1. /\ op' = [op EXCEPT ![s] = Idle]
      /\ holder' = IF op[s].via = "op" THEN Free ELSE holder
      /\ UNCHANGED <<adverse, seat, latest, mem, rec, exec, crashes>>
  <2>1. op[s].via # "rec"
    BY OpType DEF Operation
  <2> QED BY <2>1 DEF Throw, Done, opening
<1>2. Typed
  BY TypeParts
<1>3. Typed'
  BY <1>1, <1>2 DEF Typed
<1>4. Fits(s) /\ Holds(s) /\ op[s].at # "idle"
  BY OpType DEF LeaseInv
<1>5. op'[s] = Idle /\ Idle.at = "idle"
  BY <1>1, <1>2 DEF Typed, Idle
<1>6. op[s].via = "op" => holder = [seat |-> s, handle |-> "op"]
  BY <1>4 DEF Holds
<1>7. Spares(s)
  BY <1>1, <1>2, <1>6 DEF Typed, Spares
<1>8. Fits(s)'
  BY <1>1, <1>4, <1>5 DEF Fits, Known, Ended
<1>9. Holds(s)'
  BY <1>1, <1>4, <1>5, <1>6 DEF Holds, Known
<1> QED BY <1>3, <1>7, <1>8, <1>9, SparedKeep, TypeParts

(* An operation moves on under the lease it has.                           *)
LEMMA LeaseGoto ==
  ASSUME TypeOK, LeaseInv, StoreTyped', NEW s \in Seats,
         UNCHANGED <<adverse, holder, opening, mem, rec, exec, crashes>>,
         op[s] # Idle, op[s].at # "checked",
         NEW new \in Operation, op' = [op EXCEPT ![s] = new],
         new.kind = op[s].kind, new.via = op[s].via,
         new.ordinal = op[s].ordinal, new.at # "checked",
         new.at \in {"prepared", "recorded"} => new.kind \in Starting,
         new.at = "released" => new.kind = "release",
         new.at # "abandoning", op[s].at # "abandoning"
  PROVE  TypeOK' /\ LeaseInv' /\ Spares(s)
<1>1. UNCHANGED <<adverse, holder, seat, latest, mem, rec, exec, crashes>>
  BY DEF opening
<1>2. Typed
  BY TypeParts
<1>3. Typed'
  BY <1>1, <1>2 DEF Typed
<1>4. Fits(s) /\ Holds(s) /\ op[s].at # "idle"
  BY OpType DEF LeaseInv
<1>5. op'[s] = new
  BY <1>2 DEF Typed
<1>6. Spares(s)
  BY <1>1, <1>2 DEF Typed, Spares
<1>7. Fits(s)'
  BY <1>1, <1>4, <1>5 DEF Fits, Known, Ended
<1>8. Holds(s)'
  BY <1>1, <1>4, <1>5 DEF Holds, Known
<1> QED BY <1>3, <1>6, <1>7, <1>8, SparedKeep, TypeParts

(* The lease goes to an operation only when nobody holds it.               *)
LEMMA LeaseAcquire ==
  ASSUME TypeOK, LeaseInv, UNCHANGED adverse, NEW s \in Seats, Acquire(s)
  PROVE  TypeOK' /\ LeaseInv' /\ Spares(s)
<1>1. /\ op[s] # Idle /\ op[s].at = "checked" /\ op[s] \in Operation
      /\ UNCHANGED <<adverse, recorded, attempts, journal, snapshot, trees,
                     guests, seat, latest, mem, rec, exec, crashes>>
  BY OpType DEF Acquire, store, opening
<1>2. Typed
  BY TypeParts
<1>3. StoreTyped'
  BY <1>1, <1>2 DEF Typed, StoreTyped
<1>4. Fits(s) /\ Holds(s) /\ op[s].at # "idle"
  BY OpType, <1>1 DEF LeaseInv
<1>5. ASSUME NEW via \in {"op", "run"},
             op' = [op EXCEPT ![s].at = "leased", ![s].via = via],
             \/ via = "op" /\ holder = Free /\ Hold(s, "op")
             \/ /\ via = "run" /\ UNCHANGED holder
                /\ op[s].kind = "release" /\ mem[s].leased
      PROVE  TypeOK' /\ LeaseInv' /\ Spares(s)
  <2> DEFINE new == [op[s] EXCEPT !.at = "leased", !.via = via]
  <2>1. /\ new \in Operation /\ new.at = "leased" /\ new.via = via
        /\ new.kind = op[s].kind /\ new.ordinal = op[s].ordinal
    BY <1>1 DEF Operation
  <2>2. op'[s] = new /\ op' \in [Seats -> {Idle} \cup Operation]
    BY <1>2, <1>5, <2>1 DEF Typed
  <2>3. holder' \in {Free} \cup [seat : Seats, handle : Handles]
    BY <1>2, <1>5 DEF Typed, Hold, Handles
  <2>4. Typed'
    BY <1>1, <1>2, <1>3, <2>2, <2>3 DEF Typed
  <2>5. Spares(s)
    BY <1>1, <1>2, <1>5, SeatsAssumption DEF Typed, Spares, Free
  <2> HIDE DEF new
  <2>6. Fits(s)'
    BY <1>1, <1>4, <1>5, <2>1, <2>2 DEF Fits, Known, Ended
  <2>7. Holds(s)'
    <3>1. CASE via = "run"
      BY <1>1, <1>4, <1>5, <2>1, <2>2, <3>1 DEF Holds, Known
    <3>2. CASE via = "op"
      <4>1. holder = Free /\ holder' = [seat |-> s, handle |-> "op"]
        BY <1>5, <3>2 DEF Hold
      <4>2. \A h \in Handles : holder # [seat |-> s, handle |-> h]
        BY <4>1, SeatsAssumption DEF Free
      <4> QED
        BY <1>1, <1>4, <2>1, <2>2, <3>2, <4>1, <4>2 DEF Holds, Known, Handles
    <3> QED BY <3>1, <3>2
  <2> QED BY <2>4, <2>5, <2>6, <2>7, SparedKeep, TypeParts
<1>6. CASE op[s].kind = "release" /\ mem[s].leased
  BY <1>5, <1>6 DEF Acquire
<1>7. CASE ~(op[s].kind = "release" /\ mem[s].leased) /\ holder = Free
  BY <1>5, <1>7 DEF Acquire
<1>8. CASE ~(op[s].kind = "release" /\ mem[s].leased) /\ holder # Free
  BY <1>1, <1>3, <1>8, LeaseThrow DEF Acquire, opening
<1> QED BY <1>6, <1>7, <1>8

(* An operation that finds the lease taken ends.                           *)
LEMMA LeaseFenced ==
  ASSUME TypeOK, LeaseInv, UNCHANGED adverse, NEW s \in Seats, Fenced(s)
  PROVE  TypeOK' /\ LeaseInv' /\ Spares(s)
<1>1. StoreTyped'
  BY TypeParts DEF Typed, StoreTyped, Fenced, store
<1> QED BY <1>1, LeaseThrow DEF Fenced

(* What the operations write to the store has its type.                    *)
LEMMA StoreWrites ==
  ASSUME TypeOK
  PROVE  /\ \A type \in EventTypes, n \in Ordinals :
              Write(type, n) =>
                /\ journal' \in Seq([type : EventTypes, attempt : Ordinals])
                /\ Len(journal') = Len(journal) + 1
         /\ \A e \in Executions :
              journal' \in Seq([type : EventTypes, attempt : Ordinals])
              /\ Save(e) => snapshot' \in Saved
         /\ AllReleased \/ SomeReleased =>
              trees' \in [Ordinals -> {"none", "reserved", "kept", "handed",
                                       "released"}]
<1>1. Typed /\ StoreTyped
  BY TypeParts DEF Typed
<1>2. ASSUME NEW type \in EventTypes, NEW n \in Ordinals, Write(type, n)
      PROVE  /\ journal' \in Seq([type : EventTypes, attempt : Ordinals])
             /\ Len(journal') = Len(journal) + 1
  <2>1. Event(type, n) \in [type : EventTypes, attempt : Ordinals]
    BY DEF Event
  <2> QED BY <1>1, <1>2, <2>1 DEF StoreTyped, Write
<1>3. ASSUME NEW e \in Executions, Save(e),
             journal' \in Seq([type : EventTypes, attempt : Ordinals])
      PROVE  snapshot' \in Saved
  BY <1>3 DEF Save, Saved, Executions
<1>4. AllReleased \/ SomeReleased =>
        trees' \in [Ordinals -> {"none", "reserved", "kept", "handed",
                                 "released"}]
  BY <1>1 DEF StoreTyped, AllReleased, SomeReleased
<1> QED BY <1>2, <1>3, <1>4

(* Preparing a worktree is under the operation's lease.                    *)
LEMMA LeasePrepare ==
  ASSUME TypeOK, LeaseInv, UNCHANGED adverse, NEW s \in Seats, Prepare(s)
  PROVE  TypeOK' /\ LeaseInv' /\ Spares(s)
<1>1. /\ op[s] # Idle /\ op[s].at = "leased" /\ op[s] \in Operation
      /\ op[s].kind \in Starting
      /\ UNCHANGED <<adverse, attempts, journal, snapshot, guests, opening,
                     mem, rec, exec, crashes>>
  BY OpType DEF Prepare, At
<1>2. StoreTyped
  BY TypeParts DEF Typed
<1>3. StoreTyped'
  <2>1. recorded' \in BOOLEAN
    BY <1>2 DEF StoreTyped, Prepare
  <2>2. trees' \in [Ordinals -> {"none", "reserved", "kept", "handed", "released"}]
    BY <1>2 DEF StoreTyped, Prepare
  <2> QED BY <1>1, <1>2, <2>1, <2>2 DEF StoreTyped
<1>4. CASE Throw(s)
  BY <1>1, <1>3, <1>4, LeaseThrow
<1>5. CASE ~Throw(s)
  <2>1. PICK tree \in 0..MaxAttempts :
          /\ op' = [op EXCEPT ![s] =
                      [op[s] EXCEPT !.at = "prepared", !.tree = tree]]
          /\ UNCHANGED holder
    <3>1. op[s].tree \in 0..MaxAttempts /\ op[s].ordinal \in 0..MaxAttempts
      BY <1>1 DEF Operation
    <3>2. CASE Goto(s, "prepared") /\ UNCHANGED holder
      <4>1. [op[s] EXCEPT !.at = "prepared", !.tree = op[s].tree]
              = [op[s] EXCEPT !.at = "prepared"]
        BY <1>1 DEF Operation
      <4> QED BY <3>1, <3>2, <4>1 DEF Goto
    <3>3. CASE /\ op' = [op EXCEPT ![s].at = "prepared",
                                   ![s].tree = op[s].ordinal]
               /\ UNCHANGED holder
      BY <3>1, <3>3
    <3> QED BY <1>5, <3>2, <3>3 DEF Prepare
  <2> DEFINE new == [op[s] EXCEPT !.at = "prepared", !.tree = tree]
  <2>2. /\ new \in Operation /\ new.at = "prepared" /\ new.via = op[s].via
        /\ new.kind = op[s].kind /\ new.ordinal = op[s].ordinal
    BY <1>1 DEF Operation
  <2> QED BY <1>1, <1>3, <2>1, <2>2, LeaseGoto
<1> QED BY <1>4, <1>5

(* Recording an attempt is under the operation's lease.                    *)
LEMMA LeaseRecordAttempt ==
  ASSUME TypeOK, LeaseInv, UNCHANGED adverse, NEW s \in Seats,
         RecordAttempt(s)
  PROVE  TypeOK' /\ LeaseInv' /\ Spares(s)
<1>1. /\ op[s] # Idle /\ op[s].at = "prepared" /\ op[s] \in Operation
      /\ op[s].kind \in Starting
      /\ UNCHANGED <<adverse, recorded, journal, snapshot, trees, guests,
                     opening, mem, rec, exec, crashes>>
  BY OpType DEF RecordAttempt, At
<1>2. StoreTyped
  BY TypeParts DEF Typed
<1> DEFINE record == [kind |-> op[s].kind, tree |-> op[s].tree]
<1>3. StoreTyped'
  <2>1. record \in [kind : Starting, tree : 0..MaxAttempts]
    BY <1>1 DEF Operation
  <2>2. /\ attempts' \in Seq([kind : Starting, tree : 0..MaxAttempts])
        /\ Len(attempts') <= MaxAttempts
    <3>1. CASE UNCHANGED attempts
      BY <1>2, <3>1 DEF StoreTyped
    <3>2. CASE /\ attempts' = Append(attempts, record)
               /\ op[s].ordinal = Len(attempts) + 1
      <4>1. op[s].ordinal <= MaxAttempts
        BY <1>1, BoundsAssumption DEF Operation
      <4> HIDE DEF record
      <4> QED BY <1>2, <2>1, <3>2, <4>1, BoundsAssumption DEF StoreTyped
    <3> QED BY <3>1, <3>2 DEF RecordAttempt
  <2> QED BY <1>1, <1>2, <2>2 DEF StoreTyped
<1>4. CASE Throw(s)
  BY <1>1, <1>3, <1>4, LeaseThrow
<1>5. CASE Goto(s, "recorded") /\ UNCHANGED holder
  <2> DEFINE new == [op[s] EXCEPT !.at = "recorded"]
  <2>1. /\ new \in Operation /\ new.at = "recorded" /\ new.via = op[s].via
        /\ new.kind = op[s].kind /\ new.ordinal = op[s].ordinal
    BY <1>1 DEF Operation
  <2>2. op' = [op EXCEPT ![s] = new]
    BY <1>5 DEF Goto
  <2> QED BY <1>1, <1>3, <1>5, <2>1, <2>2, LeaseGoto
<1> QED BY <1>4, <1>5 DEF RecordAttempt

(* Releasing the worktrees is under the operation's lease.                 *)
LEMMA LeaseReleaseTrees ==
  ASSUME TypeOK, LeaseInv, UNCHANGED adverse, NEW s \in Seats, ReleaseTrees(s)
  PROVE  TypeOK' /\ LeaseInv' /\ Spares(s)
<1>1. /\ op[s] # Idle /\ op[s].at = "leased" /\ op[s] \in Operation
      /\ op[s].kind = "release"
      /\ UNCHANGED <<adverse, recorded, attempts, journal, snapshot, guests,
                     opening, mem, rec, exec, crashes>>
  BY OpType DEF ReleaseTrees, At
<1>2. StoreTyped'
  BY <1>1, TypeParts, StoreWrites DEF Typed, StoreTyped, ReleaseTrees
<1>3. CASE Throw(s)
  BY <1>1, <1>2, <1>3, LeaseThrow
<1>4. CASE Goto(s, "released") /\ UNCHANGED holder
  <2> DEFINE new == [op[s] EXCEPT !.at = "released"]
  <2>1. /\ new \in Operation /\ new.at = "released" /\ new.via = op[s].via
        /\ new.kind = op[s].kind /\ new.ordinal = op[s].ordinal
    BY <1>1 DEF Operation
  <2>2. op' = [op EXCEPT ![s] = new]
    BY <1>4 DEF Goto
  <2> QED BY <1>1, <1>2, <1>4, <2>1, <2>2, LeaseGoto
<1> QED BY <1>3, <1>4 DEF ReleaseTrees

(* The operation's lease becomes the run's as the attempt begins.          *)
LEMMA LeaseExecute ==
  ASSUME TypeOK, LeaseInv, UNCHANGED adverse, NEW s \in Seats, Execute(s)
  PROVE  TypeOK' /\ LeaseInv' /\ Spares(s)
<1>1. /\ op[s] # Idle /\ op[s].at = "recorded" /\ op[s] \in Operation
      /\ op[s].kind \in Starting /\ Owns(s) /\ op[s].at # "idle"
      /\ UNCHANGED <<adverse, recorded, attempts, journal, snapshot, trees,
                     guests, opening, seat, latest, rec, crashes>>
  BY OpType DEF Execute, At, store, opening
<1>2. Typed
  BY TypeParts
<1>3. StoreTyped'
  BY <1>1, <1>2 DEF Typed, StoreTyped
<1>4. Fits(s) /\ Holds(s)
  BY DEF LeaseInv
<1>5. op[s].ordinal \in Ordinals /\ op[s].via = "op"
      /\ holder = [seat |-> s, handle |-> "op"] /\ seat[s] = "up"
  BY <1>1, <1>4 DEF Fits, Holds, Owns, Starting
<1>6. CASE Throw(s) /\ UNCHANGED <<exec, mem>>
  BY <1>1, <1>3, <1>6, LeaseThrow
<1>7. CASE ~(Throw(s) /\ UNCHANGED <<exec, mem>>)
  <2> DEFINE begun == [at |-> "entered", attempt |-> op[s].ordinal,
                       signal |-> "none"]
             run == [status |-> "active", attempt |-> op[s].ordinal,
                     ended |-> NoExecution, leased |-> TRUE]
  <2>1. /\ holder' = [seat |-> s, handle |-> "run"]
        /\ exec' = [exec EXCEPT ![s] = begun]
        /\ mem' = [mem EXCEPT ![s] = run]
        /\ op' = [op EXCEPT ![s] = Idle]
    BY <1>7 DEF Execute, Hold
  <2>2. begun \in Attempting /\ run \in Memory
    BY <1>5 DEF Attempting, Memory
  <2>3. Typed'
    BY <1>1, <1>2, <1>3, <2>1, <2>2 DEF Typed, Handles
  <2>4. Spares(s)
    BY <1>1, <1>2, <1>5, <2>1 DEF Typed, Spares
  <2>5. op'[s] = Idle /\ exec'[s] = begun /\ mem'[s] = run /\ Idle.at = "idle"
    BY <1>2, <2>1 DEF Typed, Idle
  <2>6. rec[s].at # "idle" => rec[s].via = "lost"
    BY <1>1, <1>4 DEF Fits, Starting
  <2>7. Fits(s)'
    BY <1>1, <1>5, <2>5, <2>6 DEF Fits, Known, Ended
  <2>8. Holds(s)'
    BY <1>1, <1>5, <2>1, <2>5, <2>6 DEF Holds, Known
  <2> QED BY <2>3, <2>4, <2>7, <2>8, SparedKeep, TypeParts
<1> QED BY <1>6, <1>7

(* An abandonment begins: the run is blocked until it is proved.           *)
LEMMA LeaseBeginAbandon ==
  ASSUME TypeOK, LeaseInv, UNCHANGED adverse, NEW s \in Seats,
         BeginAbandon(s)
  PROVE  TypeOK' /\ LeaseInv' /\ Spares(s)
<1>1. /\ op[s] # Idle /\ op[s].at = "leased" /\ op[s] \in Operation
      /\ op[s].kind = "abandon" /\ op[s].at # "idle"
      /\ UNCHANGED <<adverse, recorded, attempts, snapshot, trees, guests,
                     opening, seat, latest, rec, exec, crashes>>
  BY OpType DEF BeginAbandon, At, opening
<1>2. Typed /\ mem[s] \in Memory /\ mem[s].ended # NoExecution
  <2>1. Ended(s)
    BY <1>1 DEF LeaseInv, Fits
  <2> QED BY <2>1, TypeParts, MemoryType DEF Ended
<1>3. Fits(s) /\ Holds(s)
  BY DEF LeaseInv
<1> DEFINE r == Result("cleanup-blocked", "reconcile",
                       mem[s].ended.result.sandbox, UnprovedTree)
           e == Execution(r, FALSE)
<1>4. /\ e \in Executions /\ e # NoExecution
      /\ e.result.status = "cleanup-blocked"
      /\ e.result.sandbox = mem[s].ended.result.sandbox
  <2>1. mem[s].ended.result.sandbox \in Cleanups
    BY <1>2 DEF Memory, Executions, Results
  <2>2. /\ r \in Results /\ r.status = "cleanup-blocked"
        /\ r.sandbox = mem[s].ended.result.sandbox
    BY <2>1 DEF Result, Results, ResultStatuses, Retries, Cleanups, UnprovedTree
  <2> HIDE DEF r
  <2> QED BY <2>2, ExecutionType
<1>5. StoreTyped'
  <2>1. mem[s].attempt \in Ordinals
    BY <1>2 DEF Memory
  <2>2. journal' \in Seq([type : EventTypes, attempt : Ordinals])
    <3>1. CASE UNCHANGED journal
      BY <1>2, <3>1 DEF Typed, StoreTyped
    <3>2. CASE Write("run-abandoning", mem[s].attempt)
      BY <2>1, <3>2, StoreWrites DEF EventTypes
    <3> QED BY <3>1, <3>2 DEF BeginAbandon
  <2> QED BY <1>1, <1>2, <2>2 DEF Typed, StoreTyped
<1>6. CASE Throw(s) /\ UNCHANGED mem
  BY <1>1, <1>5, <1>6, LeaseThrow
<1>7. CASE ~(Throw(s) /\ UNCHANGED mem)
  <2> DEFINE new == [op[s] EXCEPT !.at = "abandoning"]
             run == [mem[s] EXCEPT !.status = "cleanup-blocked", !.ended = e]
  <2>1. /\ op' = [op EXCEPT ![s] = new] /\ mem' = [mem EXCEPT ![s] = run]
        /\ UNCHANGED holder
    BY <1>7 DEF BeginAbandon, Goto, Remember
  <2>2. /\ new \in Operation /\ new.at = "abandoning" /\ new.via = op[s].via
        /\ new.kind = "abandon"
    BY <1>1 DEF Operation
  <2>3. /\ run \in Memory /\ run.status = "cleanup-blocked" /\ run.ended = e
        /\ run.leased = mem[s].leased
    <3> HIDE DEF e
    <3> QED BY <1>2, <1>4 DEF Memory, ResultStatuses
  <2> HIDE DEF new, run, e, r
  <2>4. Typed'
    BY <1>1, <1>2, <1>5, <2>1, <2>2, <2>3 DEF Typed
  <2>5. Spares(s)
    BY <1>1, <1>2, <2>1 DEF Typed, Spares
  <2>6. op'[s] = new /\ mem'[s] = run
    BY <1>2, <2>1 DEF Typed
  <2>7. Fits(s)'
    BY <1>1, <1>3, <1>4, <2>2, <2>3, <2>6 DEF Fits, Known, Ended, Starting
  <2>8. Holds(s)'
    BY <1>1, <1>2, <1>3, <2>1, <2>2, <2>3, <2>6, MemoryType DEF Holds, Known
  <2> QED BY <2>4, <2>5, <2>7, <2>8, SparedKeep, TypeParts
<1> QED BY <1>6, <1>7

(* An abandonment ends and gives the lease back.                           *)
LEMMA LeaseFinishAbandon ==
  ASSUME TypeOK, LeaseInv, UNCHANGED adverse, NEW s \in Seats,
         FinishAbandon(s)
  PROVE  TypeOK' /\ LeaseInv' /\ Spares(s)
<1>1. /\ op[s] # Idle /\ op[s].at = "abandoning" /\ op[s] \in Operation
      /\ op[s].kind = "abandon" /\ op[s].at # "idle" /\ Throw(s)
      /\ UNCHANGED <<adverse, recorded, attempts, guests, opening, seat, latest,
                     rec, exec, crashes>>
  BY OpType DEF FinishAbandon, At, opening
<1>2. Typed /\ mem[s] \in Memory /\ mem[s].ended # NoExecution
  <2>1. Ended(s)
    BY <1>1 DEF LeaseInv, Fits
  <2> QED BY <2>1, TypeParts, MemoryType DEF Ended
<1>3. Fits(s) /\ Holds(s)
  BY DEF LeaseInv
<1>4. PICK status \in {"abandoned", "cleanup-blocked"}, e \in Executions :
        /\ e.result.status = status /\ Remember(s, status, e)
        /\ \/ Write("run-abandoned", mem[s].attempt) \/ UNCHANGED journal
        /\ Save(e) \/ UNCHANGED snapshot
        /\ AllReleased \/ SomeReleased
  <2> DEFINE sandbox == mem[s].ended.result.sandbox
             ra == Result("abandoned", "never", sandbox, ReleasedTree)
             rb == Result("cleanup-blocked", "reconcile", sandbox, "unknown")
  <2>1. sandbox \in Cleanups
    BY <1>2 DEF Memory, Executions, Results
  <2>2. /\ ra \in Results /\ ra.status = "abandoned"
        /\ rb \in Results /\ rb.status = "cleanup-blocked"
    BY <2>1 DEF Result, Results, ResultStatuses, Retries, Cleanups, ReleasedTree
  <2>3. /\ Execution(ra, FALSE) \in Executions
        /\ Execution(ra, FALSE).result.status = "abandoned"
        /\ Execution(rb, FALSE) \in Executions
        /\ Execution(rb, FALSE).result.status = "cleanup-blocked"
    BY <2>2, ExecutionType
  <2>4. CASE /\ AllReleased /\ Write("run-abandoned", mem[s].attempt)
             /\ Remember(s, "abandoned", Execution(ra, FALSE))
             /\ Save(Execution(ra, FALSE)) \/ UNCHANGED snapshot
    BY <2>3, <2>4
  <2>5. CASE /\ SomeReleased /\ UNCHANGED journal
             /\ Remember(s, "cleanup-blocked", Execution(rb, FALSE))
             /\ Save(Execution(rb, FALSE))
    BY <2>3, <2>5
  <2> QED BY <2>4, <2>5 DEF FinishAbandon
<1>5. StoreTyped'
  <2>1. mem[s].attempt \in Ordinals
    BY <1>2 DEF Memory
  <2>2. journal' \in Seq([type : EventTypes, attempt : Ordinals])
    <3>1. CASE UNCHANGED journal
      BY <1>2, <3>1 DEF Typed, StoreTyped
    <3>2. CASE Write("run-abandoned", mem[s].attempt)
      BY <2>1, <3>2, StoreWrites DEF EventTypes
    <3> QED BY <1>4, <3>1, <3>2
  <2>3. snapshot' \in {NoSnapshot} \cup Saved
    BY <1>2, <1>4, <2>2, StoreWrites DEF Typed, StoreTyped
  <2> QED BY <1>1, <1>2, <1>4, <2>2, <2>3, StoreWrites DEF Typed, StoreTyped
<1> DEFINE run == [mem[s] EXCEPT !.status = status, !.ended = e]
<1>6. /\ op' = [op EXCEPT ![s] = Idle] /\ mem' = [mem EXCEPT ![s] = run]
      /\ holder' = IF op[s].via = "op" THEN Free ELSE holder
  <2>1. op[s].via # "rec"
    BY <1>1 DEF Operation
  <2> QED BY <1>1, <1>4, <2>1 DEF Remember, Throw, Done
<1>7. /\ run \in Memory /\ run.status = status /\ run.ended = e
      /\ run.leased = mem[s].leased /\ e # NoExecution
  BY <1>2, <1>4, ExecutionType DEF Memory, ResultStatuses
<1> HIDE DEF run
<1>8. op[s].via = "op" /\ holder = [seat |-> s, handle |-> "op"]
  BY <1>1, <1>3 DEF Fits, Holds, FinishAbandon, Owns
<1>9. Typed'
  BY <1>1, <1>2, <1>5, <1>6, <1>7 DEF Typed
<1>10. Spares(s)
  BY <1>1, <1>2, <1>6, <1>8 DEF Typed, Spares
<1>11. op'[s] = Idle /\ mem'[s] = run /\ Idle.at = "idle"
  BY <1>2, <1>6 DEF Typed, Idle
<1>12. Known(s) /\ ~mem[s].leased
  BY <1>1, <1>2, <1>3, <1>8, MemoryType DEF Holds
<1>13. rec[s].at # "idle" => rec[s].via \in {"run", "lost"}
  BY <1>3, <1>8, RecType DEF Holds, Entered, Observed
<1>14. rec[s].at # "idle" => rec[s].via = "lost"
  BY <1>3, <1>12, <1>13 DEF Holds
<1>15. Fits(s)'
  BY <1>1, <1>3, <1>4, <1>7, <1>11, <1>12, <1>14 DEF Fits, Known, Ended
<1>16. Holds(s)'
  BY <1>1, <1>3, <1>7, <1>11, <1>12, <1>14 DEF Holds, Fits, Known
<1> QED BY <1>9, <1>10, <1>15, <1>16, SparedKeep, TypeParts

(* A release ends and gives the lease back.                                *)
LEMMA LeaseFinishRelease ==
  ASSUME TypeOK, LeaseInv, UNCHANGED adverse, NEW s \in Seats,
         FinishRelease(s)
  PROVE  TypeOK' /\ LeaseInv' /\ Spares(s)
<1>1. /\ op[s] # Idle /\ op[s].at = "released" /\ op[s] \in Operation
      /\ op[s].kind = "release" /\ op[s].at # "idle" /\ op[s].via \in {"op", "run"}
      /\ UNCHANGED <<adverse, recorded, attempts, trees, guests, opening, seat,
                     latest, exec, crashes>>
  BY OpType DEF FinishRelease, At, opening, Owns
<1>2. Typed
  BY TypeParts
<1>3. Fits(s) /\ Holds(s)
  BY DEF LeaseInv
<1>4. CASE mem[s].ended = NoExecution
  <2>1. UNCHANGED <<journal, snapshot, mem, rec>> /\ Throw(s)
    BY <1>4 DEF FinishRelease
  <2>2. StoreTyped'
    BY <1>1, <1>2, <2>1 DEF Typed, StoreTyped
  <2> QED BY <1>1, <2>1, <2>2, LeaseThrow
<1>5. CASE mem[s].ended # NoExecution
  <2>1. Known(s) /\ mem[s] \in Memory /\ exec[s].at = "idle" /\ seat[s] = "up"
    BY <1>1, <1>3, MemoryType DEF Fits, Starting
  <2>2. PICK e \in Executions :
          LET free == Unblocked(s, e.result.status) IN
          /\ UNCHANGED journal /\ Save(e)
          /\ mem' = [mem EXCEPT ![s] =
               [mem[s] EXCEPT !.status = e.result.status, !.ended = e,
                              !.leased = @ /\ ~free]]
          /\ op' = [op EXCEPT ![s] = Idle]
          /\ holder' = IF free \/ op[s].via = "op" THEN Free ELSE holder
          /\ rec' = IF free /\ rec[s] # Idle /\ rec[s].via = "run"
                    THEN [rec EXCEPT ![s].via = "lost"] ELSE rec
    <3> DEFINE old == mem[s].ended
               proved == old.result.sandbox \in {"proved", "not-needed"}
               result ==
                 IF Pending THEN old.result
                 ELSE [old.result EXCEPT
                         !.workspace = ReleasedTree,
                         !.status = IF @ = "cleanup-blocked" /\ proved
                                    THEN "failed" ELSE @]
               e == Execution(result, old.session /\ result.status # "abandoned")
    <3>1. old \in Executions
      BY <1>5, <2>1 DEF Memory
    <3>2. result \in Results
      <4>1. old.result \in Results
        BY <3>1, ExecutionType
      <4> HIDE DEF old
      <4> QED BY <4>1 DEF Results, ResultStatuses, ReleasedTree, Cleanups
    <3>3. (old.session /\ result.status # "abandoned") \in BOOLEAN
      OBVIOUS
    <3>4. e \in Executions /\ e.result = result
      <4> HIDE DEF result
      <4> QED BY <3>2, <3>3, ExecutionType
    <3>5. LET free == Unblocked(s, result.status) IN
          /\ UNCHANGED journal /\ Save(e)
          /\ mem' = [mem EXCEPT ![s].status = result.status, ![s].ended = e,
                                ![s].leased = @ /\ ~free]
          /\ op' = [op EXCEPT ![s] = Idle]
          /\ holder' = IF free \/ op[s].via = "op" THEN Free ELSE holder
          /\ rec' = IF free /\ rec[s] # Idle /\ rec[s].via = "run"
                    THEN [rec EXCEPT ![s].via = "lost"] ELSE rec
      BY <1>5 DEF FinishRelease
    <3> HIDE DEF e, result
    <3> QED BY <3>4, <3>5
  <2> DEFINE free == Unblocked(s, e.result.status)
             run == [mem[s] EXCEPT !.status = e.result.status, !.ended = e,
                                   !.leased = @ /\ ~free]
  <2>3. /\ run \in Memory /\ run.status = e.result.status /\ run.ended = e
        /\ run.leased = (mem[s].leased /\ ~free) /\ e # NoExecution
        /\ run.status \in ResultStatuses
    <3>1. e.result.status \in ResultStatuses
      BY <2>2, ExecutionType DEF Results
    <3> QED BY <2>1, <2>2, <3>1, ExecutionType DEF Memory
  <2> HIDE DEF run
  <2>4. /\ mem[s].leased =>
             holder = [seat |-> s, handle |-> "run"] /\ op[s].via = "run"
        /\ ~mem[s].leased =>
             holder = [seat |-> s, handle |-> "op"] /\ op[s].via = "op" /\ ~free
    BY <1>1, <1>3, <2>1 DEF Holds, Unblocked
  <2>5. PICK r \in {Idle} \cup Entered \cup Observed :
          /\ rec' = [rec EXCEPT ![s] = r]
          /\ r.at = rec[s].at
          /\ r.at # "idle" => \/ r.via = "lost"
                              \/ ~free /\ r = rec[s]
                              \/ free /\ r = rec[s] /\ r.via # "run"
    <3>1. rec[s] \in {Idle} \cup Entered \cup Observed
      BY <1>2 DEF Typed
    <3>2. CASE free /\ rec[s] # Idle /\ rec[s].via = "run"
      <4> DEFINE r == [rec[s] EXCEPT !.via = "lost"]
      <4>1. r \in Entered \cup Observed /\ r.at = rec[s].at /\ r.via = "lost"
        BY <3>1, <3>2 DEF Entered, Observed
      <4>2. rec' = [rec EXCEPT ![s] = r]
        BY <2>2, <3>2
      <4> QED BY <4>1, <4>2
    <3>3. CASE ~(free /\ rec[s] # Idle /\ rec[s].via = "run")
      <4>1. rec' = [rec EXCEPT ![s] = rec[s]]
        BY <1>2, <2>2, <3>3 DEF Typed
      <4>2. rec[s].at # "idle" => rec[s] # Idle
        BY RecType
      <4> QED BY <3>1, <3>3, <4>1, <4>2
    <3> QED BY <3>2, <3>3
  <2>6. /\ mem'[s] = run /\ op'[s] = Idle /\ rec'[s] = r /\ Idle.at = "idle"
        /\ holder' = IF free \/ op[s].via = "op" THEN Free ELSE holder
    BY <1>2, <2>2, <2>5 DEF Typed, Idle, run
  <2>7. StoreTyped'
    <3>1. journal' \in Seq([type : EventTypes, attempt : Ordinals])
      BY <1>2, <2>2 DEF Typed, StoreTyped
    <3>2. snapshot' \in Saved
      BY <2>2, <3>1, StoreWrites
    <3> QED BY <1>1, <1>2, <3>1, <3>2 DEF Typed, StoreTyped
  <2>8. Typed'
    <3>1. mem' \in [Seats -> {NoRun} \cup Memory]
      BY <1>2, <2>2, <2>3 DEF Typed, run
    <3>2. op' \in [Seats -> {Idle} \cup Operation]
      BY <1>2, <2>2 DEF Typed
    <3> QED BY <1>1, <1>2, <2>5, <2>6, <2>7, <3>1, <3>2 DEF Typed
  <2>9. Spares(s)
    BY <1>1, <1>2, <2>2, <2>4, <2>5, <2>6 DEF Typed, Spares
  <2>10. rec[s].at # "idle" /\ ~mem[s].leased => rec[s].via = "lost"
    BY <1>3, <2>4, RecType DEF Holds, Entered, Observed
  <2>11. rec[s].at # "idle" /\ mem[s].leased => rec[s].via # "rec"
    BY <1>3, <2>4 DEF Holds
  <2>12. r.at # "idle" /\ r.via # "lost" =>
           /\ mem[s].leased /\ ~free /\ r.via = "run"
           /\ run.status = "cleanup-blocked"
    BY <2>3, <2>4, <2>5, <2>10, <2>11, RecType DEF Entered, Observed, Unblocked
  <2>13. Fits(s)'
    BY <1>1, <2>1, <2>3, <2>6, <2>12
    DEF Fits, Known, Ended, ResultStatuses, Unblocked
  <2>14. Holds(s)'
    BY <1>1, <2>1, <2>3, <2>4, <2>6, <2>12 DEF Holds, Known
  <2> QED BY <2>8, <2>9, <2>13, <2>14, SparedKeep, TypeParts
<1> QED BY <1>4, <1>5

(* The attempt of a seat goes on, to its settlement.                       *)
LEMMA LeaseReach ==
  ASSUME TypeOK, LeaseInv, StoreTyped', NEW s \in Seats,
         UNCHANGED <<adverse, holder, opening, mem, op, rec, crashes>>,
         exec[s] # Idle, NEW x \in Attempting \cup Settled,
         exec' = [exec EXCEPT ![s] = x], x.attempt = exec[s].attempt
  PROVE  TypeOK' /\ LeaseInv' /\ Spares(s)
<1>1. UNCHANGED <<adverse, holder, seat, latest, mem, op, rec, crashes>>
  BY DEF opening
<1>2. Typed
  BY TypeParts
<1>3. Typed'
  BY <1>1, <1>2 DEF Typed
<1>4. Fits(s) /\ Holds(s) /\ exec[s].at # "idle"
  BY ExecType DEF LeaseInv
<1>5. exec'[s] = x /\ x.at # "idle"
  BY <1>2 DEF Typed, Attempting, Settled
<1>6. Spares(s)
  BY <1>1, <1>2 DEF Typed, Spares
<1>7. Fits(s)'
  BY <1>1, <1>4, <1>5 DEF Fits, Known, Ended
<1>8. Holds(s)'
  BY <1>1, <1>4, <1>5 DEF Holds, Known
<1> QED BY <1>3, <1>6, <1>7, <1>8, SparedKeep, TypeParts

(* An attempt goes from place to place under the run's lease.              *)
LEMMA LeaseReachPlace ==
  ASSUME TypeOK, LeaseInv, StoreTyped', NEW s \in Seats,
         UNCHANGED <<adverse, holder, opening, mem, op, rec, crashes>>,
         NEW places \in SUBSET {"entered", "started", "booted", "recorded"},
         Executing(s, places),
         NEW place \in {"started", "booted", "recorded", "session"},
         Reach(s, place)
  PROVE  TypeOK' /\ LeaseInv' /\ Spares(s)
<1>1. exec[s] # Idle /\ exec[s] \in Attempting
  BY ExecType DEF Executing
<1> DEFINE x == [exec[s] EXCEPT !.at = place]
<1>2. x \in Attempting /\ x.attempt = exec[s].attempt
  BY <1>1 DEF Attempting
<1>3. exec' = [exec EXCEPT ![s] = x]
  BY DEF Reach
<1> QED BY <1>1, <1>2, <1>3, LeaseReach

(* An attempt settles with its lease still held.                           *)
LEMMA LeaseSettle ==
  ASSUME TypeOK, LeaseInv, UNCHANGED adverse, NEW s \in Seats,
         NEW places \in SUBSET {"started", "booted", "recorded", "session"},
         Executing(s, places), NEW result \in Results, Settle(s, result),
         guests' \in [Ordinals -> Seats \cup {"none", "gone", "orphan"}],
         trees' \in [Ordinals -> {"none", "reserved", "kept", "handed",
                                  "released"}]
  PROVE  TypeOK' /\ LeaseInv' /\ Spares(s)
<1>1. exec[s] # Idle /\ exec[s] \in Attempting
  BY ExecType DEF Executing
<1> DEFINE e == Execution(result, exec[s].at = "session")
           x == [at |-> "settled", attempt |-> exec[s].attempt, ended |-> e]
<1>2. e \in Executions
  BY ExecutionType
<1>3. /\ UNCHANGED <<holder, recorded, attempts, journal, opening, mem, op, rec,
                     crashes>>
      /\ Save(e) /\ exec' = [exec EXCEPT ![s] = x]
  BY DEF Settle
<1> HIDE DEF e
<1>4. x \in Settled /\ x.attempt = exec[s].attempt
  BY <1>1, <1>2 DEF Settled, Attempting
<1>5. StoreTyped'
  <2>1. journal' \in Seq([type : EventTypes, attempt : Ordinals])
    BY <1>3, TypeParts DEF Typed, StoreTyped
  <2>2. snapshot' \in Saved
    BY <1>2, <1>3, <2>1, StoreWrites
  <2> QED BY <1>3, <2>1, <2>2, TypeParts DEF Typed, StoreTyped
<1> HIDE DEF x
<1> QED BY <1>1, <1>3, <1>4, <1>5, LeaseReach

(* What an attempt does to its guest and its worktree has its type.        *)
LEMMA GuestWrites ==
  ASSUME TypeOK
  PROVE  /\ \A n \in Ordinals : Gone(n) =>
              guests' \in [Ordinals -> Seats \cup {"none", "gone", "orphan"}]
         /\ UNCHANGED guests =>
              guests' \in [Ordinals -> Seats \cup {"none", "gone", "orphan"}]
         /\ \A n : trees' = [trees EXCEPT ![n] = "handed"] =>
              trees' \in [Ordinals -> {"none", "reserved", "kept", "handed",
                                       "released"}]
         /\ UNCHANGED trees =>
              trees' \in [Ordinals -> {"none", "reserved", "kept", "handed",
                                       "released"}]
BY TypeParts DEF Typed, StoreTyped, Gone

(* The start of an attempt goes on record.                                 *)
LEMMA LeaseEnterAttempt ==
  ASSUME TypeOK, LeaseInv, UNCHANGED adverse, NEW s \in Seats, EnterAttempt(s)
  PROVE  TypeOK' /\ LeaseInv' /\ Spares(s)
<1>1. exec[s] # Idle /\ exec[s].attempt \in Ordinals
  BY ExecType DEF EnterAttempt, Executing
<1>2. StoreTyped'
  BY <1>1, TypeParts, StoreWrites
  DEF Typed, StoreTyped, EnterAttempt, EventTypes
<1> QED BY <1>2, LeaseReachPlace DEF EnterAttempt

(* A booted guest goes on record.                                          *)
LEMMA LeaseRecordVm ==
  ASSUME TypeOK, LeaseInv, UNCHANGED adverse, NEW s \in Seats, RecordVm(s)
  PROVE  TypeOK' /\ LeaseInv' /\ Spares(s)
<1>1. exec[s] # Idle /\ exec[s].attempt \in Ordinals
  BY ExecType DEF RecordVm, Executing
<1>2. StoreTyped'
  BY <1>1, TypeParts, StoreWrites
  DEF Typed, StoreTyped, RecordVm, EventTypes
<1> QED BY <1>2, LeaseReachPlace DEF RecordVm

(* A session goes on record.                                               *)
LEMMA LeaseRecordSession ==
  ASSUME TypeOK, LeaseInv, UNCHANGED adverse, NEW s \in Seats,
         RecordSession(s)
  PROVE  TypeOK' /\ LeaseInv' /\ Spares(s)
<1>1. exec[s] # Idle /\ exec[s].attempt \in Ordinals
  BY ExecType DEF RecordSession, Executing
<1>2. StoreTyped'
  BY <1>1, TypeParts, StoreWrites
  DEF Typed, StoreTyped, RecordSession, EventTypes
<1> QED BY <1>2, LeaseReachPlace DEF RecordSession

(* A guest boots, or fails to.                                             *)
LEMMA LeaseBootVm ==
  ASSUME TypeOK, LeaseInv, UNCHANGED adverse, NEW s \in Seats, BootVm(s)
  PROVE  TypeOK' /\ LeaseInv' /\ Spares(s)
<1>1. StoreTyped'
  BY TypeParts DEF Typed, StoreTyped, BootVm, store
<1>2. UNCHANGED <<adverse, holder, opening, mem, op, rec, crashes>>
  BY DEF BootVm
<1> QED BY <1>1, <1>2, LeaseReachPlace DEF BootVm

(* An attempt that completes.                                              *)
LEMMA LeaseComplete ==
  ASSUME TypeOK, LeaseInv, UNCHANGED adverse, NEW s \in Seats, Complete(s)
  PROVE  TypeOK' /\ LeaseInv' /\ Spares(s)
<1>1. exec[s].attempt \in Ordinals
  BY ExecType DEF Complete, Executing
<1>2. Result("completed", "none", "proved", ReleasedTree) \in Results
  BY DEF Result, Results, ResultStatuses, ReleasedTree, Cleanups
<1> QED BY <1>1, <1>2, LeaseSettle, GuestWrites DEF Complete

(* An attempt that fails or is stopped, its guest gone.                    *)
LEMMA LeaseEndCleanly ==
  ASSUME TypeOK, LeaseInv, UNCHANGED adverse, NEW s \in Seats, EndCleanly(s)
  PROVE  TypeOK' /\ LeaseInv' /\ Spares(s)
<1>1. exec[s].attempt \in Ordinals
  BY ExecType DEF EndCleanly, Executing
<1>2. PICK result \in Results : Settle(s, result)
  <2>1. \A status \in {"failed", "cancelled", "interrupted"},
           retry \in Retries, sandbox \in Cleanups, workspace \in Cleanups :
          Result(status, retry, sandbox, workspace) \in Results
    BY DEF Result, Results, ResultStatuses
  <2>2. {"manual", "never", "reconcile", "resume"} \subseteq Retries
    BY DEF Retries
  <2>3. {"proved", "not-needed", "retained"} \subseteq Cleanups
    BY DEF Cleanups
  <2> QED BY <2>1, <2>2, <2>3 DEF EndCleanly
<1>3. guests' \in [Ordinals -> Seats \cup {"none", "gone", "orphan"}]
  BY <1>1, GuestWrites DEF EndCleanly
<1>4. trees' \in [Ordinals -> {"none", "reserved", "kept", "handed", "released"}]
  BY GuestWrites DEF EndCleanly
<1> QED BY <1>2, <1>3, <1>4, LeaseSettle DEF EndCleanly

(* An attempt whose guest could not be proved gone.                        *)
LEMMA LeaseEndBlocked ==
  ASSUME TypeOK, LeaseInv, UNCHANGED adverse, NEW s \in Seats, EndBlocked(s)
  PROVE  TypeOK' /\ LeaseInv' /\ Spares(s)
<1>1. Executing(s, {"booted", "recorded", "session"})
  BY DEF EndBlocked, Executing, Unproved
<1>2. exec[s].attempt \in Ordinals
  BY <1>1, ExecType DEF Executing
<1>3. PICK result \in Results : Settle(s, result)
  BY DEF EndBlocked, Result, Results, ResultStatuses, Retries, Cleanups
<1>4. guests' \in [Ordinals -> Seats \cup {"none", "gone", "orphan"}]
  BY <1>2, GuestWrites DEF EndBlocked
<1> QED BY <1>1, <1>3, <1>4, LeaseSettle, GuestWrites DEF EndBlocked

(* A start that failed and left its guest.                                 *)
LEMMA LeaseEndLeaked ==
  ASSUME TypeOK, LeaseInv, UNCHANGED adverse, NEW s \in Seats, EndLeaked(s)
  PROVE  TypeOK' /\ LeaseInv' /\ Spares(s)
<1>1. PICK result \in Results : Settle(s, result)
  BY DEF EndLeaked, Result, Results, ResultStatuses, Retries, Cleanups
<1> QED BY <1>1, LeaseSettle, GuestWrites DEF EndLeaked

(* The attempt of a seat is over.                                          *)
LEMMA LeaseLeaveAttempt ==
  ASSUME TypeOK, LeaseInv, StoreTyped', NEW s \in Seats,
         UNCHANGED <<adverse, opening, op, rec, crashes>>,
         exec[s] # Idle, exec' = [exec EXCEPT ![s] = Idle],
         NEW run \in Memory, mem' = [mem EXCEPT ![s] = run],
         IF run.ended = NoExecution
         THEN run.status = "cleanup-blocked"
         ELSE run.status \in ResultStatuses /\ run.status = run.ended.result.status,
         IF run.leased
         THEN run.status = "cleanup-blocked" /\ UNCHANGED holder
         ELSE holder' = Free
  PROVE  TypeOK' /\ LeaseInv' /\ Spares(s)
<1>1. UNCHANGED <<adverse, seat, latest, op, rec, crashes>>
  BY DEF opening
<1>2. Typed
  BY TypeParts
<1>3. Typed'
  BY <1>1, <1>2 DEF Typed
<1>4. Fits(s) /\ Holds(s) /\ exec[s].at # "idle"
  BY ExecType DEF LeaseInv
<1>5. exec'[s] = Idle /\ mem'[s] = run /\ Idle.at = "idle"
  BY <1>2 DEF Typed, Idle
<1>6. /\ mem[s].leased /\ Known(s) /\ seat[s] = "up" /\ op[s].at = "idle"
      /\ holder = [seat |-> s, handle |-> "run"]
      /\ rec[s].at # "idle" => rec[s].via = "lost"
  <2>1. /\ mem[s].leased /\ Known(s) /\ seat[s] = "up"
        /\ mem[s].status \in {"active", "stopping"} /\ op[s].at = "idle"
        /\ rec[s].at # "idle" => rec[s].via = "lost"
    BY <1>4 DEF Fits, Known, Idle
  <2> QED BY <1>4, <2>1 DEF Holds
<1>7. Spares(s)
  BY <1>1, <1>2, <1>6 DEF Typed, Spares
<1>8. Known(s)' /\ (Ended(s)' <=> run.ended # NoExecution)
  BY <1>5, MemoryType, ResultStatuses # {} DEF Known, Ended, Memory, ResultStatuses
<1>9. Fits(s)'
  BY <1>1, <1>4, <1>5, <1>6, <1>8 DEF Fits, ResultStatuses
<1>10. Holds(s)'
  BY <1>1, <1>4, <1>5, <1>6, <1>8 DEF Holds, Fits
<1> QED BY <1>3, <1>7, <1>9, <1>10, SparedKeep, TypeParts

(* An attempt that throws: the run is blocked without a result.            *)
LEMMA LeaseEndThrown ==
  ASSUME TypeOK, LeaseInv, UNCHANGED adverse, NEW s \in Seats, EndThrown(s)
  PROVE  TypeOK' /\ LeaseInv' /\ Spares(s)
<1>1. /\ exec[s] # Idle /\ exec[s].at # "idle" /\ exec[s].attempt \in Ordinals
      /\ UNCHANGED <<adverse, holder, store, opening, op, rec, crashes>>
      /\ exec' = [exec EXCEPT ![s] = Idle]
  BY ExecType DEF EndThrown, Executing
<1>2. /\ mem[s].ended = NoExecution /\ mem[s].leased /\ mem[s] \in Memory
  <2>1. /\ mem[s].ended = NoExecution /\ mem[s].leased
        /\ mem[s].status \in {"active", "stopping"}
    BY <1>1 DEF LeaseInv, Fits
  <2> QED BY <2>1, MemoryType DEF Known
<1> DEFINE run == [mem[s] EXCEPT !.status = "cleanup-blocked"]
<1>3. /\ run \in Memory /\ run.status = "cleanup-blocked"
      /\ run.ended = NoExecution /\ run.leased
  BY <1>2 DEF Memory, ResultStatuses
<1>4. mem' = [mem EXCEPT ![s] = run]
  BY DEF EndThrown
<1>5. StoreTyped'
  BY <1>1, TypeParts, GuestWrites DEF Typed, StoreTyped, EndThrown, store
<1> HIDE DEF run
<1> QED BY <1>1, <1>3, <1>4, <1>5, LeaseLeaveAttempt

(* The settlement of the run gives the lease back, or keeps it.            *)
LEMMA LeaseFinalize ==
  ASSUME TypeOK, LeaseInv, UNCHANGED adverse, NEW s \in Seats, Finalize(s)
  PROVE  TypeOK' /\ LeaseInv' /\ Spares(s)
<1>1. /\ exec[s] # Idle /\ exec[s].at # "idle" /\ exec[s] \in Settled
      /\ UNCHANGED <<adverse, recorded, attempts, journal, trees, guests,
                     opening, op, rec, crashes>>
      /\ exec' = [exec EXCEPT ![s] = Idle]
  BY ExecType DEF Finalize, Executing
<1>2. /\ mem[s].ended = NoExecution /\ mem[s].leased /\ mem[s] \in Memory
  <2>1. /\ mem[s].ended = NoExecution /\ mem[s].leased
        /\ mem[s].status \in {"active", "stopping"}
    BY <1>1 DEF LeaseInv, Fits
  <2> QED BY <2>1, MemoryType DEF Known
<1> DEFINE e == exec[s].ended
           blocked == e.result.status = "cleanup-blocked"
<1>3. e \in Executions /\ e # NoExecution /\ e.result.status \in ResultStatuses
  <2>1. e \in Executions
    BY <1>1 DEF Settled
  <2> QED BY <2>1, ExecutionType DEF Results
<1> HIDE DEF e
<1>4. CASE /\ Save(e)
           /\ mem' = [mem EXCEPT ![s].status = e.result.status, ![s].ended = e,
                                 ![s].leased = blocked]
           /\ holder' = IF blocked THEN holder ELSE Free
  <2> DEFINE run == [mem[s] EXCEPT !.status = e.result.status, !.ended = e,
                                   !.leased = blocked]
  <2>1. /\ run \in Memory /\ run.status = e.result.status /\ run.ended = e
        /\ run.leased = blocked
    BY <1>2, <1>3 DEF Memory
  <2>2. StoreTyped'
    <3>1. journal' \in Seq([type : EventTypes, attempt : Ordinals])
      BY <1>1, TypeParts DEF Typed, StoreTyped
    <3>2. snapshot' \in Saved
      BY <1>3, <1>4, <3>1, StoreWrites
    <3> QED BY <1>1, <3>1, <3>2, TypeParts DEF Typed, StoreTyped
  <2>3. mem' = [mem EXCEPT ![s] = run]
    BY <1>4
  <2>4. /\ run.ended # NoExecution /\ run.status \in ResultStatuses
        /\ run.status = run.ended.result.status
        /\ IF run.leased
           THEN run.status = "cleanup-blocked" /\ UNCHANGED holder
           ELSE holder' = Free
    BY <1>3, <1>4, <2>1
  <2> HIDE DEF run
  <2> QED BY <1>1, <2>1, <2>2, <2>3, <2>4, LeaseLeaveAttempt
<1>5. CASE /\ mem' = [mem EXCEPT ![s].status = "cleanup-blocked"]
           /\ UNCHANGED <<snapshot, holder>>
  <2> DEFINE run == [mem[s] EXCEPT !.status = "cleanup-blocked"]
  <2>1. /\ run \in Memory /\ run.status = "cleanup-blocked"
        /\ run.ended = NoExecution /\ run.leased
    BY <1>2 DEF Memory, ResultStatuses
  <2>2. mem' = [mem EXCEPT ![s] = run]
    BY <1>5
  <2>3. StoreTyped'
    BY <1>1, <1>5, TypeParts DEF Typed, StoreTyped
  <2> HIDE DEF run
  <2> QED BY <1>1, <1>5, <2>1, <2>2, <2>3, LeaseLeaveAttempt
<1> QED BY <1>4, <1>5 DEF Finalize, e

(* An interrupt or a shutdown marks the run stopping.                      *)
LEMMA LeaseSignal ==
  ASSUME TypeOK, LeaseInv, UNCHANGED adverse, NEW s \in Seats,
         NEW reason \in {"operator", "seat-shutdown"}, Signal(s, reason)
  PROVE  TypeOK' /\ LeaseInv' /\ Spares(s)
<1>1. /\ mem[s].status \in {"active", "stopping"} /\ mem[s] \in Memory
      /\ UNCHANGED <<adverse, holder, recorded, attempts, journal, snapshot,
                     trees, guests, seat, latest, op, rec, crashes>>
  BY MemoryType DEF Signal, Loaded, store, opening
<1>2. Typed
  BY TypeParts
<1>3. Fits(s) /\ Holds(s)
  BY DEF LeaseInv
<1>4. /\ exec[s].at # "idle" /\ exec[s] \in Attempting \cup Settled
      /\ exec[s] # Idle
  BY <1>1, <1>3, ExecType DEF Fits, Known
<1> DEFINE run == [mem[s] EXCEPT !.status = "stopping"]
<1>5. /\ run \in Memory /\ run.status = "stopping" /\ run.ended = mem[s].ended
      /\ run.leased = mem[s].leased /\ run.attempt = mem[s].attempt
      /\ mem' = [mem EXCEPT ![s] = run]
  BY <1>1 DEF Memory, Signal
<1> HIDE DEF run
<1>6. PICK x \in Attempting \cup Settled :
        x.attempt = exec[s].attempt /\ exec' = [exec EXCEPT ![s] = x]
  <2>1. CASE Executing(s, {"settled"})
    <3>1. exec' = [exec EXCEPT ![s] = exec[s]]
      BY <1>2, <2>1 DEF Signal, Typed
    <3> QED BY <1>4, <3>1
  <2>2. CASE ~Executing(s, {"settled"})
    <3> DEFINE x == [exec[s] EXCEPT !.signal = IF @ = "none" THEN reason ELSE @]
    <3>1. exec[s] \in Attempting
      BY <1>4, <2>2, ExecType DEF Executing, Settled
    <3>2. x \in Attempting /\ x.attempt = exec[s].attempt
      BY <3>1 DEF Attempting
    <3>3. exec' = [exec EXCEPT ![s] = x]
      BY <2>2 DEF Signal
    <3> HIDE DEF x
    <3> QED BY <3>2, <3>3
  <2> QED BY <2>1, <2>2
<1>7. StoreTyped'
  BY <1>1, <1>2 DEF Typed, StoreTyped
<1>8. Typed'
  BY <1>1, <1>2, <1>5, <1>6, <1>7 DEF Typed
<1>9. Spares(s)
  BY <1>1, <1>2, <1>5, <1>6 DEF Typed, Spares
<1>10. mem'[s] = run /\ exec'[s] = x /\ x.at # "idle"
  BY <1>2, <1>5, <1>6 DEF Typed, Attempting, Settled
<1>11. op[s].at = "idle" /\ (rec[s].at # "idle" => rec[s].via = "lost")
  BY <1>1, <1>3, <1>4 DEF Fits
<1>12. Fits(s)'
  BY <1>1, <1>3, <1>4, <1>5, <1>6, <1>10, <1>11 DEF Fits, Known, Ended
<1>13. Holds(s)'
  BY <1>1, <1>3, <1>5, <1>10, <1>11 DEF Holds, Known
<1> QED BY <1>8, <1>9, <1>12, <1>13, SparedKeep, TypeParts

(* The reconcile of a seat begins, goes on and ends.                       *)
LEMMA LeaseReconcileMove ==
  ASSUME TypeOK, LeaseInv, StoreTyped', NEW s \in Seats,
         UNCHANGED <<adverse, opening, mem, op, exec, crashes>>,
         NEW r \in {Idle} \cup Entered \cup Observed,
         rec' = [rec EXCEPT ![s] = r],
         \/ r = Idle /\ rec[s] # Idle /\ Done(s, rec[s].via)
         \/ /\ r # Idle /\ rec[s] # Idle /\ r.via = rec[s].via /\ UNCHANGED holder
         \/ /\ r # Idle /\ Known(s) /\ mem[s].status = "cleanup-blocked"
            /\ \/ r.via = "run" /\ mem[s].leased /\ UNCHANGED holder
               \/ /\ r.via = "rec" /\ ~mem[s].leased /\ holder = Free
                  /\ Hold(s, "rec")
  PROVE  TypeOK' /\ LeaseInv' /\ Spares(s)
<1>1. UNCHANGED <<adverse, seat, latest, mem, op, exec, crashes>>
  BY DEF opening
<1>2. Typed
  BY TypeParts
<1>3. Fits(s) /\ Holds(s)
  BY DEF LeaseInv
<1>4. rec'[s] = r /\ Idle.at = "idle" /\ (r.at = "idle" <=> r = Idle)
  BY <1>2 DEF Typed, Idle, Entered, Observed
<1>5. rec[s].at = "idle" <=> rec[s] = Idle
  BY RecType
<1>6. CASE r = Idle /\ rec[s] # Idle /\ Done(s, rec[s].via)
  <2>1. rec[s].via # "op"
    BY <1>6, RecType DEF Entered, Observed
  <2>2. /\ holder' = IF rec[s].via = "rec" THEN Free ELSE holder
        /\ rec[s].via = "rec" => holder = [seat |-> s, handle |-> "rec"]
    BY <1>3, <1>5, <1>6, <2>1 DEF Done, Holds
  <2>3. Typed'
    BY <1>1, <1>2, <2>2 DEF Typed
  <2>4. Spares(s)
    BY <1>1, <1>2, <2>2 DEF Typed, Spares
  <2>5. Fits(s)'
    BY <1>1, <1>3, <1>4, <1>6 DEF Fits, Known, Ended
  <2>6. Holds(s)'
    BY <1>1, <1>3, <1>4, <1>6, <2>2 DEF Holds, Known
  <2> QED BY <2>3, <2>4, <2>5, <2>6, SparedKeep, TypeParts
<1>7. CASE r # Idle /\ rec[s] # Idle /\ r.via = rec[s].via /\ UNCHANGED holder
  <2>1. Typed'
    BY <1>1, <1>2, <1>7 DEF Typed
  <2>2. Spares(s)
    BY <1>1, <1>2, <1>7 DEF Typed, Spares
  <2>3. Fits(s)'
    BY <1>1, <1>3, <1>4, <1>5, <1>7 DEF Fits, Known, Ended
  <2>4. Holds(s)'
    BY <1>1, <1>3, <1>4, <1>5, <1>7 DEF Holds, Known
  <2> QED BY <2>1, <2>2, <2>3, <2>4, SparedKeep, TypeParts
<1>8. CASE /\ r # Idle /\ Known(s) /\ mem[s].status = "cleanup-blocked"
           /\ \/ r.via = "run" /\ mem[s].leased /\ UNCHANGED holder
              \/ /\ r.via = "rec" /\ ~mem[s].leased /\ holder = Free
                 /\ Hold(s, "rec")
  <2>1. holder' \in {Free} \cup [seat : Seats, handle : Handles]
    BY <1>2, <1>8 DEF Typed, Hold, Handles
  <2>2. Typed'
    BY <1>1, <1>2, <2>1 DEF Typed
  <2>3. Spares(s)
    BY <1>1, <1>2, <1>8, SeatsAssumption DEF Typed, Spares, Free
  <2>4. Fits(s)'
    <3>1. seat[s] = "up"
      BY <1>3, <1>8 DEF Fits, Known, NoRun
    <3> QED BY <1>1, <1>3, <1>4, <1>8, <3>1 DEF Fits, Known, Ended
  <2>5. Holds(s)'
    <3>1. CASE r.via = "run" /\ mem[s].leased /\ UNCHANGED holder
      BY <1>1, <1>3, <1>4, <3>1 DEF Holds, Known
    <3>2. CASE r.via = "rec" /\ ~mem[s].leased /\ holder = Free /\ Hold(s, "rec")
      <4>1. \A h \in Handles : holder # [seat |-> s, handle |-> h]
        BY <3>2, SeatsAssumption DEF Free
      <4> QED BY <1>1, <1>3, <1>4, <3>2, <4>1 DEF Holds, Known, Hold, Handles
    <3> QED BY <1>8, <3>1, <3>2
  <2> QED BY <2>2, <2>3, <2>4, <2>5, SparedKeep, TypeParts
<1> QED BY <1>6, <1>7, <1>8

(* A reconcile begins with a lease of its own or the run's.                *)
LEMMA LeaseBeginReconcile ==
  ASSUME TypeOK, LeaseInv, UNCHANGED adverse, NEW s \in Seats,
         BeginReconcile(s)
  PROVE  TypeOK' /\ LeaseInv' /\ Spares(s)
<1>1. StoreTyped'
  BY TypeParts DEF Typed, StoreTyped, BeginReconcile, store
<1>2. Known(s) /\ mem[s].status = "cleanup-blocked"
  BY DEF BeginReconcile, Known
<1>3. UNCHANGED <<adverse, opening, mem, op, exec, crashes>>
  BY DEF BeginReconcile
<1>4. ASSUME NEW via \in {"run", "rec"},
             rec' = [rec EXCEPT ![s] = [at |-> "leased", via |-> via]],
             \/ via = "run" /\ mem[s].leased /\ UNCHANGED holder
             \/ via = "rec" /\ ~mem[s].leased /\ holder = Free /\ Hold(s, "rec")
      PROVE  TypeOK' /\ LeaseInv' /\ Spares(s)
  <2> DEFINE r == [at |-> "leased", via |-> via]
  <2>1. r \in Entered /\ r # Idle /\ r.via = via
    BY DEF Entered, Idle
  <2>2. rec' = [rec EXCEPT ![s] = r]
    BY <1>4
  <2> HIDE DEF r
  <2> QED BY <1>1, <1>2, <1>3, <1>4, <2>1, <2>2, LeaseReconcileMove
<1> QED BY <1>4 DEF BeginReconcile

(* A reconcile that throws ends without its lease.                         *)
LEMMA LeaseGiveUp ==
  ASSUME TypeOK, LeaseInv, StoreTyped', NEW s \in Seats,
         UNCHANGED <<adverse, opening, mem, op, exec, crashes>>,
         rec[s] # Idle, GiveUp(s)
  PROVE  TypeOK' /\ LeaseInv' /\ Spares(s)
BY LeaseReconcileMove DEF GiveUp

(* A reconcile looks around, or throws.                                    *)
LEMMA LeaseObserve ==
  ASSUME TypeOK, LeaseInv, UNCHANGED adverse, NEW s \in Seats, Observe(s)
  PROVE  TypeOK' /\ LeaseInv' /\ Spares(s)
<1>1. /\ rec[s] # Idle /\ rec[s].at = "leased" /\ rec[s] \in Entered
      /\ UNCHANGED <<adverse, store, opening, mem, op, exec, crashes>>
  BY RecType DEF Observe
<1>2. guests' \in [Ordinals -> Seats \cup {"none", "gone", "orphan"}]
  BY TypeParts DEF Typed, StoreTyped, Observe, GiveUp
<1>3. StoreTyped'
  BY <1>1, <1>2, TypeParts DEF Typed, StoreTyped, store
<1>4. CASE GiveUp(s)
  BY <1>1, <1>3, <1>4, LeaseGiveUp
<1>5. CASE ~GiveUp(s)
  <2>1. PICK r \in Observed :
          /\ rec' = [rec EXCEPT ![s] = r] /\ r.via = rec[s].via
          /\ UNCHANGED holder
    <3>1. PICK workspace \in WorkspaceSeen, evidence \in SessionEvidence,
               sandbox \in IF Has("sandbox-started") THEN {"proved", "unknown"}
                                                     ELSE {"not-needed"} :
            /\ rec' = [rec EXCEPT ![s] =
                  [at |-> "observed", via |-> rec[s].via, sandbox |-> sandbox,
                   workspace |-> workspace, pending |-> Pending,
                   session |-> evidence]]
            /\ UNCHANGED holder
      BY <1>5 DEF Observe
    <3>2. workspace \in Cleanups
      BY <3>1 DEF WorkspaceSeen, Cleanups
    <3>3. evidence \in {"absent", "valid", "unknown"}
      BY <3>1 DEF SessionEvidence
    <3>4. sandbox \in Cleanups
      BY <3>1 DEF Cleanups
    <3>5. Pending \in BOOLEAN
      BY DEF Pending
    <3> DEFINE r == [at |-> "observed", via |-> rec[s].via, sandbox |-> sandbox,
                     workspace |-> workspace, pending |-> Pending,
                     session |-> evidence]
    <3>6. r \in Observed /\ r.via = rec[s].via
      BY <1>1, <3>2, <3>3, <3>4, <3>5 DEF Observed, Entered
    <3> QED BY <3>1, <3>6
  <2>2. r # Idle
    BY <2>1, Idle.at = "idle" DEF Observed, Idle
  <2> QED BY <1>1, <1>3, <2>1, <2>2, LeaseReconcileMove
<1> QED BY <1>4, <1>5

(* A reconcile remembers what it found and frees the lease if it may.      *)
LEMMA LeaseFinishReconcile ==
  ASSUME TypeOK, LeaseInv, UNCHANGED adverse, NEW s \in Seats,
         FinishReconcile(s)
  PROVE  TypeOK' /\ LeaseInv' /\ Spares(s)
<1>1. /\ rec[s] # Idle /\ rec[s].at = "observed" /\ rec[s].at # "idle"
      /\ UNCHANGED <<adverse, recorded, attempts, trees, guests, opening, seat,
                     latest, exec, crashes>>
  BY DEF FinishReconcile, opening
<1>2. Typed
  BY TypeParts
<1>3. Fits(s) /\ Holds(s)
  BY DEF LeaseInv
<1>4. CASE GiveUp(s) /\ UNCHANGED <<journal, snapshot, mem, op>>
  <2>1. StoreTyped'
    BY <1>1, <1>2, <1>4 DEF Typed, StoreTyped
  <2> QED BY <1>1, <1>4, <2>1, LeaseGiveUp
<1>5. CASE ~(GiveUp(s) /\ UNCHANGED <<journal, snapshot, mem, op>>)
  <2> DEFINE e == Reconciled(s)
             free == Unblocked(s, e.result.status)
  <2>1. /\ rec[s].via # "lost" /\ IsRunResult(e.result)
        /\ \/ UNCHANGED journal \/ Write("run-abandoned", mem[s].attempt)
        /\ Save(e)
        /\ mem' = [mem EXCEPT ![s].status = e.result.status, ![s].ended = e,
                              ![s].leased = @ /\ ~free]
        /\ rec' = [rec EXCEPT ![s] = Idle]
        /\ holder' = IF free \/ rec[s].via = "rec" THEN Free ELSE holder
        /\ op' = IF free /\ op[s] # Idle /\ op[s].via = "run"
                 THEN [op EXCEPT ![s].via = "lost"] ELSE op
    BY <1>5 DEF FinishReconcile
  <2>2. e \in Executions /\ e # NoExecution /\ e.result.status \in ResultStatuses
    <3>1. e = Execution(e.result, e.session) /\ e.session \in BOOLEAN
      BY DEF Reconciled, Execution
    <3>2. e.result \in Results
      BY <2>1 DEF IsRunResult
    <3>3. Execution(e.result, e.session) \in Executions
      BY <3>1, <3>2, ExecutionType
    <3>4. e \in Executions
      <4> HIDE DEF e
      <4> QED BY <3>1, <3>3
    <3> HIDE DEF e
    <3> QED BY <3>2, <3>4, ExecutionType DEF Results
  <2> HIDE DEF e
  <2>3. /\ Known(s) /\ mem[s] \in Memory /\ seat[s] = "up"
        /\ mem[s].status = "cleanup-blocked"
    BY <1>1, <1>3, <2>1, MemoryType DEF Fits
  <2>4. exec[s].at = "idle"
    BY <1>3, <2>3 DEF Fits
  <2> DEFINE run == [mem[s] EXCEPT !.status = e.result.status, !.ended = e,
                                   !.leased = @ /\ ~free]
  <2>5. /\ run \in Memory /\ run.status = e.result.status /\ run.ended = e
        /\ run.leased = (mem[s].leased /\ ~free) /\ run.status # "none"
    BY <2>2, <2>3 DEF Memory, ResultStatuses
  <2>6. mem' = [mem EXCEPT ![s] = run]
    BY <2>1
  <2> HIDE DEF run
  <2>7. /\ mem[s].leased =>
             holder = [seat |-> s, handle |-> "run"] /\ rec[s].via = "run"
        /\ ~mem[s].leased =>
             holder = [seat |-> s, handle |-> "rec"] /\ rec[s].via = "rec" /\ ~free
    BY <1>1, <1>3, <2>1, <2>3, RecType
    DEF Holds, Unblocked, Entered, Observed
  <2>8. op[s] # Idle => op[s] \in Operation /\ op[s].at # "idle"
    BY OpType
  <2>9. op[s] # Idle => op[s].kind \in {"abandon", "release"}
    BY <1>3, <2>3, <2>8 DEF Fits, Operation, Starting
  <2>10. op[s] # Idle => op[s].kind = "release"
    <3>1. ASSUME op[s] # Idle, op[s].kind = "abandon" PROVE FALSE
      <4>1. /\ op[s].via \in {"op", "none"} /\ op[s].at = "abandoning"
            /\ op[s].via # "none"
        BY <1>3, <2>3, <2>8, <3>1 DEF Fits, Operation
      <4> QED BY <1>3, <2>7, <2>8, <3>1, <4>1 DEF Holds
    <3> QED BY <2>9, <3>1
  <2>11. PICK o \in {Idle} \cup Operation :
           /\ op' = [op EXCEPT ![s] = o]
           /\ \/ o = op[s] /\ (o = Idle \/ ~(free /\ o.via = "run"))
              \/ /\ op[s] # Idle /\ op[s].via = "run"
                 /\ o = [op[s] EXCEPT !.via = "lost"]
    <3>1. CASE free /\ op[s] # Idle /\ op[s].via = "run"
      <4> DEFINE o == [op[s] EXCEPT !.via = "lost"]
      <4>1. o \in Operation /\ op' = [op EXCEPT ![s] = o]
        BY <2>1, <2>8, <3>1 DEF Operation
      <4> HIDE DEF o
      <4> QED BY <3>1, <4>1 DEF o
    <3>2. CASE ~(free /\ op[s] # Idle /\ op[s].via = "run")
      <4>1. op' = [op EXCEPT ![s] = op[s]]
        BY <1>2, <2>1, <3>2 DEF Typed
      <4> QED BY <2>8, <3>2, <4>1
    <3> QED BY <3>1, <3>2
  <2>12. StoreTyped'
    <3>1. journal' \in Seq([type : EventTypes, attempt : Ordinals])
      <4>1. mem[s].attempt \in Ordinals
        BY <2>3 DEF Memory
      <4>2. CASE UNCHANGED journal
        BY <1>2, <4>2 DEF Typed, StoreTyped
      <4>3. CASE Write("run-abandoned", mem[s].attempt)
        BY <4>1, <4>3, StoreWrites DEF EventTypes
      <4> QED BY <2>1, <4>2, <4>3
    <3>2. snapshot' \in Saved
      BY <2>1, <2>2, <3>1, StoreWrites
    <3> QED BY <1>1, <1>2, <3>1, <3>2 DEF Typed, StoreTyped
  <2>13. Typed'
    <3>1. holder' \in {Free} \cup [seat : Seats, handle : Handles]
      BY <1>2, <2>1 DEF Typed
    <3>2. mem' \in [Seats -> {NoRun} \cup Memory]
      BY <1>2, <2>5, <2>6 DEF Typed
    <3>3. op' \in [Seats -> {Idle} \cup Operation]
      BY <1>2, <2>11 DEF Typed
    <3>4. rec' \in [Seats -> {Idle} \cup Entered \cup Observed]
      BY <1>2, <2>1 DEF Typed
    <3> QED BY <1>1, <1>2, <2>12, <3>1, <3>2, <3>3, <3>4 DEF Typed
  <2>14. Spares(s)
    BY <1>1, <1>2, <2>1, <2>6, <2>7, <2>11 DEF Typed, Spares
  <2>15. /\ mem'[s] = run /\ op'[s] = o /\ rec'[s] = Idle /\ Idle.at = "idle"
         /\ holder' = IF free \/ rec[s].via = "rec" THEN Free ELSE holder
    BY <1>2, <2>1, <2>6, <2>11 DEF Typed, Idle
  <2>16. \/ o = Idle /\ op[s] = Idle
         \/ /\ o.at # "idle" /\ op[s].at # "idle" /\ o.at = op[s].at
            /\ o.kind = "release" /\ op[s].kind = "release"
            /\ \/ o.via = op[s].via /\ ~(free /\ o.via = "run")
               \/ o.via = "lost" /\ op[s].via = "run"
    BY <2>8, <2>10, <2>11 DEF Operation
  <2>17. Fits(s)'
    BY <1>1, <1>3, <2>2, <2>3, <2>4, <2>5, <2>15, <2>16
    DEF Fits, Known, Ended, ResultStatuses, Starting, Unblocked
  <2>18. Holds(s)'
    <3>1. CASE mem[s].leased
      <4>1. holder' = IF free THEN Free ELSE holder
        BY <2>7, <2>15, <3>1
      <4>2. op[s].at # "idle" => op[s].via # "op"
        BY <1>3, <2>7, <3>1 DEF Holds
      <4>3. CASE free
        <5>1. op'[s].at # "idle" => op'[s].via \notin {"op", "run"}
          BY <2>15, <2>16, <4>2, <4>3
        <5> QED BY <1>1, <2>3, <2>5, <2>15, <4>3, <5>1 DEF Holds, Known
      <4>4. CASE ~free
        BY <1>1, <2>3, <2>5, <2>7, <2>15, <2>16, <3>1, <4>1, <4>2, <4>4
        DEF Holds, Known
      <4> QED BY <4>3, <4>4
    <3>2. CASE ~mem[s].leased
      <4>1. op[s].at # "idle" => op[s].via \notin {"op", "run"}
        BY <1>3, <2>7, <3>2 DEF Holds
      <4>2. op'[s].at # "idle" => op'[s].via \notin {"op", "run"}
        BY <2>15, <2>16, <4>1
      <4> QED BY <1>1, <2>3, <2>5, <2>15, <3>2, <4>2 DEF Holds, Known
    <3> QED BY <3>1, <3>2
  <2> QED BY <2>13, <2>14, <2>17, <2>18, SparedKeep, TypeParts
<1> QED BY <1>4, <1>5

(* Death and recovery.                                                     *)
LEMMA LeaseCrash ==
  ASSUME TypeOK, LeaseInv, UNCHANGED adverse, NEW s \in Seats, Crash(s)
  PROVE  TypeOK' /\ LeaseInv' /\ Spares(s)
<1>1. Typed
  BY TypeParts
<1>2. /\ UNCHANGED <<adverse, recorded, attempts, journal, snapshot, trees,
                     latest>>
      /\ crashes' = crashes + 1 /\ crashes < MaxCrashes
      /\ seat' = [seat EXCEPT ![s] = "down"]
      /\ holder' = IF holder.seat = s THEN Free ELSE holder
      /\ mem' = [mem EXCEPT ![s] = NoRun]
      /\ op' = [op EXCEPT ![s] = Idle]
      /\ rec' = [rec EXCEPT ![s] = Idle]
      /\ exec' = [exec EXCEPT ![s] = Idle]
  BY DEF Crash, store
<1>3. StoreTyped'
  <2>1. guests' \in [Ordinals -> Seats \cup {"none", "gone", "orphan"}]
    BY <1>1 DEF Typed, StoreTyped, Crash
  <2> QED BY <1>1, <1>2, <2>1 DEF Typed, StoreTyped
<1>4. Typed'
  BY <1>1, <1>2, <1>3, BoundsAssumption DEF Typed
<1>5. Spares(s)
  BY <1>1, <1>2 DEF Typed, Spares
<1>6. /\ seat'[s] = "down" /\ mem'[s] = NoRun /\ op'[s] = Idle /\ rec'[s] = Idle
      /\ exec'[s] = Idle /\ Idle.at = "idle" /\ NoRun.status = "none"
  BY <1>1, <1>2 DEF Typed, Idle, NoRun
<1>7. Fits(s)' /\ Holds(s)'
  BY <1>6 DEF Fits, Holds, Known
<1> QED BY <1>4, <1>5, <1>7, SparedKeep, TypeParts

(* A seat that opens the store reads the latest attempt.                   *)
LEMMA LeaseOpenStore ==
  ASSUME TypeOK, LeaseInv, UNCHANGED adverse, NEW s \in Seats, OpenStore(s)
  PROVE  TypeOK' /\ LeaseInv' /\ Spares(s)
<1>1. Typed
  BY TypeParts
<1>2. PICK place \in {"read", "up"} :
        /\ seat[s] = "down" /\ seat' = [seat EXCEPT ![s] = place]
        /\ latest' \in {latest, [latest EXCEPT ![s] = Len(attempts)]}
        /\ UNCHANGED <<adverse, holder, recorded, attempts, journal, snapshot,
                       trees, guests, mem, op, rec, exec, crashes>>
  BY DEF OpenStore, store
<1>3. Len(attempts) \in 0..MaxAttempts
  BY <1>1, BoundsAssumption DEF Typed, StoreTyped
<1>4. Typed'
  <2>1. StoreTyped'
    BY <1>1, <1>2 DEF Typed, StoreTyped
  <2>2. latest' \in [Seats -> 0..MaxAttempts]
    BY <1>1, <1>2, <1>3 DEF Typed
  <2>3. seat' \in [Seats -> {"down", "read", "leased", "up"}]
    BY <1>1, <1>2 DEF Typed
  <2> QED BY <1>1, <1>2, <2>1, <2>2, <2>3 DEF Typed
<1>5. Spares(s)
  BY <1>1, <1>2 DEF Typed, Spares
<1>6. /\ seat'[s] = place /\ mem'[s] = NoRun /\ op'[s] = Idle /\ rec'[s] = Idle
      /\ exec'[s] = Idle /\ Idle.at = "idle" /\ NoRun.status = "none"
  BY <1>1, <1>2 DEF Typed, Idle, NoRun, LeaseInv, Fits
<1>7. Fits(s)' /\ Holds(s)'
  BY <1>2, <1>6 DEF Fits, Holds, Known
<1> QED BY <1>4, <1>5, <1>7, SparedKeep, TypeParts

(* Recovery takes the lease when nobody holds it.                          *)
LEMMA LeaseLeaseRecovery ==
  ASSUME TypeOK, LeaseInv, UNCHANGED adverse, NEW s \in Seats,
         LeaseRecovery(s)
  PROVE  TypeOK' /\ LeaseInv' /\ Spares(s)
<1>1. Typed
  BY TypeParts
<1>2. /\ seat[s] = "read"
      /\ \/ /\ seat' = [seat EXCEPT ![s] = "leased"] /\ holder = Free
            /\ holder' = [seat |-> s, handle |-> "boot"]
         \/ seat' = [seat EXCEPT ![s] = "up"] /\ holder' = holder
      /\ UNCHANGED <<adverse, recorded, attempts, journal, snapshot, trees,
                     guests, latest, mem, op, rec, exec, crashes>>
  BY DEF LeaseRecovery, Hold, store
<1>3. StoreTyped'
  BY <1>1, <1>2 DEF Typed, StoreTyped
<1>4. Typed'
  BY <1>1, <1>2, <1>3 DEF Typed, Handles
<1>5. Spares(s)
  BY <1>1, <1>2, SeatsAssumption DEF Typed, Spares, Free
<1>6. /\ mem'[s] = NoRun /\ op'[s] = Idle /\ rec'[s] = Idle
      /\ exec'[s] = Idle /\ Idle.at = "idle" /\ NoRun.status = "none"
  BY <1>2 DEF Idle, NoRun, LeaseInv, Fits
<1>7. seat'[s] = "leased" => holder' = [seat |-> s, handle |-> "boot"]
  BY <1>1, <1>2 DEF Typed
<1>8. Fits(s)' /\ Holds(s)'
  BY <1>6, <1>7 DEF Fits, Holds, Known
<1> QED BY <1>4, <1>5, <1>8, SparedKeep, TypeParts

(* What a seat loads when it opens the store.                              *)
LEMMA RecoveryType ==
  ASSUME TypeOK, NEW s \in Seats
  PROVE  /\ RecoveredAttempt(s) \in Ordinals
         /\ Recovery(s).ended \in Executions
<1>1. Typed /\ StoreTyped
  BY TypeParts DEF Typed
<1>2. RecoveredAttempt(s) \in Ordinals
  BY <1>1, BoundsAssumption DEF Typed, RecoveredAttempt, Ordinals
<1>3. snapshot # NoSnapshot =>
        snapshot.result \in Results /\ snapshot.session \in BOOLEAN
  BY <1>1 DEF StoreTyped, Saved
<1>4. (snapshot # NoSnapshot /\ snapshot.session) \in BOOLEAN
  OBVIOUS
<1>5. ASSUME NEW sandbox \in Cleanups
      PROVE  Result("cleanup-blocked", "reconcile", sandbox, UnprovedTree)
               \in Results
  BY <1>5 DEF Result, Results, ResultStatuses, Retries, UnprovedTree, Cleanups
<1>6. CASE Pending
  <2> DEFINE sandbox == IF Covers(s) /\ Persisted THEN snapshot.result.sandbox
                                                  ELSE "unknown"
             r == Result("cleanup-blocked", "reconcile", sandbox, UnprovedTree)
  <2>1. sandbox \in Cleanups
    BY <1>3 DEF Persisted, Results, Cleanups
  <2>2. r \in Results
    BY <1>5, <2>1
  <2>3. Recovery(s).ended = Execution(r, FALSE)
    BY <1>6 DEF Recovery
  <2> HIDE DEF r
  <2> QED BY <1>2, <2>2, <2>3, ExecutionType
<1>7. CASE ~Pending /\ Has("run-abandoned")
  <2> DEFINE r == Result("abandoned", "never", "proved", ReleasedTree)
  <2>1. r \in Results
    BY DEF Result, Results, ResultStatuses, Retries, ReleasedTree, Cleanups
  <2>2. Recovery(s).ended = Execution(r, FALSE)
    BY <1>7 DEF Recovery
  <2> HIDE DEF r
  <2> QED BY <1>2, <2>1, <2>2, ExecutionType
<1>8. CASE ~Pending /\ ~Has("run-abandoned") /\ Covers(s) /\ Persisted
  <2>1. Recovery(s).ended = Execution(snapshot.result,
                                      snapshot # NoSnapshot /\ snapshot.session)
    BY <1>8 DEF Recovery
  <2> QED BY <1>2, <1>3, <1>4, <1>8, <2>1, ExecutionType DEF Persisted
<1>9. CASE ~Pending /\ ~Has("run-abandoned") /\ ~(Covers(s) /\ Persisted)
  <2> DEFINE r == Result("cleanup-blocked", "reconcile", "unknown", UnprovedTree)
  <2>1. r \in Results
    BY <1>5 DEF Cleanups
  <2>2. Recovery(s).ended = Execution(r, FALSE)
    BY <1>9 DEF Recovery
  <2> HIDE DEF r
  <2> QED BY <1>2, <2>1, <2>2, ExecutionType
<1> QED BY <1>6, <1>7, <1>8, <1>9

(* Recovery ends with the lease freed, or kept by a run that is blocked.   *)
LEMMA LeaseRecover ==
  ASSUME TypeOK, LeaseInv, UNCHANGED adverse, NEW s \in Seats, Recover(s)
  PROVE  TypeOK' /\ LeaseInv' /\ Spares(s)
<1>1. Typed
  BY TypeParts
<1> DEFINE e == Recovery(s).ended
           run == [status |-> e.result.status, attempt |-> RecoveredAttempt(s),
                   ended |-> e, leased |-> FALSE]
<1>2. /\ seat[s] = "leased" /\ seat' = [seat EXCEPT ![s] = "up"]
      /\ mem' = [mem EXCEPT ![s] = run]
      /\ UNCHANGED journal /\ (Save(e) \/ UNCHANGED snapshot)
      /\ holder' = Free
      /\ UNCHANGED <<adverse, recorded, attempts, trees, guests, latest, op, rec,
                     exec, crashes>>
  BY DEF Recover
<1>3. /\ e \in Executions /\ e # NoExecution /\ e.result.status \in ResultStatuses
      /\ RecoveredAttempt(s) \in Ordinals
  <2>1. e \in Executions /\ RecoveredAttempt(s) \in Ordinals
    BY RecoveryType
  <2> HIDE DEF e
  <2> QED BY <2>1, ExecutionType DEF Results
<1> HIDE DEF e
<1>4. /\ run \in Memory /\ run.status = e.result.status /\ run.ended = e
      /\ run.leased = FALSE
  BY <1>3 DEF Memory
<1> HIDE DEF run
<1>5. StoreTyped'
  <2>1. journal' \in Seq([type : EventTypes, attempt : Ordinals])
    BY <1>1, <1>2 DEF Typed, StoreTyped
  <2>2. snapshot' \in {NoSnapshot} \cup Saved
    BY <1>1, <1>2, <1>3, <2>1, StoreWrites DEF Typed, StoreTyped
  <2> QED BY <1>1, <1>2, <2>1, <2>2 DEF Typed, StoreTyped
<1>6. Typed'
  BY <1>1, <1>2, <1>4, <1>5 DEF Typed
<1>7. holder = [seat |-> s, handle |-> "boot"]
  BY <1>2 DEF LeaseInv, Holds
<1>8. Spares(s)
  BY <1>1, <1>2, <1>7 DEF Typed, Spares
<1>9. /\ seat'[s] = "up" /\ mem'[s] = run /\ op'[s] = Idle /\ rec'[s] = Idle
      /\ exec'[s] = Idle /\ Idle.at = "idle"
  BY <1>1, <1>2 DEF Typed, Idle, LeaseInv, Fits
<1>10. Fits(s)'
  BY <1>3, <1>4, <1>9 DEF Fits, Known, Ended, ResultStatuses
<1>11. Holds(s)'
  BY <1>4, <1>9 DEF Holds, Known
<1> QED BY <1>6, <1>8, <1>10, <1>11, SparedKeep, TypeParts

------------------------------------------------------------------------------
(* One step of the service.                                                *)
StepOf(s) ==
  \/ Check(s) \/ OpStep(s) \/ AttemptStep(s)
  \/ \E reason \in {"operator", "seat-shutdown"} : Signal(s, reason)
  \/ BeginReconcile(s) \/ ReconcileStep(s) \/ Crash(s) \/ OpenStep(s)

(* Every step of a seat keeps the lease in order and spares the others.    *)
LEMMA LeaseSeatStep ==
  ASSUME TypeOK, LeaseInv, UNCHANGED adverse, NEW s \in Seats, StepOf(s)
  PROVE  TypeOK' /\ LeaseInv' /\ Spares(s)
<1>1. CASE Check(s)
  BY <1>1, LeaseCheck
<1>2. CASE OpStep(s)
  BY <1>2, LeaseAcquire, LeaseFenced, LeasePrepare, LeaseRecordAttempt,
     LeaseExecute, LeaseBeginAbandon, LeaseFinishAbandon, LeaseReleaseTrees,
     LeaseFinishRelease
  DEF OpStep
<1>3. CASE AttemptStep(s)
  BY <1>3, LeaseEnterAttempt, LeaseBootVm, LeaseRecordVm, LeaseRecordSession,
     LeaseComplete, LeaseEndCleanly, LeaseEndBlocked, LeaseEndLeaked,
     LeaseEndThrown, LeaseFinalize
  DEF AttemptStep
<1>4. CASE \E reason \in {"operator", "seat-shutdown"} : Signal(s, reason)
  BY <1>4, LeaseSignal
<1>5. CASE BeginReconcile(s)
  BY <1>5, LeaseBeginReconcile
<1>6. CASE ReconcileStep(s)
  BY <1>6, LeaseObserve, LeaseFinishReconcile DEF ReconcileStep
<1>7. CASE Crash(s)
  BY <1>7, LeaseCrash
<1>8. CASE OpenStep(s)
  BY <1>8, LeaseOpenStore, LeaseLeaseRecovery, LeaseRecover DEF OpenStep
<1> QED BY <1>1, <1>2, <1>3, <1>4, <1>5, <1>6, <1>7, <1>8 DEF StepOf

(* A step of the system is one of a seat, or none.                         *)
LEMMA Steps ==
  [Next]_vars =>
    \/ /\ UNCHANGED <<adverse, holder, recorded, attempts, journal, snapshot>>
       /\ UNCHANGED <<trees, guests, seat, latest, mem, op, rec, exec, crashes>>
    \/ UNCHANGED adverse /\ \E s \in Seats : StepOf(s)
BY DEF Next, StepOf, vars, store, opening

(* Types and LeaseInv are inductive.                                       *)
LEMMA LeaseStep == TypeOK /\ LeaseInv /\ [Next]_vars => TypeOK' /\ LeaseInv'
<1>1. SUFFICES ASSUME TypeOK, LeaseInv, [Next]_vars PROVE TypeOK' /\ LeaseInv'
  OBVIOUS
<1>2. CASE /\ UNCHANGED <<adverse, holder, recorded, attempts, journal, snapshot>>
           /\ UNCHANGED <<trees, guests, seat, latest, mem, op, rec, exec,
                          crashes>>
  <2>1. Typed'
    BY <1>1, <1>2, TypeParts DEF Typed, StoreTyped
  <2>2. LeaseInv'
    BY <1>1, <1>2 DEF LeaseInv, Fits, Holds, Known, Ended
  <2> QED BY <2>1, <2>2, TypeParts
<1>3. CASE UNCHANGED adverse /\ \E s \in Seats : StepOf(s)
  BY <1>1, <1>3, LeaseSeatStep
<1> QED BY <1>1, <1>2, <1>3, Steps

(* The service's variables keep their types.                               *)
THEOREM ServiceTyped == Spec => []TypeOK
<1>1. Spec => [](TypeOK /\ LeaseInv)
  BY LeaseInit, LeaseStep, PTL DEF Spec
<1> QED BY <1>1, PTL

(* An attempt is executed under the run's lease until its result is in     *)
(* memory, with any number of seats and deaths.                            *)
THEOREM AttemptsUnderLease == Spec => []ExecutesUnderLease
<1>1. Spec => [](TypeOK /\ LeaseInv)
  BY LeaseInit, LeaseStep, PTL DEF Spec
<1>2. TypeOK /\ LeaseInv => ExecutesUnderLease
  <2>1. SUFFICES ASSUME TypeOK, LeaseInv, NEW s \in Seats, exec[s] # Idle
                 PROVE  holder = [seat |-> s, handle |-> "run"]
    BY DEF ExecutesUnderLease
  <2>2. exec[s].at # "idle" /\ Fits(s) /\ Holds(s)
    BY <2>1, ExecType DEF LeaseInv
  <2> QED BY <2>2 DEF Fits, Holds, Known
<1> QED BY <1>1, <1>2, PTL

------------------------------------------------------------------------------
(* Results: every one is valid, and unless cleanup is blocked its sandbox  *)
(* is proved gone, so that what release makes of it is valid too.          *)
Sound(r) == IsRunResult(r) /\ (r.status # "cleanup-blocked" => r.sandbox \in Clean)
SoundMem(s) == Ended(s) => Sound(mem[s].ended.result)
SoundExec(s) == exec[s].at = "settled" => Sound(exec[s].ended.result)
SoundSaved == snapshot # NoSnapshot => Sound(snapshot.result)
SoundInv == SoundSaved /\ \A s \in Seats : SoundMem(s) /\ SoundExec(s)

(* A step of one seat keeps SoundInv if it keeps that seat's part.         *)
LEMMA SoundKeep ==
  ASSUME SoundInv, NEW s \in Seats, Spares(s),
         SoundSaved', SoundMem(s)', SoundExec(s)'
  PROVE  SoundInv'
<1>1. SUFFICES ASSUME NEW t \in Seats PROVE SoundMem(t)' /\ SoundExec(t)'
  BY DEF SoundInv
<1>2. CASE t # s
  BY <1>2 DEF SoundInv, SoundMem, SoundExec, Spares, Ended, Known
<1> QED BY <1>2

(* A result that is saved, and one that a seat remembers.                  *)
LEMMA SoundSave ==
  ASSUME NEW e, Sound(e.result), Save(e)
  PROVE  SoundSaved'
BY DEF Save, SoundSaved

(* A seat that remembers an acceptable result.                             *)
LEMMA SoundRemember ==
  ASSUME TypeOK, NEW s \in Seats, NEW run, mem' = [mem EXCEPT ![s] = run],
         run.ended # NoExecution => Sound(run.ended.result)
  PROVE  SoundMem(s)'
<1>1. mem'[s] = run
  BY TypeParts DEF Typed
<1> QED BY <1>1 DEF SoundMem, Ended

(* Steps that leave results alone.                                         *)
LEMMA SoundSame ==
  ASSUME SoundInv, NEW s \in Seats, Spares(s), UNCHANGED snapshot,
         Ended(s)' => Ended(s) /\ mem'[s].ended = mem[s].ended,
         exec'[s] = exec[s] \/ exec'[s].at # "settled"
  PROVE  SoundInv'
<1>1. SoundSaved'
  BY DEF SoundInv, SoundSaved
<1>2. SoundMem(s)'
  BY DEF SoundInv, SoundMem
<1>3. SoundExec(s)'
  BY DEF SoundInv, SoundExec
<1> QED BY <1>1, <1>2, <1>3, SoundKeep

(* An attempt that settles with an acceptable result.                      *)
LEMMA SoundSettle ==
  ASSUME TypeOK, SoundInv, NEW s \in Seats, Spares(s),
         NEW result \in Results, Sound(result), Settle(s, result)
  PROVE  SoundInv'
<1> DEFINE e == Execution(result, exec[s].at = "session")
<1>1. e.result = result
  BY DEF Execution
<1>2. /\ UNCHANGED mem /\ Save(e)
      /\ exec' = [exec EXCEPT ![s] = [at |-> "settled",
                    attempt |-> exec[s].attempt, ended |-> e]]
  BY DEF Settle
<1> HIDE DEF e
<1>3. SoundSaved'
  BY <1>1, <1>2, SoundSave
<1>4. SoundMem(s)'
  BY <1>2 DEF SoundInv, SoundMem, Ended, Known
<1>5. exec'[s].ended = e
  BY <1>2, TypeParts DEF Typed
<1>6. SoundExec(s)'
  BY <1>1, <1>5 DEF SoundExec
<1> QED BY <1>3, <1>4, <1>6, SoundKeep

(* Steps of an attempt: every way it ends has an acceptable result.        *)
LEMMA SoundAttemptStep ==
  ASSUME Writing, TypeOK, LeaseInv, SoundInv, NEW s \in Seats, Spares(s),
         AttemptStep(s)
  PROVE  SoundInv'
<1> USE DEF Sound, IsRunResult, Proved, Clean, Result, Results, ResultStatuses,
            Retries, Cleanups
<1>1. CASE Complete(s)
  <2>1. Sound(Result("completed", "none", "proved", ReleasedTree))
    BY DEF ReleasedTree
  <2>2. Result("completed", "none", "proved", ReleasedTree) \in Results
    BY DEF ReleasedTree
  <2> QED BY <1>1, <2>1, <2>2, SoundSettle DEF Complete
<1>2. CASE EndCleanly(s)
  <2>1. PICK status \in {"failed", "cancelled", "interrupted"},
             retry \in {"manual", "never", "reconcile", "resume"},
             sandbox \in {"proved", "not-needed"},
             workspace \in {"not-needed", "retained", "proved"} :
          Settle(s, Result(status, retry, sandbox, workspace))
    BY <1>2 DEF EndCleanly
  <2>2. Sound(Result(status, retry, sandbox, workspace))
    OBVIOUS
  <2>3. Result(status, retry, sandbox, workspace) \in Results
    OBVIOUS
  <2> QED BY <2>1, <2>2, <2>3, SoundSettle
<1>3. CASE EndBlocked(s)
  <2>1. PICK sandbox \in {"blocked", "proved"},
             workspace \in {"retained", "not-needed", "blocked"} :
          /\ Settle(s, Result("cleanup-blocked", "reconcile", sandbox, workspace))
          /\ sandbox = "blocked" \/ workspace = "blocked"
    BY <1>3 DEF EndBlocked
  <2>2. Sound(Result("cleanup-blocked", "reconcile", sandbox, workspace))
    BY <2>1
  <2>3. Result("cleanup-blocked", "reconcile", sandbox, workspace) \in Results
    OBVIOUS
  <2> QED BY <2>1, <2>2, <2>3, SoundSettle
<1>4. CASE EndLeaked(s)
  <2>1. PICK workspace \in {"retained", "not-needed"} :
          Settle(s, Result("failed", "manual", "not-needed", workspace))
    BY <1>4 DEF EndLeaked
  <2>2. Sound(Result("failed", "manual", "not-needed", workspace))
    OBVIOUS
  <2>3. Result("failed", "manual", "not-needed", workspace) \in Results
    OBVIOUS
  <2> QED BY <2>1, <2>2, <2>3, SoundSettle
<1>5. CASE EnterAttempt(s) \/ BootVm(s) \/ RecordVm(s) \/ RecordSession(s)
  <2>1. UNCHANGED <<snapshot, mem>>
    BY <1>5 DEF EnterAttempt, BootVm, RecordVm, RecordSession, store
  <2>2. exec'[s].at # "settled"
    <3>1. /\ exec[s] \in Attempting
          /\ \E place \in {"started", "booted", "recorded", "session"} :
               exec' = [exec EXCEPT ![s].at = place]
      BY <1>5, ExecType
      DEF EnterAttempt, BootVm, RecordVm, RecordSession, Executing, Reach
    <3> QED BY <3>1, TypeParts DEF Typed, Attempting
  <2>3. Ended(s)' => Ended(s) /\ mem'[s].ended = mem[s].ended
    BY <2>1 DEF Ended, Known
  <2> QED BY <2>1, <2>2, <2>3, SoundSame
<1>6. CASE EndThrown(s)
  <2>1. UNCHANGED snapshot /\ exec' = [exec EXCEPT ![s] = Idle]
        /\ mem' = [mem EXCEPT ![s].status = "cleanup-blocked"]
        /\ exec[s].at # "idle"
    BY <1>6 DEF EndThrown, store, Executing
  <2>2. mem[s].status \in {"active", "stopping"} /\ mem[s] \in Memory
    BY <2>1, MemoryType DEF LeaseInv, Fits, Known
  <2>3. Ended(s)' => Ended(s) /\ mem'[s].ended = mem[s].ended
    BY <2>1, <2>2, TypeParts DEF Typed, Memory, Known, Ended
  <2>4. exec'[s].at # "settled"
    BY <2>1, TypeParts DEF Typed, Idle
  <2> QED BY <2>1, <2>3, <2>4, SoundSame
<1>7. CASE Finalize(s)
  <2>1. exec[s].at = "settled" /\ exec' = [exec EXCEPT ![s] = Idle]
    BY <1>7 DEF Finalize, Executing
  <2>2. Sound(exec[s].ended.result)
    BY <2>1 DEF SoundInv, SoundExec
  <2>3. mem[s].status \in {"active", "stopping"} /\ mem[s] \in Memory
    BY <2>1, MemoryType DEF LeaseInv, Fits, Known
  <2>4. exec'[s].at # "settled"
    BY <2>1, TypeParts DEF Typed, Idle
  <2> DEFINE e == exec[s].ended
             blocked == e.result.status = "cleanup-blocked"
             run == [mem[s] EXCEPT !.status = e.result.status, !.ended = e,
                                   !.leased = blocked]
  <2>5. CASE Save(e) /\ mem' = [mem EXCEPT ![s] = run]
    <3>1. run.ended = e
      BY <2>3 DEF Memory
    <3> HIDE DEF run, e, Sound
    <3>2. Sound(e.result)
      BY <2>2 DEF e
    <3>3. SoundSaved' /\ SoundMem(s)'
      BY <2>5, <3>1, <3>2, SoundSave, SoundRemember
    <3>4. SoundExec(s)'
      BY <2>4 DEF SoundExec
    <3> QED BY <3>3, <3>4, SoundKeep
  <2>6. CASE /\ mem' = [mem EXCEPT ![s].status = "cleanup-blocked"]
             /\ UNCHANGED snapshot
    <3>1. Ended(s)' => Ended(s) /\ mem'[s].ended = mem[s].ended
      BY <2>3, <2>6, TypeParts DEF Typed, Memory, Known, Ended
    <3> QED BY <2>4, <2>6, <3>1, SoundSame
  <2> QED BY <1>7, <2>5, <2>6 DEF Finalize
<1> QED BY <1>1, <1>2, <1>3, <1>4, <1>5, <1>6, <1>7 DEF AttemptStep

(* Steps of an operation.                                                  *)
LEMMA SoundOpStep ==
  ASSUME Writing, TypeOK, LeaseInv, SoundInv, NEW s \in Seats, Spares(s),
         OpStep(s)
  PROVE  SoundInv'
<1>1. CASE Acquire(s) \/ Fenced(s) \/ Prepare(s) \/ RecordAttempt(s)
           \/ ReleaseTrees(s)
  <2>1. UNCHANGED <<snapshot, mem, exec>>
    BY <1>1 DEF Acquire, Fenced, Prepare, RecordAttempt, ReleaseTrees, store
  <2> QED BY <2>1, SoundSame DEF Ended, Known
<1>2. CASE Execute(s)
  <2>1. UNCHANGED snapshot
    BY <1>2 DEF Execute, store
  <2>2. CASE UNCHANGED <<exec, mem>>
    BY <2>1, <2>2, SoundSame DEF Ended, Known
  <2>3. CASE /\ mem' = [mem EXCEPT ![s] = [status |-> "active",
                  attempt |-> op[s].ordinal, ended |-> NoExecution,
                  leased |-> TRUE]]
             /\ exec' = [exec EXCEPT ![s] = [at |-> "entered",
                  attempt |-> op[s].ordinal, signal |-> "none"]]
    <3>1. mem'[s].ended = NoExecution /\ exec'[s].at = "entered"
      BY <2>3, TypeParts DEF Typed
    <3> QED BY <2>1, <3>1, SoundSame DEF Ended
  <2> QED BY <1>2, <2>2, <2>3 DEF Execute
<1>3. ASSUME op[s].at # "idle", op[s].kind = "abandon"
      PROVE  /\ mem[s] \in Memory /\ mem[s].ended # NoExecution
             /\ mem[s].ended.result.sandbox \in Clean
  BY <1>3, MemoryType DEF LeaseInv, Fits, Ended
<1>4. ASSUME NEW status, NEW e, Remember(s, status, e), mem[s] \in Memory,
             Sound(e.result), UNCHANGED exec, Save(e) \/ UNCHANGED snapshot
      PROVE  SoundInv'
  <2>1. mem'[s].ended = e
    BY <1>4, TypeParts DEF Remember, Typed, Memory
  <2>2. SoundMem(s)' /\ SoundExec(s)'
    BY <1>4, <2>1 DEF SoundMem, SoundInv, SoundExec
  <2>3. SoundSaved'
    BY <1>4, SoundSave DEF SoundInv, SoundSaved
  <2> QED BY <2>2, <2>3, SoundKeep
<1>5. CASE BeginAbandon(s)
  <2>1. /\ op[s].at # "idle" /\ op[s].kind = "abandon"
        /\ UNCHANGED <<snapshot, exec>>
    BY <1>5 DEF BeginAbandon, At
  <2>2. CASE UNCHANGED mem
    BY <2>1, <2>2, SoundSame DEF Ended, Known
  <2> DEFINE r == Result("cleanup-blocked", "reconcile",
                         mem[s].ended.result.sandbox, UnprovedTree)
             e == Execution(r, FALSE)
  <2>3. CASE Remember(s, "cleanup-blocked", e)
    <3>1. Sound(r)
      BY <1>3, <2>1
      DEF Sound, IsRunResult, Proved, Clean, Result, Results, ResultStatuses,
          Retries, Cleanups, UnprovedTree
    <3>2. e.result = r
      BY DEF Execution
    <3> HIDE DEF e, r
    <3> QED BY <1>3, <1>4, <2>1, <2>3, <3>1, <3>2
  <2> QED BY <1>5, <2>2, <2>3 DEF BeginAbandon
<1>6. CASE FinishAbandon(s)
  <2>1. op[s].at # "idle" /\ op[s].kind = "abandon" /\ UNCHANGED exec
    BY <1>6 DEF FinishAbandon, At
  <2> DEFINE sandbox == mem[s].ended.result.sandbox
             ra == Result("abandoned", "never", sandbox, ReleasedTree)
             rb == Result("cleanup-blocked", "reconcile", sandbox, "unknown")
             ea == Execution(ra, FALSE)
             eb == Execution(rb, FALSE)
  <2>2. Sound(ra) /\ Sound(rb)
    BY <1>3, <2>1
    DEF Sound, IsRunResult, Proved, Clean, Result, Results, ResultStatuses,
        Retries, Cleanups, ReleasedTree
  <2>3. ea.result = ra /\ eb.result = rb
    BY DEF Execution
  <2>4. \/ Remember(s, "abandoned", ea) /\ (Save(ea) \/ UNCHANGED snapshot)
        \/ Remember(s, "cleanup-blocked", eb) /\ Save(eb)
    BY <1>6 DEF FinishAbandon
  <2> HIDE DEF ea, eb, ra, rb
  <2> QED BY <1>3, <1>4, <2>1, <2>2, <2>3, <2>4
<1>7. CASE FinishRelease(s)
  <2>1. /\ op[s].at # "idle" /\ op[s].kind = "release" /\ UNCHANGED exec
    BY <1>7 DEF FinishRelease, At
  <2>2. CASE mem[s].ended = NoExecution
    <3>1. UNCHANGED <<snapshot, mem>>
      BY <1>7, <2>2 DEF FinishRelease
    <3> QED BY <2>1, <3>1, SoundSame DEF Ended, Known
  <2>3. CASE mem[s].ended # NoExecution
    <3>1. Known(s) /\ mem[s] \in Memory
      BY <2>1, MemoryType DEF LeaseInv, Fits, Starting
    <3> DEFINE old == mem[s].ended
               proved == old.result.sandbox \in {"proved", "not-needed"}
               result ==
                 IF Pending THEN old.result
                 ELSE [old.result EXCEPT
                         !.workspace = ReleasedTree,
                         !.status = IF @ = "cleanup-blocked" /\ proved
                                    THEN "failed" ELSE @]
               e == Execution(result, old.session /\ result.status # "abandoned")
               free == Unblocked(s, result.status)
    <3>2. Sound(old.result) /\ old.result \in Results
      BY <2>3, <3>1 DEF SoundInv, SoundMem, Ended, Sound, IsRunResult
    <3>3. Sound(result)
      <4> HIDE DEF old
      <4> QED BY <3>2
          DEF Sound, IsRunResult, Proved, Clean, Results, ResultStatuses,
              Retries, Cleanups, ReleasedTree
    <3>4. e.result = result
      BY DEF Execution
    <3>5. /\ Save(e)
          /\ mem' = [mem EXCEPT ![s].status = result.status, ![s].ended = e,
                                ![s].leased = @ /\ ~free]
      BY <1>7, <2>3 DEF FinishRelease
    <3> HIDE DEF e, result, free
    <3>6. mem'[s].ended = e
      BY <3>1, <3>5, TypeParts DEF Typed, Memory
    <3>7. SoundSaved'
      BY <3>3, <3>4, <3>5, SoundSave
    <3>8. SoundMem(s)' /\ SoundExec(s)'
      BY <2>1, <3>3, <3>4, <3>6 DEF SoundMem, SoundInv, SoundExec
    <3> QED BY <3>7, <3>8, SoundKeep
  <2> QED BY <2>2, <2>3
<1> QED BY <1>1, <1>2, <1>5, <1>6, <1>7 DEF OpStep

(* What reconcile makes of its observations, when isRunResult accepts it.  *)
LEMMA ReconciledSound ==
  ASSUME NEW s \in Seats, IsRunResult(Reconciled(s).result)
  PROVE  Sound(Reconciled(s).result)
BY DEF Reconciled, Sound, Clean, Proved, Execution, Result

(* Steps of a reconcile: what it makes of what it saw is acceptable.       *)
LEMMA SoundReconcileStep ==
  ASSUME TypeOK, LeaseInv, SoundInv, NEW s \in Seats, Spares(s),
         ReconcileStep(s)
  PROVE  SoundInv'
<1>1. CASE Observe(s)
  <2>1. UNCHANGED <<snapshot, mem, exec>>
    BY <1>1 DEF Observe, store
  <2> QED BY <2>1, SoundSame DEF Ended, Known
<1>2. CASE FinishReconcile(s)
  <2>1. UNCHANGED exec /\ rec[s].at # "idle"
    BY <1>2 DEF FinishReconcile
  <2> DEFINE e == Reconciled(s)
             free == Unblocked(s, e.result.status)
  <2>2. CASE UNCHANGED <<snapshot, mem>>
    BY <2>1, <2>2, SoundSame DEF Ended, Known
  <2>3. CASE /\ IsRunResult(e.result) /\ Save(e)
             /\ mem' = [mem EXCEPT ![s].status = e.result.status, ![s].ended = e,
                                   ![s].leased = @ /\ ~free]
    <3>1. mem[s] \in Memory
      BY <2>1, MemoryType DEF LeaseInv, Fits
    <3>2. Sound(e.result)
      BY <2>3, ReconciledSound
    <3> HIDE DEF e, free
    <3>3. mem'[s].ended = e
      BY <2>3, <3>1, TypeParts DEF Typed, Memory
    <3>4. SoundSaved'
      BY <2>3, <3>2, SoundSave
    <3>5. SoundMem(s)' /\ SoundExec(s)'
      BY <2>1, <3>2, <3>3 DEF SoundMem, SoundInv, SoundExec
    <3> QED BY <3>4, <3>5, SoundKeep
  <2> QED BY <1>2, <2>2, <2>3 DEF FinishReconcile
<1> QED BY <1>1, <1>2 DEF ReconcileStep

(* What a seat loads when it opens the store.                              *)
LEMMA RecoverySound ==
  ASSUME Writing, SoundInv, NEW s \in Seats
  PROVE  Sound(Recovery(s).ended.result)
<1>1. ASSUME NEW sandbox \in Cleanups
      PROVE  Sound(Result("cleanup-blocked", "reconcile", sandbox, UnprovedTree))
  BY <1>1 DEF Result, Results, ResultStatuses, Retries, UnprovedTree, Cleanups,
              Sound, IsRunResult, Proved
<1>2. CASE Pending
  <2> DEFINE sandbox == IF Covers(s) /\ Persisted THEN snapshot.result.sandbox
                                                  ELSE "unknown"
             r == Result("cleanup-blocked", "reconcile", sandbox, UnprovedTree)
  <2>1. sandbox \in Cleanups
    BY DEF Persisted, IsRunResult, Results, Cleanups
  <2>2. Sound(r)
    BY <1>1, <2>1
  <2>3. Recovery(s).ended = Execution(r, FALSE)
    BY <1>2 DEF Recovery
  <2> HIDE DEF r
  <2> QED BY <2>2, <2>3 DEF Execution
<1>3. CASE ~Pending /\ Has("run-abandoned")
  <2> DEFINE r == Result("abandoned", "never", "proved", ReleasedTree)
  <2>1. Sound(r)
    BY DEF Result, Results, ResultStatuses, Retries, ReleasedTree, Cleanups,
           Sound, IsRunResult, Proved, Clean
  <2>2. Recovery(s).ended = Execution(r, FALSE)
    BY <1>3 DEF Recovery
  <2> HIDE DEF r
  <2> QED BY <2>1, <2>2 DEF Execution
<1>4. CASE ~Pending /\ ~Has("run-abandoned") /\ Covers(s) /\ Persisted
  <2>1. Recovery(s).ended = Execution(snapshot.result,
                                      snapshot # NoSnapshot /\ snapshot.session)
    BY <1>4 DEF Recovery
  <2>2. Recovery(s).ended.result = snapshot.result
    BY <2>1 DEF Execution
  <2> QED BY <1>4, <2>2 DEF SoundInv, SoundSaved, Persisted
<1>5. CASE ~Pending /\ ~Has("run-abandoned") /\ ~(Covers(s) /\ Persisted)
  <2> DEFINE r == Result("cleanup-blocked", "reconcile", "unknown", UnprovedTree)
  <2>1. Sound(r)
    BY <1>1 DEF Cleanups
  <2>2. Recovery(s).ended = Execution(r, FALSE)
    BY <1>5 DEF Recovery
  <2> HIDE DEF r
  <2> QED BY <2>1, <2>2 DEF Execution
<1> QED BY <1>2, <1>3, <1>4, <1>5

(* SoundInv is inductive for runs with a worktree.                         *)
LEMMA SoundStep ==
  ASSUME Writing, TypeOK, LeaseInv, SoundInv, [Next]_vars
  PROVE  SoundInv'
<1>1. CASE /\ UNCHANGED <<adverse, holder, recorded, attempts, journal, snapshot>>
           /\ UNCHANGED <<trees, guests, seat, latest, mem, op, rec, exec,
                          crashes>>
  BY <1>1 DEF SoundInv, SoundSaved, SoundMem, SoundExec, Ended, Known
<1>2. ASSUME UNCHANGED adverse, NEW s \in Seats, StepOf(s) PROVE SoundInv'
  <2>1. Spares(s)
    BY <1>2, LeaseSeatStep
  <2>2. CASE Check(s) \/ BeginReconcile(s)
    <3>1. UNCHANGED <<snapshot, mem, exec>>
      BY <2>2 DEF Check, CheckLaunch, CheckRetry, CheckResume, CheckAbandon,
                  CheckRelease, Begin, BeginReconcile, store
    <3> QED BY <2>1, <3>1, SoundSame DEF Ended, Known
  <2>3. CASE \E reason \in {"operator", "seat-shutdown"} : Signal(s, reason)
    <3>1. PICK reason \in {"operator", "seat-shutdown"} : Signal(s, reason)
      BY <2>3
    <3>2. /\ UNCHANGED snapshot /\ mem[s].status \in {"active", "stopping"}
          /\ mem' = [mem EXCEPT ![s].status = "stopping"]
      BY <3>1 DEF Signal, store
    <3>3. mem[s] \in Memory /\ Known(s)
      BY <3>2, MemoryType DEF Known
    <3>4. Ended(s)' => Ended(s) /\ mem'[s].ended = mem[s].ended
      BY <3>2, <3>3, TypeParts DEF Typed, Memory, Known, Ended
    <3>5. exec'[s] = exec[s] \/ exec'[s].at # "settled"
      <4>1. exec[s].at # "idle"
        BY <3>2, <3>3 DEF LeaseInv, Fits
      <4>2. CASE exec[s].at = "settled"
        <5>1. exec[s] # Idle
          BY <4>2 DEF Idle
        <5>. QED BY <3>1, <4>2, <5>1 DEF Signal, Executing
      <4>3. CASE exec[s].at # "settled"
        <5>1. exec[s] \in Attempting
          BY <4>1, <4>3, ExecType DEF Settled
        <5>2. exec' = [exec EXCEPT ![s].signal =
                         IF @ = "none" THEN reason ELSE @]
          BY <3>1, <4>3 DEF Signal, Executing
        <5>3. exec'[s].at = exec[s].at
          BY <5>1, <5>2, TypeParts DEF Typed, Attempting
        <5> QED BY <4>3, <5>3
      <4> QED BY <4>2, <4>3
    <3> QED BY <2>1, <3>2, <3>4, <3>5, SoundSame
  <2>4. CASE Crash(s)
    <3>1. /\ UNCHANGED snapshot /\ mem' = [mem EXCEPT ![s] = NoRun]
          /\ exec' = [exec EXCEPT ![s] = Idle]
      BY <2>4 DEF Crash, store
    <3>2. mem'[s].status = "none" /\ exec'[s].at = "idle"
      BY <3>1, TypeParts DEF Typed, NoRun, Idle
    <3> QED BY <2>1, <3>1, <3>2, SoundSame DEF Ended, Known
  <2>5. CASE OpenStore(s) \/ LeaseRecovery(s)
    <3>1. UNCHANGED <<snapshot, mem, exec>>
      BY <2>5 DEF OpenStore, LeaseRecovery, store
    <3> QED BY <2>1, <3>1, SoundSame DEF Ended, Known
  <2>6. CASE Recover(s)
    <3> DEFINE e == Recovery(s).ended
               run == [status |-> e.result.status,
                       attempt |-> RecoveredAttempt(s), ended |-> e,
                       leased |-> FALSE]
    <3>1. /\ mem' = [mem EXCEPT ![s] = run]
          /\ Save(e) \/ UNCHANGED snapshot
          /\ UNCHANGED exec
      BY <2>6 DEF Recover
    <3>2. Sound(e.result) /\ run.ended = e
      BY RecoverySound
    <3> HIDE DEF e, run
    <3>3. SoundMem(s)'
      BY <3>1, <3>2, SoundRemember
    <3>4. SoundSaved'
      BY <3>1, <3>2, SoundSave DEF SoundInv, SoundSaved
    <3>5. SoundExec(s)'
      BY <3>1 DEF SoundInv, SoundExec
    <3> QED BY <2>1, <3>3, <3>4, <3>5, SoundKeep
  <2>7. CASE OpStep(s)
    BY <2>1, <2>7, SoundOpStep
  <2>8. CASE AttemptStep(s)
    BY <2>1, <2>8, SoundAttemptStep
  <2>9. CASE ReconcileStep(s)
    BY <2>1, <2>9, SoundReconcileStep
  <2> QED BY <1>2, <2>2, <2>3, <2>4, <2>5, <2>6, <2>7, <2>8, <2>9
          DEF StepOf, OpenStep
<1> QED BY <1>1, <1>2, Steps

(* A run with a worktree: every result a seat shows or the store keeps is  *)
(* one isRunResult accepts.                                                *)
THEOREM ResultsStayValid ==
  ASSUME Writing PROVE Spec => []ResultsAreValid
<1>1. Init => SoundInv
  BY DEF Init, SoundInv, SoundSaved, SoundMem, SoundExec, Ended, Known, NoRun,
         Idle
<1>2. TypeOK /\ LeaseInv /\ SoundInv /\ [Next]_vars
        => TypeOK' /\ LeaseInv' /\ SoundInv'
  BY SoundStep, LeaseStep
<1>3. TypeOK /\ LeaseInv /\ SoundInv => ResultsAreValid
  <2>1. SUFFICES ASSUME TypeOK, LeaseInv, SoundInv PROVE ResultsAreValid
    OBVIOUS
  <2>2. snapshot # NoSnapshot => IsRunResult(snapshot.result)
    BY <2>1 DEF SoundInv, SoundSaved, Sound
  <2>3. ASSUME NEW s \in Seats, mem[s] # NoRun, mem[s].ended # NoExecution
        PROVE  /\ IsRunResult(mem[s].ended.result)
               /\ mem[s].status \in {mem[s].ended.result.status,
                                     "cleanup-blocked"}
    <3>1. Ended(s) /\ Fits(s)
      BY <2>1, <2>3, MemoryType DEF LeaseInv, Ended
    <3> QED BY <2>1, <2>3, <3>1 DEF SoundInv, SoundMem, Sound, Fits, Ended
  <2> QED BY <2>2, <2>3 DEF ResultsAreValid
<1> QED BY <1>1, <1>2, <1>3, LeaseInit, PTL DEF Spec

------------------------------------------------------------------------------
(* The lineage of attempts, where seats are prompt: whoever starts an      *)
(* attempt starts the next one, and only the latest is started or executed. *)
Latest == Len(attempts)
Started(n) == \E i \in Positions("attempt-starting") : journal[i].attempt = n

(* The records and the journal of the attempts.                            *)
Lineage ==
  /\ \A n \in 1..Latest : attempts[n].tree \in Ordinals
  /\ \A i \in DOMAIN journal :
       journal[i].type \in {"attempt-starting", "sandbox-started"} =>
         journal[i].attempt <= Latest
  /\ attempts # <<>> => recorded
  /\ recorded => trees[1] # "none"

(* Where a seat may be in it.                                              *)
Place(s) ==
  /\ seat[s] \in {"read", "leased"} => recorded /\ latest[s] = Latest
  /\ Known(s) => /\ recorded
                 /\ mem[s].attempt <= Latest \/ (Latest = 0 /\ mem[s].attempt = 1)
  /\ op[s].at # "idle" =>
       /\ op[s].kind = "launch" => op[s].ordinal = 1
       /\ op[s].kind = "launch" /\ op[s].at \in {"checked", "leased"} =>
            op[s].tree = 0
       /\ op[s].kind = "resume" => op[s].tree \in Ordinals
       /\ op[s].kind \in {"retry", "resume"} => mem[s].attempt + 1 = op[s].ordinal
       /\ op[s].kind \in {"retry", "resume"} /\ op[s].at \in {"checked", "leased"}
            => op[s].ordinal = Latest + 1
       /\ op[s].kind \in {"retry", "resume"} =>
            op[s].prior \in {"failed", "interrupted"}
       /\ op[s].kind \in {"abandon", "release"} /\ op[s].via # "lost" =>
            mem[s].attempt = Latest
  /\ Starts(s, {"prepared", "recorded"}) => recorded /\ op[s].tree \in Ordinals
  /\ Starts(s, {"prepared"}) => op[s].ordinal = Latest + 1
  /\ Starts(s, {"recorded"}) => op[s].ordinal = Latest /\ ~Started(Latest)
  /\ exec[s].at # "idle" => exec[s].attempt = Latest
  /\ exec[s].at = "entered" => ~Started(Latest)

(* Other seats are behind whoever starts an attempt.                       *)
Behind(s) ==
  /\ Starts(s, {"prepared"}) /\ Latest = 0 => \A t \in Seats : ~Known(t)
  /\ Starts(s, {"recorded"}) \/ exec[s].at # "idle" =>
       \A t \in Seats \ {s} : Known(t) => mem[t].attempt < Latest

LineageInv == Lineage /\ \A s \in Seats : Place(s) /\ Behind(s)

(* The journal, one entry later.                                           *)
LEMMA Appended ==
  ASSUME TypeOK, NEW type \in EventTypes, NEW n \in Ordinals, Write(type, n)
  PROVE  /\ Len(journal) \in Nat /\ DOMAIN journal = 1..Len(journal)
         /\ Len(journal') = Len(journal) + 1
         /\ DOMAIN journal' = DOMAIN journal \cup {Len(journal) + 1}
         /\ \A i \in DOMAIN journal : journal'[i] = journal[i]
         /\ journal'[Len(journal) + 1] = Event(type, n)
         /\ \A x : Positions(x)' = Positions(x) \cup
              (IF x = type THEN {Len(journal) + 1} ELSE {})
<1>1. journal \in Seq([type : EventTypes, attempt : Ordinals])
  BY TypeParts DEF Typed, StoreTyped
<1>2. Event(type, n) \in [type : EventTypes, attempt : Ordinals]
  BY DEF Event
<1>3. /\ Len(journal) \in Nat /\ DOMAIN journal = 1..Len(journal)
      /\ Len(journal') = Len(journal) + 1
      /\ DOMAIN journal' = 1..(Len(journal) + 1)
      /\ \A i \in DOMAIN journal : journal'[i] = journal[i]
      /\ journal'[Len(journal) + 1] = Event(type, n)
  BY <1>1, <1>2, AppendProperties DEF Write
<1>4. DOMAIN journal' = DOMAIN journal \cup {Len(journal) + 1}
  BY <1>3
<1>5. Event(type, n).type = type
  BY DEF Event
<1>6. \A x : Positions(x)' = Positions(x) \cup
               (IF x = type THEN {Len(journal) + 1} ELSE {})
  BY <1>3, <1>4, <1>5 DEF Positions
<1> QED BY <1>3, <1>4, <1>6

(* The journal and the attempts, one by one.                               *)
LEMMA Entries ==
  ASSUME TypeOK
  PROVE  /\ Len(journal) \in Nat /\ DOMAIN journal = 1..Len(journal)
         /\ \A i \in DOMAIN journal :
              journal[i].type \in EventTypes /\ journal[i].attempt \in Ordinals
         /\ Latest \in 0..MaxAttempts /\ DOMAIN attempts = 1..Latest
         /\ MaxAttempts \in Nat /\ 1 \in Ordinals
         /\ \A n \in Ordinals : n \in Nat /\ n >= 1 /\ n <= MaxAttempts
<1>1. /\ journal \in Seq([type : EventTypes, attempt : Ordinals])
      /\ attempts \in Seq([kind : Starting, tree : 0..MaxAttempts])
      /\ Len(attempts) <= MaxAttempts
  BY TypeParts DEF Typed, StoreTyped
<1>2. \A i \in 1..Len(journal) : journal[i] \in [type : EventTypes, attempt : Ordinals]
  BY <1>1, ElementOfSeq
<1>3. MaxAttempts \in Nat /\ MaxAttempts # 0
  BY BoundsAssumption
<1>4. \A n \in Ordinals : n \in Nat /\ n >= 1 /\ n <= MaxAttempts
  BY <1>3 DEF Ordinals
<1>5. 1 \in Ordinals
  BY <1>3 DEF Ordinals
<1>6. Len(journal) \in Nat /\ DOMAIN journal = 1..Len(journal)
  BY <1>1
<1>7. Latest \in 0..MaxAttempts /\ DOMAIN attempts = 1..Latest
  BY <1>1, <1>3 DEF Latest
<1> QED BY <1>2, <1>3, <1>4, <1>5, <1>6, <1>7

(* At most one seat works on the run, and in one capacity.                 *)
Works(s) ==
  \/ seat[s] = "leased" \/ exec[s].at # "idle"
  \/ op[s].at # "idle" /\ op[s].via \in {"op", "run"}
  \/ rec[s].at # "idle" /\ rec[s].via \in {"rec", "run"}

(* While one seat works under the lease no other does.                     *)
LEMMA Sole ==
  ASSUME TypeOK, LeaseInv, NEW s \in Seats, NEW t \in Seats \ {s}, Works(s)
  PROVE  /\ ~Works(t)
         /\ ~Starts(t, {"prepared", "recorded"})
         /\ Known(t) => ~mem[t].leased
<1>1. holder.seat = s
  BY MemoryType DEF LeaseInv, Holds, Fits, Works, Known
<1>2. ASSUME NEW h PROVE holder # [seat |-> t, handle |-> h]
  BY <1>1
<1>3. ~Works(t)
  BY <1>2, MemoryType DEF LeaseInv, Holds, Fits, Works, Known
<1>4. Known(t) => ~mem[t].leased
  BY <1>2 DEF LeaseInv, Holds
<1>5. ASSUME Starts(t, {"prepared", "recorded"}) PROVE FALSE
  <2>1. /\ op[t].at # "idle" /\ op[t] \in Operation /\ op[t].at # "checked"
        /\ op[t].kind # "release"
    BY <1>5, OpType DEF Starts, Starting
  <2>2. op[t].via = "op"
    BY <2>1 DEF LeaseInv, Fits, Operation
  <2> QED BY <1>3, <2>1, <2>2 DEF Works
<1> QED BY <1>3, <1>4, <1>5

(* A step of a seat that starts nothing and carries on with what it had.   *)
OpCarried(s) ==
  op'[s].at # "idle" =>
    /\ op[s].at # "idle"
    /\ op'[s].kind = op[s].kind /\ op'[s].ordinal = op[s].ordinal
    /\ op'[s].tree = op[s].tree /\ op'[s].prior = op[s].prior
    /\ op'[s].via # "lost" => op[s].via # "lost"
    /\ op'[s].at \in {"checked", "leased"} => op[s].at \in {"checked", "leased"}
    /\ op'[s].at \in {"prepared", "recorded"} => op'[s].at = op[s].at

ExecCarried(s) ==
  exec'[s].at # "idle" =>
    /\ exec[s].at # "idle" /\ exec'[s].attempt = exec[s].attempt
    /\ exec'[s].at = "entered" => exec[s].at = "entered"

MemCarried(s) == Known(s)' => Known(s) /\ mem'[s].attempt = mem[s].attempt

SeatCarried(s) ==
  seat'[s] \in {"read", "leased"} =>
    seat[s] \in {"read", "leased"} /\ latest'[s] = latest[s]

JournalCarried ==
  \/ UNCHANGED journal
  \/ \E type \in EventTypes \ {"attempt-starting"}, n \in Ordinals :
       Write(type, n) /\ (type = "sandbox-started" => n <= Latest)

Plain(s) ==
  /\ UNCHANGED <<recorded, attempts>>
  /\ trees[1] # "none" => trees'[1] # "none"
  /\ JournalCarried
  /\ OpCarried(s) /\ ExecCarried(s) /\ MemCarried(s) /\ SeatCarried(s)

(* What a journal without a new start keeps.                               *)
LEMMA JournalPlain ==
  ASSUME TypeOK, JournalCarried, UNCHANGED attempts
  PROVE  /\ Positions("attempt-starting")' = Positions("attempt-starting")
         /\ \A i \in DOMAIN journal : i \in DOMAIN journal' /\ journal'[i] = journal[i]
         /\ \A i \in DOMAIN journal' \ DOMAIN journal :
              /\ i = Len(journal) + 1
              /\ journal'[i].type # "attempt-starting"
              /\ journal'[i].type = "sandbox-started" => journal'[i].attempt <= Latest
         /\ \A n : Started(n)' <=> Started(n)
<1>1. CASE UNCHANGED journal
  BY <1>1 DEF Positions, Started
<1>2. ASSUME NEW type \in EventTypes \ {"attempt-starting"}, NEW n \in Ordinals,
             Write(type, n), type = "sandbox-started" => n <= Latest
      PROVE  /\ Positions("attempt-starting")' = Positions("attempt-starting")
             /\ \A i \in DOMAIN journal :
                  i \in DOMAIN journal' /\ journal'[i] = journal[i]
             /\ \A i \in DOMAIN journal' \ DOMAIN journal :
                  /\ i = Len(journal) + 1
                  /\ journal'[i].type # "attempt-starting"
                  /\ journal'[i].type = "sandbox-started" =>
                       journal'[i].attempt <= Latest
             /\ \A x : Started(x)' <=> Started(x)
  <2>1. /\ DOMAIN journal' = DOMAIN journal \cup {Len(journal) + 1}
        /\ \A i \in DOMAIN journal : journal'[i] = journal[i]
        /\ journal'[Len(journal) + 1] = Event(type, n)
    BY <1>2, Appended
  <2>2. /\ Positions("attempt-starting")' = Positions("attempt-starting")
        /\ Positions("attempt-starting") \subseteq DOMAIN journal
    BY <1>2, <2>1 DEF Positions, Event
  <2>3. \A x : Started(x)' <=> Started(x)
    BY <2>1, <2>2 DEF Started
  <2> QED BY <1>2, <2>1, <2>2, <2>3 DEF Event
<1> QED BY <1>1, <1>2 DEF JournalCarried

(* Plain steps keep the lineage.                                           *)
LEMMA LineagePlain ==
  ASSUME TypeOK, LeaseInv, LeaseInv', LineageInv, NEW s \in Seats, Spares(s),
         Plain(s)
  PROVE  LineageInv'
<1>1. /\ Latest' = Latest /\ recorded' = recorded /\ attempts' = attempts
      /\ \A n : Started(n)' <=> Started(n)
  BY JournalPlain DEF Plain, Latest
<1>2. Lineage'
  <2>1. Lineage
    BY DEF LineageInv
  <2>2. \A i \in (DOMAIN journal)' :
          journal'[i].type \in {"attempt-starting", "sandbox-started"} =>
            journal'[i].attempt <= Latest
    BY <2>1, JournalPlain DEF Plain, Lineage
  <2> QED BY <1>1, <2>1, <2>2 DEF Lineage, Plain
<1>3. ASSUME NEW t \in Seats PROVE Place(t)'
  <2>1. Place(t)
    BY DEF LineageInv
  <2>2. CASE t # s
    BY <1>1, <2>1, <2>2 DEF Spares, Place, Known, Starts
  <2>3. CASE t = s
    <3>1. seat'[s] \in {"read", "leased"} => recorded' /\ latest'[s] = Latest'
      BY <1>1, <2>1, <2>3 DEF Plain, SeatCarried, Place
    <3>2. Known(s)' => /\ recorded'
                       /\ \/ mem'[s].attempt <= Latest
                          \/ (Latest = 0 /\ mem'[s].attempt = 1)
      BY <1>1, <2>1, <2>3 DEF Plain, MemCarried, Place
    <3>3. exec'[s].at # "idle" => /\ exec'[s].attempt = Latest
                                  /\ exec'[s].at = "entered" => ~Started(Latest)
      BY <1>1, <2>1, <2>3 DEF Plain, ExecCarried, Place
    <3>4. ASSUME op'[s].at # "idle"
          PROVE  /\ op[s].at # "idle" /\ op'[s].kind = op[s].kind
                 /\ op[s].kind # "launch" => mem'[s].attempt = mem[s].attempt
      <4>1. op[s].at # "idle" /\ op'[s].kind = op[s].kind
        BY <3>4 DEF Plain, OpCarried
      <4>2. op'[s].kind # "launch" => Known(s)'
        BY <3>4 DEF LeaseInv, Fits
      <4> QED BY <4>1, <4>2 DEF Plain, MemCarried
    <3>5. OpCarried(s)
      BY DEF Plain
    <3>6. op'[s].at # "idle" =>
            /\ op'[s].kind = "launch" => op'[s].ordinal = 1
            /\ op'[s].kind = "launch" /\ op'[s].at \in {"checked", "leased"} =>
                 op'[s].tree = 0
            /\ op'[s].kind = "resume" => op'[s].tree \in Ordinals
            /\ op'[s].kind \in {"retry", "resume"} =>
                 mem'[s].attempt + 1 = op'[s].ordinal
            /\ op'[s].kind \in {"retry", "resume"}
                 /\ op'[s].at \in {"checked", "leased"} =>
                 op'[s].ordinal = Latest + 1
            /\ op'[s].kind \in {"retry", "resume"} =>
                 op'[s].prior \in {"failed", "interrupted"}
            /\ op'[s].kind \in {"abandon", "release"} /\ op'[s].via # "lost" =>
                 mem'[s].attempt = Latest
      BY <2>1, <2>3, <3>4, <3>5 DEF OpCarried, Place
    <3>7. op'[s].at \in {"prepared", "recorded"} /\ op'[s].kind \in Starting =>
            /\ Starts(s, {"prepared", "recorded"}) /\ op'[s].at = op[s].at
            /\ op'[s].tree = op[s].tree /\ op'[s].ordinal = op[s].ordinal
      BY <3>5 DEF OpCarried, Starts
    <3>8. /\ Starts(s, {"prepared", "recorded"})' =>
               recorded' /\ op'[s].tree \in Ordinals
          /\ Starts(s, {"prepared"})' => op'[s].ordinal = Latest + 1
          /\ Starts(s, {"recorded"})' =>
               op'[s].ordinal = Latest /\ ~Started(Latest)
      BY <1>1, <2>1, <2>3, <3>7 DEF Starts, Place
    <3> HIDE DEF Latest
    <3> QED BY <1>1, <2>3, <3>1, <3>2, <3>3, <3>6, <3>8 DEF Place
  <2> QED BY <2>2, <2>3
<1>4. ASSUME NEW t \in Seats PROVE Behind(t)'
  <2>1. Behind(t)
    BY DEF LineageInv
  <2>2. ASSUME NEW u \in Seats, Known(u)'
        PROVE  Known(u) /\ mem'[u].attempt = mem[u].attempt
    BY <2>2 DEF Plain, MemCarried, Spares, Known
  <2>3. /\ Starts(t, {"prepared"})' => Starts(t, {"prepared"})
        /\ Starts(t, {"recorded"})' => Starts(t, {"recorded"})
        /\ exec'[t].at # "idle" => exec[t].at # "idle"
    BY DEF Spares, Starts, Plain, OpCarried, ExecCarried
  <2> QED BY <1>1, <2>1, <2>2, <2>3 DEF Behind
<1> QED BY <1>2, <1>3, <1>4 DEF LineageInv

(* Steps of operations that begin no attempt are plain.                    *)
LEMMA PlainOpStep ==
  ASSUME TypeOK, LeaseInv, NEW s \in Seats,
         \/ Acquire(s) \/ Fenced(s) \/ BeginAbandon(s) \/ FinishAbandon(s)
         \/ ReleaseTrees(s) \/ FinishRelease(s)
  PROVE  Plain(s)
<1>1. op[s] # Idle /\ op[s] \in Operation /\ op[s].at # "idle"
  BY OpType DEF Acquire, Fenced, BeginAbandon, FinishAbandon, ReleaseTrees,
                FinishRelease, At
<1>2. /\ UNCHANGED <<recorded, attempts, seat, latest, exec>>
      /\ op \in [Seats -> {Idle} \cup Operation] /\ Idle.at = "idle"
      /\ mem \in [Seats -> {NoRun} \cup Memory]
      /\ trees \in [Ordinals -> {"none", "reserved", "kept", "handed", "released"}]
  BY TypeParts
  DEF Acquire, Fenced, BeginAbandon, FinishAbandon, ReleaseTrees, FinishRelease,
      store, opening, Typed, StoreTyped, Idle
<1>3. trees[1] # "none" => trees'[1] # "none"
  <2>1. UNCHANGED trees \/ AllReleased \/ SomeReleased
    BY DEF Acquire, Fenced, BeginAbandon, FinishAbandon, ReleaseTrees,
           FinishRelease, store
  <2> QED BY <2>1, Entries DEF AllReleased, SomeReleased
<1>4. ExecCarried(s) /\ SeatCarried(s)
  BY <1>2 DEF ExecCarried, SeatCarried
<1>5. op[s].kind \in {"abandon", "release"} =>
        /\ mem[s] \in Memory /\ Known(s)
        /\ mem[s].attempt \in Ordinals
  BY <1>1, MemoryType DEF LeaseInv, Fits, Starting, Memory
<1>6. JournalCarried
  <2>1. \/ UNCHANGED journal
        \/ /\ op[s].kind = "abandon"
           /\ \/ Write("run-abandoning", mem[s].attempt)
              \/ Write("run-abandoned", mem[s].attempt)
    BY DEF Acquire, Fenced, BeginAbandon, FinishAbandon, ReleaseTrees,
           FinishRelease, store, At
  <2> QED BY <1>5, <2>1 DEF JournalCarried, EventTypes
<1>7. MemCarried(s)
  <2>1. CASE UNCHANGED mem
    BY <2>1 DEF MemCarried, Known
  <2>2. CASE /\ op[s].kind = "abandon"
             /\ \E status, e : Remember(s, status, e)
    BY <1>2, <1>5, <2>2 DEF Remember, MemCarried, Memory
  <2>3. CASE FinishRelease(s)
    <3>1. CASE mem[s].ended = NoExecution
      BY <2>1, <2>3, <3>1 DEF FinishRelease
    <3>2. CASE mem[s].ended # NoExecution
      <4>1. op[s].kind = "release"
        BY <2>3 DEF FinishRelease, At
      <4>2. mem'[s].attempt = mem[s].attempt
        <5> DEFINE old == mem[s].ended
                   proved == old.result.sandbox \in {"proved", "not-needed"}
                   result ==
                     IF Pending THEN old.result
                     ELSE [old.result EXCEPT
                             !.workspace = ReleasedTree,
                             !.status = IF @ = "cleanup-blocked" /\ proved
                                        THEN "failed" ELSE @]
                   e == Execution(result,
                                  old.session /\ result.status # "abandoned")
                   free == Unblocked(s, result.status)
        <5>1. mem' = [mem EXCEPT ![s].status = result.status, ![s].ended = e,
                                 ![s].leased = @ /\ ~free]
          BY <2>3, <3>2 DEF FinishRelease
        <5> HIDE DEF e, free, result
        <5> QED BY <1>2, <1>5, <4>1, <5>1 DEF Memory
      <4> QED BY <1>5, <4>1, <4>2 DEF MemCarried
    <3> QED BY <3>1, <3>2
  <2> QED BY <2>1, <2>2, <2>3
      DEF Acquire, Fenced, BeginAbandon, FinishAbandon, ReleaseTrees, At
<1>8. OpCarried(s)
  <2>1. ASSUME op' = [op EXCEPT ![s] = Idle] PROVE OpCarried(s)
    BY <1>2, <2>1 DEF OpCarried
  <2>2. ASSUME NEW place \in {"abandoning", "released"}, Goto(s, place)
        PROVE  OpCarried(s)
    <3>1. op'[s] = [op[s] EXCEPT !.at = place]
      BY <1>1, <1>2, <2>2 DEF Goto
    <3> QED BY <1>1, <3>1 DEF OpCarried, Operation
  <2>3. ASSUME NEW via \in {"op", "run"}, op[s].at = "checked",
               op' = [op EXCEPT ![s].at = "leased", ![s].via = via]
        PROVE  OpCarried(s)
    <3>1. op'[s] = [op[s] EXCEPT !.at = "leased", !.via = via]
      BY <1>1, <1>2, <2>3
    <3>2. op[s].via = "none"
      BY <1>1, <2>3 DEF LeaseInv, Fits
    <3>3. /\ op'[s].kind = op[s].kind /\ op'[s].ordinal = op[s].ordinal
          /\ op'[s].tree = op[s].tree /\ op'[s].prior = op[s].prior
          /\ op'[s].at = "leased"
      BY <1>1, <3>1 DEF Operation
    <3> QED BY <1>1, <2>3, <3>2, <3>3 DEF OpCarried
  <2>4. CASE Acquire(s)
    BY <2>1, <2>3, <2>4 DEF Acquire, Throw
  <2>5. CASE Fenced(s) \/ FinishAbandon(s)
    BY <2>1, <2>5 DEF Fenced, FinishAbandon, Throw
  <2>6. CASE BeginAbandon(s)
    BY <2>1, <2>2, <2>6 DEF BeginAbandon, Throw
  <2>7. CASE ReleaseTrees(s)
    BY <2>1, <2>2, <2>7 DEF ReleaseTrees, Throw
  <2>8. CASE FinishRelease(s)
    BY <2>1, <2>8 DEF FinishRelease, Throw
  <2> QED BY <2>4, <2>5, <2>6, <2>7, <2>8
<1> QED BY <1>2, <1>3, <1>4, <1>6, <1>7, <1>8 DEF Plain

(* Steps of an attempt after its start are plain.                          *)
LEMMA PlainAttemptStep ==
  ASSUME TypeOK, LeaseInv, LineageInv, NEW s \in Seats, AttemptStep(s),
         ~EnterAttempt(s)
  PROVE  Plain(s)
<1>1. /\ exec[s] # Idle /\ exec[s].at # "idle"
      /\ exec[s] \in Attempting \cup Settled /\ exec[s].attempt \in Ordinals
  BY ExecType
  DEF AttemptStep, BootVm, RecordVm, RecordSession, Complete, EndCleanly,
      EndBlocked, EndLeaked, EndThrown, Finalize, Executing, Unproved
<1>2. /\ mem[s] \in Memory /\ exec[s].attempt = Latest /\ Known(s)
  BY <1>1, MemoryType DEF LeaseInv, Fits, LineageInv, Place, Known
<1>3. /\ UNCHANGED <<recorded, attempts, seat, latest, op>>
      /\ mem \in [Seats -> {NoRun} \cup Memory] /\ Idle.at = "idle"
      /\ exec \in [Seats -> {Idle} \cup Attempting \cup Settled]
      /\ trees \in [Ordinals -> {"none", "reserved", "kept", "handed", "released"}]
  BY TypeParts
  DEF AttemptStep, BootVm, RecordVm, RecordSession, Complete, EndCleanly,
      EndBlocked, EndLeaked, EndThrown, Finalize, Settle, store, opening,
      Typed, StoreTyped, Idle
<1>4. trees[1] # "none" => trees'[1] # "none"
  <2>1. UNCHANGED trees \/ \E n : trees' = [trees EXCEPT ![n] = "handed"]
    BY DEF AttemptStep, BootVm, RecordVm, RecordSession, Complete, EndCleanly,
           EndBlocked, EndLeaked, EndThrown, Finalize, store
  <2> QED BY <1>3, <2>1, Entries
<1>5. JournalCarried
  <2>1. \/ UNCHANGED journal
        \/ Write("sandbox-started", exec[s].attempt)
        \/ Write("session-started", exec[s].attempt)
    BY DEF AttemptStep, BootVm, RecordVm, RecordSession, Complete, EndCleanly,
           EndBlocked, EndLeaked, EndThrown, Finalize, Settle, store
  <2>2. exec[s].attempt <= Latest
    BY <1>2, Entries
  <2> QED BY <1>1, <2>1, <2>2 DEF JournalCarried, EventTypes
<1>6. MemCarried(s)
  <2>1. CASE EndThrown(s) \/ Finalize(s)
    <3>1. mem'[s].attempt = mem[s].attempt
      BY <1>2, <1>3, <2>1 DEF EndThrown, Finalize, Memory
    <3> QED BY <1>2, <3>1 DEF MemCarried
  <2>2. CASE ~(EndThrown(s) \/ Finalize(s))
    <3>1. UNCHANGED mem
      BY <2>2
      DEF AttemptStep, BootVm, RecordVm, RecordSession, Complete, EndCleanly,
          EndBlocked, EndLeaked, Settle
    <3> QED BY <3>1 DEF MemCarried, Known
  <2> QED BY <2>1, <2>2
<1>7. ExecCarried(s)
  <2>1. CASE exec' = [exec EXCEPT ![s] = Idle]
    BY <1>3, <2>1 DEF ExecCarried
  <2>2. CASE \E e : exec' = [exec EXCEPT ![s] =
               [at |-> "settled", attempt |-> exec[s].attempt, ended |-> e]]
    BY <1>1, <1>3, <2>2 DEF ExecCarried
  <2>3. CASE \E place \in {"booted", "recorded", "session"} :
               exec[s].at # "settled" /\ Reach(s, place)
    <3>1. exec[s] \in Attempting
      BY <1>1, <2>3 DEF Settled
    <3> QED BY <1>1, <1>3, <2>3, <3>1 DEF ExecCarried, Reach, Attempting
  <2> QED BY <2>1, <2>2, <2>3
      DEF AttemptStep, BootVm, RecordVm, RecordSession, Complete, EndCleanly,
          EndBlocked, EndLeaked, EndThrown, Finalize, Settle, Executing
<1> QED BY <1>3, <1>4, <1>5, <1>6, <1>7
        DEF Plain, OpCarried, SeatCarried

(* Signals, reconciles and deaths are plain.                               *)
LEMMA PlainOtherStep ==
  ASSUME TypeOK, LeaseInv, NEW s \in Seats,
         \/ \E reason \in {"operator", "seat-shutdown"} : Signal(s, reason)
         \/ BeginReconcile(s) \/ ReconcileStep(s) \/ Crash(s)
         \/ LeaseRecovery(s)
  PROVE  Plain(s)
<1>1. /\ UNCHANGED <<recorded, attempts, trees>>
      /\ seat \in [Seats -> {"down", "read", "leased", "up"}]
      /\ mem \in [Seats -> {NoRun} \cup Memory] /\ Idle.at = "idle"
      /\ op \in [Seats -> {Idle} \cup Operation]
      /\ exec \in [Seats -> {Idle} \cup Attempting \cup Settled]
  BY TypeParts
  DEF Signal, BeginReconcile, ReconcileStep, Observe, FinishReconcile, Crash,
      LeaseRecovery, store, Typed, StoreTyped, Idle
<1>2. CASE \E reason \in {"operator", "seat-shutdown"} : Signal(s, reason)
  <2>1. PICK reason \in {"operator", "seat-shutdown"} : Signal(s, reason)
    BY <1>2
  <2>2. /\ UNCHANGED <<journal, op, seat, latest>>
        /\ mem[s].status \in {"active", "stopping"}
        /\ mem' = [mem EXCEPT ![s].status = "stopping"]
    BY <2>1 DEF Signal, store, opening
  <2>3. mem[s] \in Memory /\ Known(s)
    BY <2>2, MemoryType DEF Known
  <2>4. MemCarried(s)
    BY <1>1, <2>2, <2>3 DEF MemCarried, Memory
  <2>5. ExecCarried(s)
    <3>1. exec[s].at # "idle" /\ exec[s] \in Attempting \cup Settled
      BY <2>2, <2>3, ExecType DEF LeaseInv, Fits
    <3>2. CASE UNCHANGED exec
      BY <3>1, <3>2 DEF ExecCarried
    <3>3. CASE exec[s].at # "settled" /\
               exec' = [exec EXCEPT ![s].signal = IF @ = "none" THEN reason ELSE @]
      <4>1. exec[s] \in Attempting
        BY <3>1, <3>3 DEF Settled
      <4> QED BY <1>1, <3>1, <3>3, <4>1 DEF ExecCarried, Attempting
    <3> QED BY <2>1, <3>1, <3>2, <3>3 DEF Signal, Executing, Idle
  <2> QED BY <1>1, <2>2, <2>4, <2>5
      DEF Plain, OpCarried, SeatCarried, JournalCarried
<1>3. CASE BeginReconcile(s) \/ Observe(s)
  <2>1. UNCHANGED <<journal, op, seat, latest, mem, exec>>
    BY <1>3 DEF BeginReconcile, Observe, store, opening
  <2> QED BY <1>1, <2>1
      DEF Plain, OpCarried, ExecCarried, MemCarried, SeatCarried,
          JournalCarried, Known
<1>4. CASE FinishReconcile(s)
  <2>1. UNCHANGED <<seat, latest, exec>> /\ rec[s].at # "idle"
    BY <1>4 DEF FinishReconcile, opening
  <2>2. Known(s) /\ mem[s] \in Memory /\ mem[s].attempt \in Ordinals
    BY <2>1, MemoryType DEF LeaseInv, Fits, Memory
  <2>3. JournalCarried
    <3>1. UNCHANGED journal \/ Write("run-abandoned", mem[s].attempt)
      BY <1>4 DEF FinishReconcile
    <3> QED BY <2>2, <3>1 DEF JournalCarried, EventTypes
  <2>4. MemCarried(s)
    <3>1. mem'[s].attempt = mem[s].attempt
      <4>1. CASE UNCHANGED mem
        BY <4>1
      <4>2. CASE ~UNCHANGED mem
        <5> DEFINE e == Reconciled(s)
                   free == Unblocked(s, e.result.status)
        <5>1. mem' = [mem EXCEPT ![s].status = e.result.status, ![s].ended = e,
                                 ![s].leased = @ /\ ~free]
          BY <1>4, <4>2 DEF FinishReconcile
        <5> HIDE DEF e, free
        <5> QED BY <1>1, <2>2, <5>1 DEF Memory
      <4> QED BY <4>1, <4>2
    <3> QED BY <2>2, <3>1 DEF MemCarried
  <2>5. OpCarried(s)
    <3>1. \/ UNCHANGED op
          \/ op[s] # Idle /\ op' = [op EXCEPT ![s].via = "lost"]
      BY <1>4 DEF FinishReconcile
    <3>2. op[s] # Idle => op[s] \in Operation /\ op[s].at # "idle"
      BY OpType
    <3> QED BY <1>1, <3>1, <3>2 DEF OpCarried, Operation
  <2> QED BY <1>1, <2>1, <2>3, <2>4, <2>5 DEF Plain, ExecCarried, SeatCarried
<1>5. CASE Crash(s)
  <2>1. /\ UNCHANGED journal
        /\ seat'[s] = "down" /\ mem'[s] = NoRun /\ op'[s] = Idle
        /\ exec'[s] = Idle
    BY <1>1, <1>5 DEF Crash, store
  <2>2. ~Known(s)'
    BY <2>1 DEF Known, NoRun
  <2> QED BY <1>1, <2>1, <2>2
      DEF Plain, OpCarried, ExecCarried, MemCarried, SeatCarried, JournalCarried
<1>6. CASE LeaseRecovery(s)
  <2>1. UNCHANGED <<journal, op, mem, exec, latest>> /\ seat[s] = "read"
    BY <1>6 DEF LeaseRecovery, store
  <2> QED BY <1>1, <2>1
      DEF Plain, OpCarried, ExecCarried, MemCarried, SeatCarried,
          JournalCarried, Known
<1> QED BY <1>2, <1>3, <1>4, <1>5, <1>6 DEF ReconcileStep

(* A seat that is spared keeps its place while no attempt is added.        *)
LEMMA PlaceOther ==
  ASSUME NEW s \in Seats, NEW t \in Seats \ {s}, Spares(s), Place(t),
         recorded => recorded', Latest' = Latest,
         \A n : Started(n)' <=> Started(n)
  PROVE  Place(t)'
BY DEF Spares, Place, Known, Starts

(* An operation that begins with what its seat knows.                      *)
LEMMA LineageBegin ==
  ASSUME TypeOK, LineageInv, NEW s \in Seats, Spares(s),
         NEW kind, NEW ordinal, NEW tree, NEW prior,
         Begin(s, kind, ordinal, tree, prior),
         kind = "launch" => ordinal = 1 /\ tree = 0,
         kind \in {"retry", "resume"} =>
           /\ ordinal = mem[s].attempt + 1 /\ ordinal = Latest + 1
           /\ prior \in {"failed", "interrupted"},
         kind = "resume" => tree \in Ordinals,
         kind \in {"abandon", "release"} => mem[s].attempt = Latest
  PROVE  LineageInv'
<1> DEFINE new == [kind |-> kind, at |-> "checked", ordinal |-> ordinal,
                   tree |-> tree, prior |-> prior, via |-> "none"]
<1>1. /\ op' = [op EXCEPT ![s] = new]
      /\ UNCHANGED <<recorded, attempts, journal, trees, seat, latest, mem, exec>>
  BY DEF Begin, store, opening
<1>2. op'[s] = new
  BY <1>1, TypeParts DEF Typed
<1>3. /\ Latest' = Latest
      /\ \A n : Started(n)' <=> Started(n)
  BY <1>1 DEF Latest, Started, Positions
<1>4. Lineage'
  BY <1>1, <1>3 DEF LineageInv, Lineage
<1>5. ASSUME NEW t \in Seats PROVE Place(t)'
  <2>1. Place(t)
    BY DEF LineageInv
  <2>2. CASE t # s
    BY <1>1, <1>3, <2>1, <2>2, PlaceOther
  <2>3. CASE t = s
    BY <1>1, <1>2, <1>3, <2>1, <2>3 DEF Place, Known, Starts
  <2> QED BY <2>2, <2>3
<1>6. ASSUME NEW t \in Seats PROVE Behind(t)'
  <2>1. Behind(t)
    BY DEF LineageInv
  <2>2. /\ Starts(t, {"prepared"})' => Starts(t, {"prepared"})
        /\ Starts(t, {"recorded"})' => Starts(t, {"recorded"})
    BY <1>2 DEF Spares, Starts
  <2> QED BY <1>1, <1>3, <2>1, <2>2 DEF Behind, Known
<1> QED BY <1>4, <1>5, <1>6 DEF LineageInv

(* The checks of the operations find a place of their own in the lineage.  *)
LEMMA LineageCheck ==
  ASSUME ~adverse, TypeOK, LeaseInv, LineageInv, NEW s \in Seats, Spares(s),
         Check(s)
  PROVE  LineageInv'
<1>1. Place(s) /\ Lineage
  BY DEF LineageInv
<1>2. mem[s] # NoRun => mem[s].attempt \in Ordinals
  BY MemoryType DEF Memory
<1>3. CASE CheckLaunch(s)
  BY <1>3, LineageBegin DEF CheckLaunch
<1>4. CASE CheckRetry(s)
  BY <1>4, LineageBegin DEF CheckRetry, Latest
<1>5. CASE CheckResume(s)
  <2>1. /\ mem[s].attempt = Latest /\ mem[s].attempt \in Ordinals
        /\ Begin(s, "resume", mem[s].attempt + 1, attempts[mem[s].attempt].tree,
                 "interrupted")
    BY <1>2, <1>5 DEF CheckResume, Loaded, Latest
  <2>2. attempts[mem[s].attempt].tree \in Ordinals
    BY <1>1, <2>1, Entries DEF Lineage
  <2> QED BY <2>1, <2>2, LineageBegin
<1>6. CASE CheckAbandon(s)
  BY <1>6, LineageBegin DEF CheckAbandon, Informed, Latest
<1>7. CASE CheckRelease(s)
  BY <1>7, LineageBegin DEF CheckRelease, Informed, Latest
<1> QED BY <1>3, <1>4, <1>5, <1>6, <1>7 DEF Check

(* A seat that opens the store reads the latest attempt.                   *)
LEMMA LineageOpenStore ==
  ASSUME TypeOK, LeaseInv, LineageInv, NEW s \in Seats, Spares(s), OpenStore(s)
  PROVE  LineageInv'
<1>1. /\ UNCHANGED <<recorded, attempts, journal, trees, mem, op, exec>>
      /\ \/ recorded /\ seat'[s] = "read" /\ latest'[s] = Len(attempts)
         \/ seat'[s] = "up"
  BY TypeParts DEF OpenStore, store, Typed
<1>2. /\ Latest' = Latest
      /\ \A n : Started(n)' <=> Started(n)
  BY <1>1 DEF Latest, Started, Positions
<1>3. Lineage'
  BY <1>1, <1>2 DEF LineageInv, Lineage
<1>4. ASSUME NEW t \in Seats PROVE Place(t)'
  <2>1. Place(t)
    BY DEF LineageInv
  <2>2. CASE t # s
    BY <1>1, <1>2, <2>1, <2>2, PlaceOther
  <2>3. CASE t = s
    BY <1>1, <1>2, <2>1, <2>3 DEF Place, Known, Starts, Latest
  <2> QED BY <2>2, <2>3
<1>5. ASSUME NEW t \in Seats PROVE Behind(t)'
  BY <1>1, <1>2 DEF LineageInv, Behind, Starts, Known
<1> QED BY <1>3, <1>4, <1>5 DEF LineageInv

(* Preparing takes the first tree that is free, or the one inherited.      *)
LEMMA LineagePrepare ==
  ASSUME Writing, TypeOK, LeaseInv, LineageInv, NEW s \in Seats, Spares(s),
         Prepare(s)
  PROVE  LineageInv'
<1>1. /\ op[s] # Idle /\ op[s].at = "leased" /\ op[s] \in Operation
      /\ op[s].kind \in Starting /\ op[s].at # "idle"
      /\ UNCHANGED <<attempts, journal, seat, latest, mem, exec>>
  BY OpType DEF Prepare, At, opening
<1>2. /\ op \in [Seats -> {Idle} \cup Operation] /\ Idle.at = "idle"
      /\ trees \in [Ordinals -> {"none", "reserved", "kept", "handed", "released"}]
      /\ recorded \in BOOLEAN
  BY TypeParts DEF Typed, StoreTyped, Idle
<1>3. Lineage /\ Place(s)
  BY DEF LineageInv
<1>4. /\ Latest' = Latest
      /\ \A n : Started(n)' <=> Started(n)
  BY <1>1 DEF Latest, Started, Positions
<1>5. op[s].kind # "launch" => /\ recorded /\ Known(s) /\ mem[s] \in Memory
                               /\ mem[s].attempt \in Ordinals
  BY <1>1, <1>3, MemoryType DEF LeaseInv, Fits, Place, Memory
<1>6. op[s].ordinal \in Ordinals /\ (op[s].kind = "launch" => op[s].tree = 0)
      /\ (op[s].kind = "launch" => op[s].ordinal = 1)
  BY <1>1, <1>3 DEF LeaseInv, Fits, Place
<1>7. \/ recorded' = recorded /\ trees' = trees
      \/ /\ recorded' = TRUE
         /\ \/ op[s].tree # 0 /\ trees' = trees
            \/ /\ op[s].tree = 0
               /\ \E x \in {trees[op[s].ordinal], "reserved", "kept"} :
                    /\ x # "none"
                    /\ trees' = [trees EXCEPT ![op[s].ordinal] = x]
  BY <1>2, <1>6 DEF Prepare
<1>8. (recorded => recorded') /\ (recorded' => trees'[1] # "none")
  <2>1. 1 \in Ordinals
    BY Entries
  <2>2. CASE recorded
    BY <1>2, <1>3, <1>7, <2>1, <2>2 DEF Lineage
  <2>3. CASE ~recorded
    BY <1>1, <1>2, <1>5, <1>6, <1>7, <2>1, <2>3
  <2> QED BY <2>2, <2>3
<1>9. Lineage'
  BY <1>1, <1>3, <1>4, <1>8 DEF Lineage
<1>10. \/ Throw(s)
       \/ /\ recorded' = TRUE
          /\ \E tree \in Ordinals :
               op' = [op EXCEPT ![s] = [op[s] EXCEPT !.at = "prepared", !.tree = tree]]
          /\ op[s].kind = "launch" => trees[1] = "none"
  <2>1. CASE Throw(s)
    BY <2>1
  <2>2. CASE ~Throw(s) /\ op[s].tree # 0
    <3>1. op[s].tree \in Ordinals
      BY <1>1, <2>2, BoundsAssumption DEF Operation, Ordinals
    <3>2. recorded' = TRUE /\ Goto(s, "prepared")
      BY <2>2 DEF Prepare
    <3>3. [op[s] EXCEPT !.at = "prepared"]
            = [op[s] EXCEPT !.at = "prepared", !.tree = op[s].tree]
      BY <1>1 DEF Operation
    <3> QED BY <1>6, <2>2, <3>1, <3>2, <3>3 DEF Goto
  <2>3. CASE ~Throw(s) /\ op[s].tree = 0
    <3>1. /\ recorded' = TRUE /\ trees[op[s].ordinal] = "none"
          /\ op' = [op EXCEPT ![s].at = "prepared", ![s].tree = op[s].ordinal]
      BY <2>3 DEF Prepare
    <3>2. op' = [op EXCEPT ![s] = [op[s] EXCEPT !.at = "prepared",
                                                !.tree = op[s].ordinal]]
      BY <3>1
    <3> QED BY <1>6, <3>1, <3>2
  <2> QED BY <2>1, <2>2, <2>3
<1>11. CASE Throw(s)
  <2>1. op'[s].at = "idle"
    BY <1>2, <1>11 DEF Throw
  <2>2. ASSUME NEW t \in Seats PROVE Place(t)'
    <3>1. Place(t)
      BY DEF LineageInv
    <3>2. CASE t # s
      BY <1>4, <1>8, <3>1, <3>2, PlaceOther
    <3>3. CASE t = s
      BY <1>1, <1>4, <1>8, <2>1, <3>1, <3>3 DEF Place, Known, Starts
    <3> QED BY <3>2, <3>3
  <2>3. ASSUME NEW t \in Seats PROVE Behind(t)'
    <3>1. /\ Starts(t, {"prepared"})' => Starts(t, {"prepared"})
          /\ Starts(t, {"recorded"})' => Starts(t, {"recorded"})
      BY <2>1 DEF Spares, Starts
    <3> QED BY <1>1, <1>4, <3>1 DEF LineageInv, Behind, Known
  <2> QED BY <1>9, <2>2, <2>3 DEF LineageInv
<1>12. CASE ~Throw(s)
  <2>1. PICK tree \in Ordinals :
          op' = [op EXCEPT ![s] = [op[s] EXCEPT !.at = "prepared", !.tree = tree]]
    BY <1>10, <1>12
  <2>2. /\ op'[s].at = "prepared" /\ op'[s].tree = tree
        /\ op'[s].kind = op[s].kind /\ op'[s].ordinal = op[s].ordinal
        /\ op'[s].prior = op[s].prior
    <3>1. op'[s] = [op[s] EXCEPT !.at = "prepared", !.tree = tree]
      BY <1>2, <2>1
    <3> QED BY <1>1, <3>1 DEF Operation
  <2>3. op[s].kind = "launch" => ~recorded /\ Latest = 0
    <3>1. op[s].kind = "launch" => ~recorded
      BY <1>3, <1>10, <1>12 DEF Lineage
    <3>2. attempts = <<>> => Latest = 0
      BY DEF Latest
    <3> QED BY <1>3, <3>1, <3>2 DEF Lineage
  <2>4. op[s].ordinal = Latest + 1
    BY <1>1, <1>3, <1>6, <2>3, Entries DEF Place, Starting
  <2>5. recorded'
    BY <1>10, <1>12
  <2>6. ASSUME NEW t \in Seats PROVE Place(t)'
    <3>1. Place(t)
      BY DEF LineageInv
    <3>2. CASE t # s
      BY <1>4, <1>8, <3>1, <3>2, PlaceOther
    <3>3. CASE t = s
      <4> HIDE DEF Latest
      <4> QED BY <1>1, <1>4, <1>6, <2>2, <2>4, <2>5, <3>1, <3>3
          DEF Place, Known, Starts, Starting
    <3> QED BY <3>2, <3>3
  <2>7. Latest = 0 => \A t \in Seats : ~Known(t)
    <3>1. ASSUME Latest = 0, op[s].kind # "launch" PROVE FALSE
      BY <1>1, <1>3, <1>5, <2>4, <3>1, Entries DEF Place, Starting
    <3> QED BY <2>3, <3>1 DEF LineageInv, Place
  <2>8. ASSUME NEW t \in Seats PROVE Behind(t)'
    <3>1. /\ Starts(t, {"prepared"})' => t = s \/ Starts(t, {"prepared"})
          /\ Starts(t, {"recorded"})' => Starts(t, {"recorded"})
      BY <2>2 DEF Spares, Starts
    <3> QED BY <1>1, <1>4, <2>7, <3>1 DEF LineageInv, Behind, Known
  <2> QED BY <1>9, <2>6, <2>8 DEF LineageInv
<1> QED BY <1>11, <1>12

(* A seat that works has the others idle, but for operations that have not *)
(* taken the lease or have lost it.                                        *)
LEMMA OthersRest ==
  ASSUME TypeOK, LeaseInv, NEW s \in Seats, NEW t \in Seats \ {s}, Works(s)
  PROVE  /\ seat[t] # "leased" /\ exec[t].at = "idle"
         /\ ~Starts(t, {"prepared", "recorded"})
         /\ op[t].at # "idle" =>
              \/ op[t].at = "checked"
              \/ op[t].via = "lost" /\ op[t].kind = "release"
<1>1. ~Works(t) /\ ~Starts(t, {"prepared", "recorded"})
  BY Sole
<1>2. op[t].at # "idle" => op[t] \in Operation
  BY OpType
<1>3. op[t].at # "idle" =>
        \/ op[t].at = "checked"
        \/ op[t].via = "lost" /\ op[t].kind = "release"
  BY <1>1, <1>2 DEF Works, LeaseInv, Fits, Operation
<1> QED BY <1>1, <1>3 DEF Works

(* An operation that owns the lease works.                                 *)
LEMMA OpWorks ==
  ASSUME TypeOK, LeaseInv, NEW s \in Seats, Owns(s)
  PROVE  Works(s) /\ op[s].at # "idle" /\ seat[s] = "up" /\ exec[s].at = "idle"
BY OpType DEF Owns, Works, LeaseInv, Fits

(* The attempt recorded is a new one, the next.                            *)
LEMMA LineageRecordAttempt ==
  ASSUME ~adverse, TypeOK, LeaseInv, LineageInv, NEW s \in Seats, Spares(s),
         RecordAttempt(s)
  PROVE  /\ LineageInv'
         /\ Latest' = Latest + 1 /\ op[s].ordinal = Latest + 1
         /\ Starts(s, {"prepared"}) /\ Starts(s, {"recorded"})'
         /\ attempts' = Append(attempts, [kind |-> op[s].kind, tree |-> op[s].tree])
         /\ UNCHANGED <<journal, snapshot, trees, guests, mem, rec, exec>>
         /\ \A n \in 1..Latest : attempts'[n] = attempts[n]
<1>1. /\ op[s] # Idle /\ op[s].at = "prepared" /\ op[s] \in Operation
      /\ op[s].kind \in Starting /\ op[s].at # "idle" /\ Owns(s)
      /\ UNCHANGED <<recorded, journal, snapshot, trees, guests, seat, latest,
                     mem, rec, exec>>
  BY OpType DEF RecordAttempt, At, opening
<1>2. /\ op \in [Seats -> {Idle} \cup Operation] /\ Idle.at = "idle"
      /\ attempts \in Seq([kind : Starting, tree : 0..MaxAttempts])
  BY TypeParts DEF Typed, StoreTyped, Idle
<1>3. Lineage /\ Place(s) /\ Behind(s)
  BY DEF LineageInv
<1>4. Starts(s, {"prepared"}) /\ op[s].ordinal = Latest + 1
      /\ op[s].tree \in Ordinals /\ recorded
  BY <1>1, <1>3 DEF Starts, Place
<1> DEFINE record == [kind |-> op[s].kind, tree |-> op[s].tree]
<1>5. /\ attempts' = Append(attempts, record)
      /\ Goto(s, "recorded")
      /\ \A t \in Seats \ {s} :
           seat[t] # "read" /\ ~(op[t] # Idle /\ op[t].at = "checked")
  <2>1. op[s].ordinal \notin DOMAIN attempts /\ op[s].ordinal = Len(attempts) + 1
    BY <1>4, Entries DEF Latest
  <2> QED BY <2>1 DEF RecordAttempt
<1>6. record \in [kind : Starting, tree : 0..MaxAttempts] /\ record.tree \in Ordinals
  BY <1>1, <1>4 DEF Operation
<1>7. /\ Latest' = Latest + 1
      /\ \A n \in 1..Latest : attempts'[n] = attempts[n]
      /\ attempts'[Latest + 1] = record /\ attempts' # <<>>
  <2> HIDE DEF record
  <2> QED BY <1>2, <1>5, <1>6, AppendProperties DEF Latest
<1>8. op'[s].at = "recorded" /\ op'[s].kind = op[s].kind
      /\ op'[s].ordinal = op[s].ordinal /\ op'[s].tree = op[s].tree
      /\ op'[s].prior = op[s].prior
  BY <1>1, <1>2, <1>5 DEF Goto, Operation
<1>9. Latest \in Nat /\ \A n \in Ordinals : n \in Nat /\ n >= 1
  BY Entries
<1>10. \A n : Started(n)' <=> Started(n)
  BY <1>1 DEF Started, Positions
<1>11. ~Started(Latest + 1)
  <2>1. ASSUME Started(Latest + 1) PROVE FALSE
    <3>1. PICK i \in DOMAIN journal : journal[i].type = "attempt-starting"
                                      /\ journal[i].attempt = Latest + 1
      BY <2>1 DEF Started, Positions
    <3>2. Latest + 1 <= Latest
      BY <1>3, <3>1 DEF Lineage
    <3> QED BY <1>9, <3>2
  <2> QED BY <2>1
<1>12. Lineage'
  <2>1. ASSUME NEW n \in 1..(Latest + 1) PROVE attempts'[n].tree \in Ordinals
    <3>1. CASE n \in 1..Latest
      BY <1>3, <1>7, <3>1 DEF Lineage
    <3>2. CASE n = Latest + 1
      BY <1>6, <1>7, <3>2
    <3> QED BY <1>9, <3>1, <3>2
  <2>2. \A i \in DOMAIN journal :
          journal[i].type \in {"attempt-starting", "sandbox-started"} =>
            journal[i].attempt <= Latest + 1
    <3>1. \A i \in DOMAIN journal : journal[i].attempt \in Nat
      BY Entries
    <3> HIDE DEF Latest
    <3> QED BY <1>3, <1>9, <3>1 DEF Lineage
  <2> QED BY <1>1, <1>3, <1>4, <1>7, <2>1, <2>2 DEF Lineage
<1>13. ASSUME NEW t \in Seats, Known(t)
       PROVE  mem[t].attempt <= Latest /\ mem[t].attempt < Latest + 1
  <2>1. Latest # 0
    BY <1>3, <1>4, <1>13 DEF Behind
  <2>2. mem[t].attempt \in Nat
    BY <1>9, <1>13, MemoryType DEF Memory
  <2>3. mem[t].attempt <= Latest
    BY <1>13, <2>1 DEF LineageInv, Place
  <2> QED BY <1>9, <2>2, <2>3
<1>14. ASSUME NEW t \in Seats PROVE Place(t)'
  <2>1. Place(t)
    BY DEF LineageInv
  <2>2. mem'[t] = mem[t] /\ exec'[t] = exec[t]
        /\ seat'[t] = seat[t] /\ latest'[t] = latest[t]
    BY <1>1
  <2>3. Known(t)' => recorded' /\ mem'[t].attempt <= Latest'
    <3>1. ASSUME Known(t) PROVE mem[t].attempt <= Latest + 1
      <4>1. mem[t].attempt <= Latest /\ mem[t].attempt \in Nat
        BY <1>9, <1>13, <3>1, MemoryType DEF Memory
      <4> QED BY <1>9, <4>1
    <3> QED BY <1>1, <1>4, <1>7, <2>2, <3>1 DEF Known
  <2>4. CASE t # s
    <3>1. /\ seat[t] \notin {"read", "leased"} /\ exec[t].at = "idle"
          /\ ~Starts(t, {"prepared", "recorded"})
          /\ op[t].at # "idle" => op[t].via = "lost" /\ op[t].kind = "release"
      BY <1>1, <1>5, <2>4, OthersRest, OpWorks, OpType
    <3>2. op'[t] = op[t]
      BY <2>4 DEF Spares
    <3>3. ~Starts(t, {"prepared", "recorded"})'
      BY <3>1, <3>2 DEF Starts
    <3> QED BY <2>2, <2>3, <3>1, <3>2, <3>3 DEF Place, Starts
  <2>5. CASE t = s
    <3>1. seat[s] = "up" /\ exec[s].at = "idle"
      BY <1>1, OpWorks
    <3> HIDE DEF Latest
    <3>2. /\ op'[s].kind = "launch" => op'[s].ordinal = 1
          /\ op'[s].kind = "resume" => op'[s].tree \in Ordinals
          /\ op'[s].kind \in {"retry", "resume"} =>
               /\ mem'[s].attempt + 1 = op'[s].ordinal
               /\ op'[s].prior \in {"failed", "interrupted"}
          /\ op'[s].kind \in Starting
      BY <1>1, <1>3, <1>8 DEF Place
    <3>3. ~Started(Latest)'
      <4>1. DOMAIN journal' = DOMAIN journal /\ journal' = journal
        BY <1>1
      <4> QED BY <1>7, <1>11, <4>1 DEF Started, Positions
    <3>4. /\ Starts(s, {"prepared", "recorded"})' =>
               recorded' /\ op'[s].tree \in Ordinals
          /\ ~Starts(s, {"prepared"})'
          /\ Starts(s, {"recorded"})' => op'[s].ordinal = Latest'
      BY <1>1, <1>4, <1>7, <1>8 DEF Starts
    <3> QED BY <1>8, <2>2, <2>3, <2>5, <3>1, <3>2, <3>3, <3>4 DEF Place, Starting
  <2> QED BY <2>4, <2>5
<1>15. ASSUME NEW t \in Seats PROVE Behind(t)'
  <2>1. \A u \in Seats : Known(u)' => mem'[u].attempt < Latest'
    BY <1>1, <1>7, <1>13 DEF Known
  <2>2. ~Starts(t, {"prepared"})'
    <3>1. CASE t = s
      BY <1>8, <3>1 DEF Starts
    <3>2. CASE t # s
      BY <1>1, <3>2, OthersRest, OpWorks DEF Spares, Starts
    <3> QED BY <3>1, <3>2
  <2> QED BY <2>1, <2>2 DEF Behind
<1>16. Starts(s, {"recorded"})'
  BY <1>1, <1>8 DEF Starts
<1> QED BY <1>1, <1>4, <1>5, <1>7, <1>12, <1>14, <1>15, <1>16 DEF LineageInv

(* The attempt that begins is the latest, and has not started.             *)
LEMMA LineageExecute ==
  ASSUME TypeOK, LeaseInv, LineageInv, NEW s \in Seats, Spares(s), Execute(s)
  PROVE  /\ LineageInv'
         /\ UNCHANGED <<journal, snapshot, attempts, trees, guests, rec>>
         /\ Starts(s, {"recorded"})
         /\ op'[s].at = "idle"
         /\ \/ UNCHANGED <<mem, exec>>
            \/ /\ mem'[s].ended = NoExecution /\ mem'[s].attempt = Latest
               /\ exec'[s].at = "entered" /\ exec'[s].attempt = Latest
<1>1. /\ op[s].at = "recorded" /\ op[s].kind \in Starting /\ Owns(s)
      /\ UNCHANGED <<recorded, attempts, journal, snapshot, trees, guests, seat,
                     latest, rec>>
  BY DEF Execute, At, store, opening
<1>2. op'[s].at = "idle"
  <2>1. op' = [op EXCEPT ![s] = Idle]
    BY DEF Execute, Throw
  <2> QED BY <2>1, TypeParts DEF Typed, Idle
<1>3. Starts(s, {"recorded"}) /\ op[s].ordinal = Latest /\ ~Started(Latest)
      /\ recorded
  BY <1>1 DEF Starts, LineageInv, Place
<1>4. \/ UNCHANGED <<mem, exec>>
      \/ /\ mem'[s].ended = NoExecution /\ mem'[s].attempt = Latest
         /\ exec'[s].at = "entered" /\ exec'[s].attempt = Latest
  BY <1>3, TypeParts DEF Execute, Typed
<1>5. /\ Latest' = Latest
      /\ \A n : Started(n)' <=> Started(n)
  BY <1>1 DEF Latest, Started, Positions
<1>6. Lineage'
  BY <1>1, <1>5 DEF LineageInv, Lineage
<1>7. Latest \in Nat
  BY Entries
<1>8. seat[s] = "up" /\ exec[s].at = "idle" /\ Works(s)
  BY <1>1, OpWorks
<1> HIDE DEF Latest
<1>9. ASSUME NEW t \in Seats PROVE Place(t)'
  <2>1. Place(t)
    BY DEF LineageInv
  <2>2. CASE t # s
    BY <1>1, <1>5, <2>1, <2>2, PlaceOther
  <2>3. CASE t = s
    BY <1>1, <1>2, <1>3, <1>4, <1>5, <1>7, <1>8, <2>1, <2>3
    DEF Place, Known, Starts
  <2> QED BY <2>2, <2>3
<1>10. ASSUME NEW t \in Seats PROVE Behind(t)'
  <2>1. CASE t = s
    <3>1. ~Starts(s, {"prepared"})' /\ ~Starts(s, {"recorded"})'
      BY <1>2 DEF Starts
    <3>2. \A u \in Seats \ {s} : Known(u)' => mem'[u].attempt < Latest'
      BY <1>3, <1>5 DEF LineageInv, Behind, Spares, Known
    <3> QED BY <2>1, <3>1, <3>2 DEF Behind
  <2>2. CASE t # s
    BY <1>8, <2>2, OthersRest DEF Spares, Behind, Starts
  <2> QED BY <2>1, <2>2
<1> QED BY <1>1, <1>2, <1>3, <1>4, <1>6, <1>9, <1>10 DEF LineageInv

(* The start on record is the latest attempt's.                            *)
LEMMA LineageEnterAttempt ==
  ASSUME TypeOK, LeaseInv, LineageInv, NEW s \in Seats, Spares(s),
         EnterAttempt(s)
  PROVE  /\ LineageInv'
         /\ Works(s) /\ exec[s].at = "entered" /\ Latest \in Ordinals
         /\ ~Started(Latest) /\ Write("attempt-starting", Latest)
         /\ exec'[s].at = "started" /\ exec'[s].attempt = Latest
         /\ UNCHANGED <<snapshot, attempts, trees, guests, mem, op, rec>>
<1>1. /\ exec[s].at = "entered" /\ exec[s] \in Attempting /\ Works(s)
      /\ UNCHANGED <<recorded, snapshot, attempts, trees, guests, seat, latest,
                     mem, op, rec>>
  BY ExecType DEF EnterAttempt, Executing, opening, Works
<1>2. exec[s].attempt = Latest /\ ~Started(Latest)
  BY <1>1 DEF LineageInv, Place
<1>3. Latest \in Ordinals /\ Latest \in Nat
  BY <1>1, <1>2, Entries DEF Attempting
<1>4. Write("attempt-starting", Latest)
  BY <1>2 DEF EnterAttempt
<1>5. exec'[s].at = "started" /\ exec'[s].attempt = Latest
  BY <1>1, <1>2, TypeParts DEF EnterAttempt, Reach, Typed, Attempting
<1>6. Latest' = Latest
  BY <1>1 DEF Latest
<1>7. /\ DOMAIN journal' = DOMAIN journal \cup {Len(journal) + 1}
      /\ \A i \in DOMAIN journal : journal'[i] = journal[i]
      /\ journal'[Len(journal) + 1] = Event("attempt-starting", Latest)
  BY <1>3, <1>4, Appended DEF EventTypes
<1> HIDE DEF Latest
<1>8. \A i \in (DOMAIN journal)' :
        journal'[i].type \in {"attempt-starting", "sandbox-started"} =>
          journal'[i].attempt <= Latest
  BY <1>3, <1>7 DEF LineageInv, Lineage, Event
<1>9. Lineage'
  BY <1>1, <1>6, <1>8 DEF LineageInv, Lineage
<1>10. ASSUME NEW t \in Seats PROVE Place(t)'
  <2>1. Place(t)
    BY DEF LineageInv
  <2>2. ~Starts(t, {"prepared", "recorded"})' /\ exec'[t].at # "entered"
        /\ (exec'[t].at # "idle" => exec'[t].attempt = Latest)
    <3>1. CASE t = s
      <4>1. op[s].at = "idle"
        BY <1>1 DEF LeaseInv, Fits
      <4> QED BY <1>1, <1>5, <3>1, <4>1 DEF Starts
    <3>2. CASE t # s
      BY <1>1, <3>2, OthersRest DEF Spares, Starts
    <3> QED BY <3>1, <3>2
  <2>3. ~Starts(t, {"prepared"})' /\ ~Starts(t, {"recorded"})'
    BY <2>2 DEF Starts
  <2> QED BY <1>1, <1>6, <2>1, <2>2, <2>3 DEF Place, Known
<1>11. ASSUME NEW t \in Seats PROVE Behind(t)'
  <2>1. exec'[t].at # "idle" => exec[t].at # "idle"
    BY <1>1 DEF Spares
  <2> QED BY <1>1, <1>6, <2>1 DEF LineageInv, Behind, Starts, Known
<1> QED BY <1>1, <1>2, <1>3, <1>4, <1>5, <1>9, <1>10, <1>11 DEF LineageInv

(* Recovery is of the latest attempt.                                      *)
LEMMA LineageRecover ==
  ASSUME TypeOK, LeaseInv, LineageInv, NEW s \in Seats, Spares(s), Recover(s)
  PROVE  /\ LineageInv'
         /\ Works(s)
         /\ latest[s] = Latest /\ mem'[s].attempt = RecoveredAttempt(s)
         /\ mem'[s].ended = Recovery(s).ended
         /\ mem'[s].status = Recovery(s).ended.result.status
         /\ IF Recovery(s).write THEN Save(Recovery(s).ended)
                                 ELSE UNCHANGED snapshot
         /\ UNCHANGED <<journal, attempts, trees, guests, op, rec, exec>>
<1>1. /\ seat[s] = "leased" /\ Works(s)
      /\ UNCHANGED <<recorded, journal, attempts, trees, guests, latest, op, rec,
                     exec>>
  BY DEF Recover, Works
<1>2. recorded /\ latest[s] = Latest
  BY <1>1 DEF LineageInv, Place
<1>3. /\ mem'[s].attempt = RecoveredAttempt(s) /\ seat'[s] = "up"
      /\ mem'[s].ended = Recovery(s).ended
      /\ mem'[s].status = Recovery(s).ended.result.status
      /\ IF Recovery(s).write THEN Save(Recovery(s).ended)
                              ELSE UNCHANGED snapshot
  BY TypeParts DEF Recover, Typed
<1>4. /\ Latest' = Latest /\ Latest \in Nat
      /\ \A n : Started(n)' <=> Started(n)
  BY <1>1, Entries DEF Latest, Started, Positions
<1>5. Lineage'
  BY <1>1, <1>4 DEF LineageInv, Lineage
<1> HIDE DEF Latest
<1>6. mem'[s].attempt <= Latest \/ (Latest = 0 /\ mem'[s].attempt = 1)
  BY <1>2, <1>3, <1>4 DEF RecoveredAttempt
<1>7. op[s].at = "idle" /\ exec[s].at = "idle"
  BY <1>1 DEF LeaseInv, Fits, Idle
<1>8. ASSUME NEW t \in Seats PROVE Place(t)'
  <2>1. Place(t)
    BY DEF LineageInv
  <2>2. CASE t # s
    BY <1>1, <1>4, <2>1, <2>2, PlaceOther
  <2>3. CASE t = s
    BY <1>1, <1>2, <1>3, <1>4, <1>6, <1>7, <2>3 DEF Place, Starts
  <2> QED BY <2>2, <2>3
<1>9. ASSUME NEW t \in Seats PROVE Behind(t)'
  <2>1. ~Starts(t, {"prepared", "recorded"}) /\ exec[t].at = "idle"
    BY <1>1, <1>7, OthersRest DEF Starts
  <2> QED BY <1>1, <2>1 DEF Behind, Starts
<1> QED BY <1>1, <1>2, <1>3, <1>5, <1>8, <1>9 DEF LineageInv

(* LineageInv is inductive in a prompt behaviour.                          *)
LEMMA LineageStep ==
  ASSUME Writing, ~adverse, TypeOK, LeaseInv, LeaseInv', LineageInv,
         NEW s \in Seats, Spares(s), StepOf(s)
  PROVE  LineageInv'
<1>1. CASE Check(s)
  BY <1>1, LineageCheck
<1>2. CASE Prepare(s)
  BY <1>2, LineagePrepare
<1>3. CASE RecordAttempt(s)
  BY <1>3, LineageRecordAttempt
<1>4. CASE Execute(s)
  BY <1>4, LineageExecute
<1>5. CASE OpStep(s) /\ ~Prepare(s) /\ ~RecordAttempt(s) /\ ~Execute(s)
  BY <1>5, PlainOpStep, LineagePlain DEF OpStep
<1>6. CASE EnterAttempt(s)
  BY <1>6, LineageEnterAttempt
<1>7. CASE AttemptStep(s) /\ ~EnterAttempt(s)
  BY <1>7, PlainAttemptStep, LineagePlain
<1>8. CASE OpenStore(s)
  BY <1>8, LineageOpenStore
<1>9. CASE Recover(s)
  BY <1>9, LineageRecover
<1>10. CASE \/ \E reason \in {"operator", "seat-shutdown"} : Signal(s, reason)
            \/ BeginReconcile(s) \/ ReconcileStep(s) \/ Crash(s)
            \/ LeaseRecovery(s)
  BY <1>10, PlainOtherStep, LineagePlain
<1> QED BY <1>1, <1>2, <1>3, <1>4, <1>5, <1>6, <1>7, <1>8, <1>9, <1>10
        DEF StepOf, OpenStep

(* The journal, in every step but the start of an attempt.                 *)
LEMMA OtherJournal ==
  ASSUME TypeOK, LeaseInv, LineageInv, NEW s \in Seats, StepOf(s),
         ~EnterAttempt(s)
  PROVE  JournalCarried /\ (UNCHANGED attempts \/ UNCHANGED journal)
<1>1. CASE OpStep(s) /\ ~Prepare(s) /\ ~RecordAttempt(s) /\ ~Execute(s)
  BY <1>1, PlainOpStep DEF OpStep, Plain
<1>2. CASE AttemptStep(s)
  BY <1>2, PlainAttemptStep DEF Plain
<1>3. CASE \/ \E reason \in {"operator", "seat-shutdown"} : Signal(s, reason)
           \/ BeginReconcile(s) \/ ReconcileStep(s) \/ Crash(s)
           \/ LeaseRecovery(s)
  BY <1>3, PlainOtherStep DEF Plain
<1>4. CASE Check(s) \/ Prepare(s) \/ RecordAttempt(s) \/ Execute(s)
           \/ OpenStore(s) \/ Recover(s)
  <2>1. UNCHANGED journal
    BY <1>4 DEF Check, CheckLaunch, CheckRetry, CheckResume, CheckAbandon,
                CheckRelease, Begin, Prepare, RecordAttempt, Execute, OpenStore,
                Recover, store
  <2> QED BY <2>1 DEF JournalCarried
<1> QED BY <1>1, <1>2, <1>3, <1>4 DEF StepOf, OpStep, OpenStep

(* Only EnterAttempt puts a start on record.                               *)
LEMMA OtherStarts ==
  ASSUME TypeOK, LeaseInv, LineageInv, NEW s \in Seats, StepOf(s),
         ~EnterAttempt(s)
  PROVE  /\ Positions("attempt-starting")' = Positions("attempt-starting")
         /\ \A i \in DOMAIN journal : i \in DOMAIN journal' /\ journal'[i] = journal[i]
<1>1. CASE UNCHANGED attempts
  BY <1>1, OtherJournal, JournalPlain
<1>2. CASE UNCHANGED journal
  BY <1>2 DEF Positions
<1> QED BY <1>1, <1>2, OtherJournal

(* An attempt starts once: only the seat that executes it writes its       *)
(* start, once, and none was written before.                               *)
LEMMA OnceStep ==
  ASSUME Writing, ~adverse, TypeOK, LeaseInv, LineageInv, AttemptsStartOnce,
         NEW s \in Seats, Spares(s), StepOf(s)
  PROVE  AttemptsStartOnce'
<1>1. CASE EnterAttempt(s)
  <2>1. /\ Latest \in Ordinals /\ ~Started(Latest)
        /\ Write("attempt-starting", Latest)
    BY <1>1, LineageEnterAttempt
  <2> DEFINE new == Len(journal) + 1
  <2>2. /\ \A i \in DOMAIN journal : journal'[i] = journal[i]
        /\ journal'[new] = Event("attempt-starting", Latest)
        /\ DOMAIN journal' = DOMAIN journal \cup {new}
    BY <2>1, Appended DEF EventTypes
  <2>3. \A i \in Positions("attempt-starting")' :
          i = new \/ i \in Positions("attempt-starting")
    BY <2>2 DEF Positions
  <2>4. \A i \in Positions("attempt-starting") :
          journal'[i].attempt = journal[i].attempt /\ journal[i].attempt # Latest
    BY <2>1, <2>2 DEF Positions, Started
  <2>5. journal'[new].attempt = Latest
    BY <2>2 DEF Event
  <2> HIDE DEF new, Latest
  <2> QED BY <2>3, <2>4, <2>5 DEF AttemptsStartOnce
<1>2. CASE ~EnterAttempt(s)
  <2>1. Positions("attempt-starting") \subseteq DOMAIN journal
    BY DEF Positions
  <2> QED BY <1>2, <2>1, OtherStarts DEF AttemptsStartOnce
<1> QED BY <1>1, <1>2

(* In a prompt behaviour all of the above holds in every state.            *)
Prompt == TypeOK /\ LeaseInv /\ SoundInv /\ (adverse \/ LineageInv)

(* At first there is no attempt.                                           *)
LEMMA LineageInit == Init => LineageInv /\ AttemptsStartOnce
<1>1. SUFFICES ASSUME Init PROVE LineageInv /\ AttemptsStartOnce
  OBVIOUS
<1>2. /\ attempts = <<>> /\ journal = <<>> /\ recorded = FALSE
      /\ Latest = 0 /\ DOMAIN journal = {}
  BY <1>1 DEF Init, Latest
<1>3. AttemptsStartOnce
  BY <1>2 DEF AttemptsStartOnce, Positions
<1>4. Lineage
  BY <1>2 DEF Lineage
<1>5. ASSUME NEW s \in Seats PROVE Place(s) /\ Behind(s)
  <2>1. /\ seat[s] = "up" /\ mem[s].status = "none" /\ op[s].at = "idle"
        /\ exec[s].at = "idle"
    BY <1>1 DEF Init, Idle, NoRun
  <2> QED BY <2>1 DEF Place, Behind, Known, Starts
<1> QED BY <1>3, <1>4, <1>5 DEF LineageInv

(* At first all of it holds.                                               *)
LEMMA PromptInit == Init => Prompt
<1>1. Init => SoundInv
  BY DEF Init, SoundInv, SoundSaved, SoundMem, SoundExec, Ended, Known, NoRun,
         Idle
<1> QED BY <1>1, LeaseInit, LineageInit DEF Prompt

(* Prompt is inductive for runs with a worktree.                           *)
LEMMA PromptStep ==
  ASSUME Writing, Prompt, [Next]_vars
  PROVE  Prompt'
<1>1. TypeOK' /\ LeaseInv' /\ SoundInv'
  BY LeaseStep, SoundStep DEF Prompt
<1>2. adverse' \/ LineageInv'
  <2>1. CASE /\ UNCHANGED <<adverse, holder, recorded, attempts, journal,
                            snapshot>>
             /\ UNCHANGED <<trees, guests, seat, latest, mem, op, rec, exec,
                            crashes>>
    BY <2>1 DEF Prompt, LineageInv, Lineage, Place, Behind, Latest, Started,
                Positions, Known, Starts
  <2>2. ASSUME UNCHANGED adverse, NEW s \in Seats, StepOf(s)
        PROVE  adverse' \/ LineageInv'
    BY <1>1, <2>2, LeaseSeatStep, LineageStep DEF Prompt
  <2> QED BY <2>1, <2>2, Steps
<1> QED BY <1>1, <1>2 DEF Prompt

(* Prompt seats start an attempt once, however many launch, retry or       *)
(* resume the run and die.                                                 *)
THEOREM PromptStartsOnce ==
  ASSUME Writing PROVE Spec => []PromptSeatsStartOnce
<1>1. Init => Prompt /\ PromptSeatsStartOnce
  BY PromptInit, LineageInit DEF PromptSeatsStartOnce
<1>2. Prompt /\ PromptSeatsStartOnce /\ [Next]_vars
        => Prompt' /\ PromptSeatsStartOnce'
  <2>1. SUFFICES ASSUME Prompt, PromptSeatsStartOnce, [Next]_vars
                 PROVE  PromptSeatsStartOnce'
    BY PromptStep
  <2>2. CASE /\ UNCHANGED <<adverse, holder, recorded, attempts, journal,
                            snapshot>>
             /\ UNCHANGED <<trees, guests, seat, latest, mem, op, rec, exec,
                            crashes>>
    BY <2>1, <2>2 DEF PromptSeatsStartOnce, AttemptsStartOnce, Positions
  <2>3. ASSUME UNCHANGED adverse, NEW s \in Seats, StepOf(s)
        PROVE  PromptSeatsStartOnce'
    BY <2>1, <2>3, LeaseSeatStep, OnceStep DEF Prompt, PromptSeatsStartOnce
  <2> QED BY <2>1, <2>2, <2>3, Steps
<1> QED BY <1>1, <1>2, PTL DEF Spec

------------------------------------------------------------------------------
(* The snapshot: whoever takes a result from it, or ends an attempt, has   *)
(* one that was written after the latest start.                            *)
AllCovered == \A i \in Positions("attempt-starting") : i <= snapshot.at

\* only the latest attempt may have started since the snapshot
Sealed ==
  /\ snapshot.at <= Len(journal)
  /\ \A i \in Positions("attempt-starting") :
       journal[i].attempt < Latest => i <= snapshot.at

EndedLatest(s) == Ended(s) /\ mem[s].attempt = Latest

CoverOf(s) ==
  /\ EndedLatest(s) => AllCovered \/ Has("run-abandoned")
  /\ Starts(s, {"prepared", "recorded"}) => AllCovered

CoverInv == Sealed /\ \A s \in Seats : CoverOf(s)

(* The place a snapshot covers up to is a number.                          *)
LEMMA SnapshotType == TypeOK => snapshot.at \in Nat
<1>1. SUFFICES ASSUME TypeOK PROVE snapshot.at \in Nat
  OBVIOUS
<1>2. snapshot \in {NoSnapshot} \cup Saved
  BY <1>1, TypeParts DEF Typed, StoreTyped
<1> QED BY <1>2 DEF NoSnapshot, Saved

(* A snapshot taken now covers every start.                                *)
LEMMA SaveCovers ==
  ASSUME TypeOK', NEW e, Save(e)
  PROVE  AllCovered' /\ CoverInv'
<1>1. snapshot'.at = Len(journal')
  BY DEF Save
<1>2. Len(journal') \in Nat /\ DOMAIN journal' = 1..Len(journal')
  <2>1. journal' \in Seq([type : EventTypes, attempt : Ordinals])
    BY TypeParts DEF Typed, StoreTyped
  <2> QED BY <2>1
<1>3. AllCovered'
  BY <1>1, <1>2 DEF AllCovered, Positions
<1>4. Sealed'
  BY <1>1, <1>2, <1>3 DEF Sealed, AllCovered
<1> QED BY <1>3, <1>4 DEF CoverInv, CoverOf

(* Steps that take none: what counts is whether the seat that takes the    *)
(* step ends the latest attempt or prepares the next.                      *)
LEMMA JournalKept ==
  ASSUME TypeOK, JournalCarried
  PROVE  /\ Len(journal) <= Len(journal')
         /\ \A i \in DOMAIN journal : i \in DOMAIN journal' /\ journal'[i] = journal[i]
         /\ \A x : Has(x) => Has(x)'
<1>1. CASE UNCHANGED journal
  BY <1>1, Entries DEF Has, Positions
<1>2. ASSUME NEW type \in EventTypes, NEW n \in Ordinals, Write(type, n)
      PROVE  /\ Len(journal) <= Len(journal')
             /\ \A i \in DOMAIN journal :
                  i \in DOMAIN journal' /\ journal'[i] = journal[i]
             /\ \A x : Has(x) => Has(x)'
  <2>1. /\ Len(journal) <= Len(journal')
        /\ \A i \in DOMAIN journal :
             i \in DOMAIN journal' /\ journal'[i] = journal[i]
    BY <1>2, Appended
  <2> QED BY <2>1 DEF Has, Positions
<1> QED BY <1>1, <1>2 DEF JournalCarried

(* Steps that leave the snapshot, and put no start on record.              *)
LEMMA CoverKeep ==
  ASSUME TypeOK, TypeOK', LeaseInv, LineageInv, CoverInv, NEW s \in Seats,
         StepOf(s), ~EnterAttempt(s), Spares(s), UNCHANGED <<snapshot, attempts>>,
         EndedLatest(s)' => EndedLatest(s) \/ AllCovered \/ Has("run-abandoned")',
         Starts(s, {"prepared", "recorded"})' => AllCovered
  PROVE  CoverInv'
<1>1. /\ Positions("attempt-starting")' = Positions("attempt-starting")
      /\ \A i \in DOMAIN journal : journal'[i] = journal[i]
  BY OtherStarts
<1>2. Positions("attempt-starting") \subseteq DOMAIN journal
  BY DEF Positions
<1>3. /\ Latest' = Latest /\ (AllCovered' <=> AllCovered)
  BY <1>1 DEF Latest, AllCovered
<1>4. Len(journal) <= Len(journal') /\ (\A x : Has(x) => Has(x)')
  BY OtherJournal, JournalKept
<1>5. snapshot.at \in Nat /\ Len(journal) \in Nat /\ Len(journal') \in Nat
  <2>1. journal' \in Seq([type : EventTypes, attempt : Ordinals])
    BY TypeParts DEF Typed, StoreTyped
  <2> QED BY <2>1, SnapshotType, Entries
<1>6. Sealed'
  BY <1>1, <1>2, <1>3, <1>4, <1>5 DEF CoverInv, Sealed
<1>7. CoverOf(s)'
  BY <1>3, <1>4 DEF CoverInv, CoverOf
<1>8. ASSUME NEW t \in Seats \ {s} PROVE CoverOf(t)'
  <2>1. (EndedLatest(t)' <=> EndedLatest(t))
        /\ (Starts(t, {"prepared", "recorded"})' <=>
              Starts(t, {"prepared", "recorded"}))
    BY <1>3 DEF Spares, EndedLatest, Ended, Known, Starts
  <2> QED BY <1>3, <1>4, <2>1 DEF CoverInv, CoverOf
<1> QED BY <1>6, <1>7, <1>8 DEF CoverInv

(* ... such as those that end nothing.                                     *)
LEMMA CoverPlain ==
  ASSUME TypeOK, TypeOK', LeaseInv, LineageInv, CoverInv, NEW s \in Seats,
         StepOf(s), ~EnterAttempt(s), Spares(s), UNCHANGED <<snapshot, attempts>>,
         Starts(s, {"prepared", "recorded"})' => Starts(s, {"prepared", "recorded"}),
         Ended(s)' => Ended(s) /\ mem'[s].attempt = mem[s].attempt
  PROVE  CoverInv'
<1>1. EndedLatest(s)' => EndedLatest(s)
  BY DEF EndedLatest, Latest
<1>2. Starts(s, {"prepared", "recorded"})' => AllCovered
  BY DEF CoverInv, CoverOf
<1> QED BY <1>1, <1>2, CoverKeep

(* An attempt is prepared only after what came before is covered.          *)
LEMMA CoverPrepare ==
  ASSUME Writing, TypeOK, TypeOK', LeaseInv, LineageInv, LineageInv', CoverInv,
         NEW s \in Seats, Spares(s), Prepare(s)
  PROVE  /\ CoverInv'
         /\ Starts(s, {"prepared", "recorded"})' =>
              \/ op[s].kind = "launch" /\ ~recorded /\ Latest = 0
              \/ /\ EndedLatest(s) /\ mem[s].status \in {"failed", "interrupted"}
                 /\ ~Has("run-abandoned") /\ ~Pending /\ Persisted
<1>1. /\ op[s] # Idle /\ op[s].at = "leased" /\ op[s] \in Operation
      /\ op[s].kind \in Starting /\ op[s].at # "idle"
      /\ UNCHANGED <<attempts, journal, snapshot, mem>>
  BY OpType DEF Prepare, At
<1>2. op \in [Seats -> {Idle} \cup Operation] /\ Idle.at = "idle"
  BY TypeParts DEF Typed, Idle
<1>3. Lineage /\ Place(s) /\ Fits(s)
  BY DEF LineageInv, LeaseInv
<1>4. ASSUME Starts(s, {"prepared", "recorded"})'
      PROVE  /\ op[s].kind = "launch" => ~recorded
             /\ op[s].kind # "launch" => DurableStatus = op[s].prior
  <2>1. ~(op' = [op EXCEPT ![s] = Idle])
    BY <1>2, <1>4 DEF Starts
  <2>2. op[s].prior # "none" => DurableStatus = op[s].prior
    BY <2>1 DEF Prepare, Throw
  <2>3. op[s].kind # "launch" => op[s].prior # "none"
    BY <1>1, <1>3 DEF Place, Starting
  <2>4. op[s].kind = "launch" => ~recorded
    <3>1. SUFFICES ASSUME op[s].kind = "launch", recorded PROVE FALSE
      OBVIOUS
    <3>2. op[s].tree = 0 /\ op[s].ordinal = 1 /\ trees[1] # "none"
      BY <1>1, <1>3, <3>1 DEF Place, Lineage
    <3> QED BY <2>1, <3>2 DEF Prepare, Throw
  <2> QED BY <2>2, <2>3, <2>4
<1>5. ASSUME Starts(s, {"prepared", "recorded"})', op[s].kind = "launch"
      PROVE  ~recorded /\ Latest = 0
  <2>1. attempts = <<>>
    BY <1>3, <1>4, <1>5 DEF Lineage
  <2> QED BY <1>4, <1>5, <2>1 DEF Latest
<1>6. ASSUME Starts(s, {"prepared", "recorded"})', op[s].kind # "launch"
      PROVE  /\ EndedLatest(s) /\ mem[s].status \in {"failed", "interrupted"}
             /\ ~Has("run-abandoned") /\ ~Pending /\ Persisted
  <2>1. op[s].kind \in {"retry", "resume"}
    BY <1>1, <1>6 DEF Starting
  <2>2. Known(s) /\ mem[s].status \in {"failed", "interrupted"}
    BY <1>1, <1>3, <2>1 DEF Fits
  <2>3. Ended(s)
    BY <1>3, <2>2 DEF Fits, Ended
  <2>4. mem[s].attempt = Latest
    <3>1. mem[s].attempt + 1 = Latest + 1
      BY <1>1, <1>3, <2>1 DEF Place
    <3>2. mem[s].attempt \in Nat /\ Latest \in Nat
      BY <2>2, MemoryType, Entries DEF Memory, Latest
    <3> HIDE DEF Latest
    <3> QED BY <3>1, <3>2
  <2>5. DurableStatus \in {"failed", "interrupted"}
    BY <1>1, <1>3, <1>4, <1>6, <2>1 DEF Place
  <2> QED BY <2>2, <2>3, <2>4, <2>5 DEF EndedLatest, DurableStatus
<1>7. Starts(s, {"prepared", "recorded"})' => AllCovered
  <2>1. CASE ~recorded /\ Latest = 0
    <3>1. \A i \in Positions("attempt-starting") : journal[i].attempt <= 0
      BY <1>3, <2>1 DEF Positions, Lineage
    <3>2. \A i \in Positions("attempt-starting") : journal[i].attempt \in Nat
                                                   /\ journal[i].attempt >= 1
      BY Entries DEF Positions
    <3>3. Positions("attempt-starting") = {}
      BY <3>1, <3>2
    <3> QED BY <3>3 DEF AllCovered
  <2>2. CASE EndedLatest(s) /\ ~Has("run-abandoned")
    BY <2>2 DEF CoverInv, CoverOf
  <2> QED BY <1>5, <1>6, <2>1, <2>2
<1>8. EndedLatest(s)' => EndedLatest(s)
  BY <1>1 DEF EndedLatest, Ended, Known, Latest
<1>9. StepOf(s) /\ ~EnterAttempt(s)
  <2>1. exec[s].at = "idle"
    BY <1>1, <1>3 DEF Fits
  <2> QED BY <2>1 DEF StepOf, OpStep, EnterAttempt, Executing
<1> QED BY <1>1, <1>5, <1>6, <1>7, <1>8, <1>9, CoverKeep

(* The record of an attempt leaves every start covered.                    *)
LEMMA CoverRecordAttempt ==
  ASSUME ~adverse, TypeOK, TypeOK', LeaseInv, LeaseInv', LineageInv, CoverInv,
         NEW s \in Seats, Spares(s), RecordAttempt(s)
  PROVE  CoverInv' /\ \A t \in Seats : ~EndedLatest(t)'
<1>1. /\ LineageInv' /\ Latest' = Latest + 1
      /\ Starts(s, {"prepared"}) /\ Starts(s, {"recorded"})'
      /\ UNCHANGED <<journal, snapshot, mem>>
  BY LineageRecordAttempt
<1>2. Latest \in Nat
  BY Entries
<1>3. AllCovered /\ AllCovered'
  BY <1>1 DEF CoverInv, CoverOf, Starts, AllCovered, Positions
<1>4. Sealed'
  BY <1>1, <1>3 DEF CoverInv, Sealed, AllCovered
<1> HIDE DEF Latest
<1>5. ASSUME NEW t \in Seats, Known(t)' PROVE mem'[t].attempt < Latest'
  <2>1. CASE t # s
    BY <1>1, <1>5, <2>1 DEF LineageInv, Behind
  <2>2. CASE t = s
    <3>1. /\ Fits(s)' /\ op'[s].at = "recorded" /\ op'[s].kind \in Starting
          /\ Place(s)'
      BY <1>1 DEF LeaseInv, Starts, LineageInv
    <3>2. op'[s].kind \in {"retry", "resume"}
      BY <1>5, <2>2, <3>1 DEF Fits, Starting
    <3>3. mem'[s].attempt + 1 = op'[s].ordinal /\ op'[s].ordinal = Latest'
      BY <1>1, <3>1, <3>2 DEF Place
    <3>4. mem'[s].attempt \in Nat
      BY <1>1, <1>5, <2>2, MemoryType, Entries DEF Memory, Known
    <3> QED BY <1>1, <1>2, <2>2, <3>3, <3>4
  <2> QED BY <2>1, <2>2
<1>6. ASSUME NEW t \in Seats PROVE ~EndedLatest(t)'
  <2>1. Known(t)' => mem'[t].attempt # Latest'
    <3>1. Known(t)' => mem'[t].attempt \in Nat
      BY <1>1, MemoryType, Entries DEF Memory, Known
    <3> QED BY <1>1, <1>2, <1>5, <3>1
  <2> QED BY <2>1 DEF EndedLatest, Ended
<1>7. ASSUME NEW t \in Seats PROVE CoverOf(t)'
  BY <1>3, <1>6 DEF CoverOf
<1> QED BY <1>4, <1>6, <1>7 DEF CoverInv

(* A step that writes no snapshot ends nothing, and keeps what a seat      *)
(* remembers of the sandbox.                                               *)
EndedCarried(s) ==
  Ended(s)' =>
    /\ Ended(s) /\ mem'[s].attempt = mem[s].attempt
    /\ mem'[s].ended.result.sandbox = mem[s].ended.result.sandbox

(* Other steps than a recovery save a result, or show none that is new.    *)
LEMMA SavesOrCarries ==
  ASSUME TypeOK, LeaseInv, NEW s \in Seats, StepOf(s), ~Recover(s)
  PROVE  (\E e : Save(e)) \/ (UNCHANGED snapshot /\ EndedCarried(s))
<1>1. /\ mem \in [Seats -> {NoRun} \cup Memory] /\ NoRun.status = "none"
      /\ exec \in [Seats -> {Idle} \cup Attempting \cup Settled]
  BY TypeParts DEF Typed, NoRun
<1>2. CASE UNCHANGED <<snapshot, mem>>
  BY <1>2 DEF EndedCarried, Ended, Known
<1>3. CASE \/ Check(s) \/ Acquire(s) \/ Fenced(s) \/ Prepare(s)
           \/ RecordAttempt(s) \/ ReleaseTrees(s)
  BY <1>2, <1>3
  DEF Check, CheckLaunch, CheckRetry, CheckResume, CheckAbandon, CheckRelease,
      Begin, Acquire, Fenced, Prepare, RecordAttempt, ReleaseTrees, store
<1>4. CASE \/ EnterAttempt(s) \/ BootVm(s) \/ RecordVm(s) \/ RecordSession(s)
           \/ BeginReconcile(s) \/ Observe(s) \/ OpenStore(s)
           \/ LeaseRecovery(s)
  BY <1>2, <1>4
  DEF EnterAttempt, BootVm, RecordVm, RecordSession, BeginReconcile, Observe,
      OpenStore, LeaseRecovery, store
<1>5. CASE Complete(s) \/ EndCleanly(s) \/ EndBlocked(s) \/ EndLeaked(s)
  <2>1. \E result : Settle(s, result)
    BY <1>5 DEF Complete, EndCleanly, EndBlocked, EndLeaked
  <2> QED BY <2>1 DEF Settle
<1>6. CASE Execute(s)
  <2>1. CASE UNCHANGED mem
    BY <1>2, <1>6, <2>1 DEF Execute, store
  <2>2. CASE mem' = [mem EXCEPT ![s] =
                       [status |-> "active", attempt |-> op[s].ordinal,
                        ended |-> NoExecution, leased |-> TRUE]]
    BY <1>1, <1>6, <2>2 DEF Execute, store, EndedCarried, Ended
  <2> QED BY <1>6, <2>1, <2>2 DEF Execute
<1>7. ASSUME NEW status, NEW e, UNCHANGED snapshot, Ended(s),
             Remember(s, status, e),
             e.result.sandbox = mem[s].ended.result.sandbox
      PROVE  EndedCarried(s)
  <2>1. mem[s] \in Memory
    BY <1>7, MemoryType DEF Ended, Known
  <2>2. mem'[s].attempt = mem[s].attempt /\ mem'[s].ended = e
    BY <1>1, <1>7, <2>1 DEF Remember, Memory
  <2> QED BY <1>7, <2>2 DEF EndedCarried
<1>8. CASE BeginAbandon(s) \/ FinishAbandon(s)
  <2>1. Ended(s)
    <3>1. op[s].at # "idle" /\ op[s].kind = "abandon"
      BY <1>8, OpType DEF BeginAbandon, FinishAbandon, At
    <3> QED BY <3>1 DEF LeaseInv, Fits
  <2>2. CASE BeginAbandon(s)
    <3>1. CASE UNCHANGED mem
      BY <1>2, <2>2, <3>1 DEF BeginAbandon
    <3>2. CASE ~UNCHANGED mem
      <4> DEFINE e == Execution(Result("cleanup-blocked", "reconcile",
                                  mem[s].ended.result.sandbox, UnprovedTree),
                                FALSE)
      <4>1. Remember(s, "cleanup-blocked", e) /\ UNCHANGED snapshot
        BY <2>2, <3>2 DEF BeginAbandon
      <4>2. e.result.sandbox = mem[s].ended.result.sandbox
        BY DEF Execution, Result
      <4> HIDE DEF e
      <4> QED BY <1>7, <2>1, <4>1, <4>2
    <3> QED BY <3>1, <3>2
  <2>3. CASE FinishAbandon(s)
    <3> DEFINE e == Execution(Result("abandoned", "never",
                                mem[s].ended.result.sandbox, ReleasedTree),
                              FALSE)
    <3>1. \/ \E x : Save(x)
          \/ UNCHANGED snapshot /\ Remember(s, "abandoned", e)
      BY <2>3 DEF FinishAbandon
    <3>2. e.result.sandbox = mem[s].ended.result.sandbox
      BY DEF Execution, Result
    <3> HIDE DEF e
    <3> QED BY <1>7, <2>1, <3>1, <3>2
  <2> QED BY <1>8, <2>2, <2>3
<1>9. CASE FinishRelease(s)
  <2>1. CASE mem[s].ended = NoExecution
    BY <1>2, <1>9, <2>1 DEF FinishRelease
  <2>2. CASE mem[s].ended # NoExecution
    BY <1>9, <2>2 DEF FinishRelease
  <2> QED BY <2>1, <2>2
<1>10. ASSUME NEW status, UNCHANGED snapshot, Known(s),
              mem' = [mem EXCEPT ![s].status = status]
       PROVE  EndedCarried(s)
  <2>1. mem[s] \in Memory
    BY <1>10, MemoryType DEF Known
  <2>2. mem'[s].attempt = mem[s].attempt /\ mem'[s].ended = mem[s].ended
    BY <1>1, <1>10, <2>1 DEF Memory
  <2> QED BY <1>10, <2>2 DEF EndedCarried, Ended
<1>11. CASE EndThrown(s) \/ Finalize(s)
  <2>1. exec[s].at # "idle"
    BY <1>11 DEF EndThrown, Finalize, Executing, Idle
  <2>2. Known(s)
    BY <2>1 DEF LeaseInv, Fits, Known
  <2>3. \/ \E e : Save(e)
        \/ /\ UNCHANGED snapshot
           /\ mem' = [mem EXCEPT ![s].status = "cleanup-blocked"]
    BY <1>11 DEF EndThrown, Finalize, store
  <2> QED BY <1>10, <2>2, <2>3
<1>12. CASE \E reason \in {"operator", "seat-shutdown"} : Signal(s, reason)
  <2>1. /\ UNCHANGED snapshot /\ mem[s].status \in {"active", "stopping"}
        /\ mem' = [mem EXCEPT ![s].status = "stopping"]
    BY <1>12 DEF Signal, store
  <2>2. Known(s)
    BY <2>1 DEF Known
  <2> QED BY <1>10, <2>1, <2>2
<1>13. CASE FinishReconcile(s)
  <2>1. (\E e : Save(e)) \/ UNCHANGED <<snapshot, mem>>
    BY <1>13 DEF FinishReconcile
  <2> QED BY <1>2, <2>1
<1>14. CASE Crash(s)
  <2>1. UNCHANGED snapshot /\ mem'[s] = NoRun
    BY <1>1, <1>14 DEF Crash, store
  <2> QED BY <1>1, <2>1 DEF EndedCarried, Ended, Known
<1> QED BY <1>3, <1>4, <1>5, <1>6, <1>8, <1>9, <1>11, <1>12, <1>13, <1>14
        DEF StepOf, OpStep, AttemptStep, ReconcileStep, OpenStep

(* A start is not covered: no seat may then have a result of the latest    *)
(* attempt.                                                                *)
LEMMA CoverEnterAttempt ==
  ASSUME TypeOK, TypeOK', LeaseInv, LineageInv, CoverInv, NEW s \in Seats,
         Spares(s), EnterAttempt(s)
  PROVE  /\ CoverInv' /\ ~AllCovered'
         /\ \A t \in Seats : ~EndedLatest(t) /\ ~EndedLatest(t)'
<1>1. /\ Works(s) /\ exec[s].at = "entered" /\ Latest \in Ordinals
      /\ Write("attempt-starting", Latest)
      /\ UNCHANGED <<snapshot, attempts, mem, op>>
  BY LineageEnterAttempt
<1>2. /\ Len(journal) \in Nat /\ Len(journal') = Len(journal) + 1
      /\ Positions("attempt-starting") \subseteq DOMAIN journal
      /\ \A i \in DOMAIN journal : journal'[i] = journal[i]
      /\ journal'[Len(journal) + 1] = Event("attempt-starting", Latest)
      /\ Positions("attempt-starting")' =
           Positions("attempt-starting") \cup {Len(journal) + 1}
  <2>1. /\ DOMAIN journal' = DOMAIN journal \cup {Len(journal) + 1}
        /\ \A i \in DOMAIN journal : journal'[i] = journal[i]
        /\ journal'[Len(journal) + 1] = Event("attempt-starting", Latest)
        /\ Len(journal) \in Nat /\ Len(journal') = Len(journal) + 1
    BY <1>1, Appended DEF EventTypes
  <2>2. Positions("attempt-starting")' =
          Positions("attempt-starting") \cup {Len(journal) + 1}
    BY <2>1 DEF Positions, Event
  <2> QED BY <2>1, <2>2 DEF Positions
<1>3. snapshot.at \in Nat /\ snapshot.at <= Len(journal) /\ Latest' = Latest
  BY <1>1, SnapshotType DEF CoverInv, Sealed, Latest
<1>4. Latest \in Nat
  BY Entries
<1> HIDE DEF Latest
<1>5. Sealed'
  <2>1. journal'[Len(journal) + 1].attempt = Latest
    BY <1>2 DEF Event
  <2> QED BY <1>1, <1>2, <1>3, <1>4, <2>1 DEF CoverInv, Sealed
<1>6. ~AllCovered'
  BY <1>1, <1>2, <1>3 DEF AllCovered
<1>7. ASSUME NEW t \in Seats PROVE ~EndedLatest(t)
  <2>1. CASE t = s
    BY <1>1, <2>1 DEF LeaseInv, Fits, EndedLatest, Ended
  <2>2. CASE t # s
    <3>1. Known(t) => mem[t].attempt < Latest /\ mem[t].attempt \in Nat
      BY <1>1, <2>2, MemoryType, Entries DEF LineageInv, Behind, Memory
    <3> QED BY <1>4, <3>1 DEF EndedLatest, Ended
  <2> QED BY <2>1, <2>2
<1>8. ASSUME NEW t \in Seats PROVE ~EndedLatest(t)'
  BY <1>1, <1>3, <1>7 DEF EndedLatest, Ended, Known
<1>9. ASSUME NEW t \in Seats PROVE ~Starts(t, {"prepared", "recorded"})'
  <2>1. op[s].at = "idle"
    BY <1>1 DEF LeaseInv, Fits
  <2> QED BY <1>1, <2>1, OthersRest DEF Starts
<1> QED BY <1>5, <1>6, <1>7, <1>8, <1>9 DEF CoverInv, CoverOf

(* Recovery: what it does not write again is covered by the snapshot.      *)
LEMMA CoverRecover ==
  ASSUME TypeOK, TypeOK', LeaseInv, LineageInv, CoverInv, NEW s \in Seats,
         Spares(s), Recover(s)
  PROVE  /\ CoverInv'
         /\ EndedLatest(s)' => Recovery(s).write \/ AllCovered
                               \/ Has("run-abandoned")
         /\ mem'[s].status \notin {"cleanup-blocked", "abandoned"} => AllCovered
<1>1. /\ latest[s] = Latest /\ mem'[s].attempt = RecoveredAttempt(s)
      /\ mem'[s].ended = Recovery(s).ended
      /\ mem'[s].status = Recovery(s).ended.result.status
      /\ IF Recovery(s).write THEN Save(Recovery(s).ended)
                              ELSE UNCHANGED snapshot
      /\ UNCHANGED <<journal, attempts, op, exec>>
  BY LineageRecover
<1>2. ASSUME Covers(s) PROVE AllCovered
  <2>1. SUFFICES ASSUME NEW i \in Positions("attempt-starting")
                 PROVE  i <= snapshot.at
    BY DEF AllCovered
  <2>2. i \in DOMAIN journal /\ journal[i].type = "attempt-starting"
    BY DEF Positions
  <2>3. journal[i].attempt \in Nat /\ journal[i].attempt >= 1
        /\ journal[i].attempt <= Latest /\ Latest \in Nat /\ i \in Nat
    BY <2>2, Entries DEF LineageInv, Lineage
  <2>4. RecoveredAttempt(s) = Latest
    <3> HIDE DEF Latest
    <3> QED BY <1>1, <2>3 DEF RecoveredAttempt
  <2>5. CASE journal[i].attempt = Latest
    BY <1>2, <2>3, <2>4, <2>5, SnapshotType DEF Covers
  <2>6. CASE journal[i].attempt < Latest
    BY <2>6 DEF CoverInv, Sealed
  <2> HIDE DEF Latest
  <2> QED BY <2>3, <2>5, <2>6
<1>3. \/ Recovery(s).write /\ Recovery(s).ended.result.status = "cleanup-blocked"
      \/ /\ ~Recovery(s).write /\ Has("run-abandoned")
         /\ Recovery(s).ended.result.status = "abandoned"
      \/ ~Recovery(s).write /\ Covers(s)
  BY DEF Recovery, Execution, Result
<1>4. CoverInv'
  <2>1. CASE Recovery(s).write
    BY <1>1, <2>1, SaveCovers
  <2>2. CASE ~Recovery(s).write
    <3>1. StepOf(s) /\ ~EnterAttempt(s)
      <4>1. exec[s].at = "idle"
        BY DEF Recover, LeaseInv, Fits, Idle
      <4> QED BY <4>1 DEF StepOf, OpenStep, EnterAttempt, Executing
    <3>2. AllCovered \/ Has("run-abandoned")'
      BY <1>1, <1>2, <1>3, <2>2 DEF Has, Positions
    <3>3. Starts(s, {"prepared", "recorded"})' => AllCovered
      BY <1>1 DEF CoverInv, CoverOf, Starts
    <3> QED BY <1>1, <2>2, <3>1, <3>2, <3>3, CoverKeep
  <2> QED BY <2>1, <2>2
<1> QED BY <1>1, <1>2, <1>3, <1>4

(* CoverInv is inductive in a prompt behaviour.                            *)
LEMMA CoverStep ==
  ASSUME Writing, ~adverse, TypeOK, TypeOK', LeaseInv, LeaseInv', LineageInv,
         LineageInv', CoverInv, NEW s \in Seats, Spares(s), StepOf(s)
  PROVE  CoverInv'
<1>1. CASE Prepare(s)
  BY <1>1, CoverPrepare
<1>2. CASE RecordAttempt(s)
  BY <1>2, CoverRecordAttempt
<1>3. CASE EnterAttempt(s)
  BY <1>3, CoverEnterAttempt
<1>4. CASE Recover(s)
  BY <1>4, CoverRecover
<1>5. CASE ~Prepare(s) /\ ~RecordAttempt(s) /\ ~EnterAttempt(s) /\ ~Recover(s)
  <2>1. CASE \E e : Save(e)
    BY <2>1, SaveCovers
  <2>2. CASE UNCHANGED snapshot /\ EndedCarried(s)
    <3>1. UNCHANGED attempts
      BY <1>5, PlainOpStep, PlainAttemptStep, PlainOtherStep
      DEF StepOf, Check, CheckLaunch, CheckRetry, CheckResume, CheckAbandon,
          CheckRelease, Begin, OpStep, Execute, OpenStep, OpenStore, store, Plain
    <3>2. Starts(s, {"prepared", "recorded"})'
            => Starts(s, {"prepared", "recorded"})
      <4>1. CASE Check(s)
        <5>1. op'[s].at = "checked"
          BY <4>1, TypeParts
          DEF Check, CheckLaunch, CheckRetry, CheckResume, CheckAbandon,
              CheckRelease, Begin, Typed
        <5> QED BY <5>1 DEF Starts
      <4>2. CASE Execute(s)
        BY <4>2, LineageExecute DEF Starts
      <4>3. CASE OpenStore(s)
        BY <4>3 DEF OpenStore, Starts
      <4>4. CASE Plain(s)
        BY <4>4 DEF Plain, OpCarried, Starts
      <4> QED BY <1>5, <4>1, <4>2, <4>3, <4>4, PlainOpStep, PlainAttemptStep,
                 PlainOtherStep
              DEF StepOf, OpStep, OpenStep
    <3> QED BY <1>5, <2>2, <3>1, <3>2, CoverPlain DEF EndedCarried
  <2> QED BY <1>5, <2>1, <2>2, SavesOrCarries
<1> QED BY <1>1, <1>2, <1>3, <1>4, <1>5

(* Only recovery loads a run into a seat that opens the store.             *)
LEMMA OpensByRecover ==
  ASSUME TypeOK, LeaseInv, NEW s \in Seats, NEW t \in Seats, StepOf(t), Spares(t),
         seat[s] = "leased", seat'[s] = "up"
  PROVE  s = t /\ Recover(s)
<1>1. s = t
  BY DEF Spares
<1>2. mem[s] = NoRun /\ op[s] = Idle /\ rec[s] = Idle /\ exec[s] = Idle
  BY DEF LeaseInv, Fits
<1>3. ~Crash(s)
  BY TypeParts DEF Crash, Typed
<1>4. /\ ~Check(s) /\ ~OpStep(s) /\ ~AttemptStep(s) /\ ~BeginReconcile(s)
      /\ ~ReconcileStep(s)
      /\ ~\E reason \in {"operator", "seat-shutdown"} : Signal(s, reason)
  BY <1>2
  DEF Check, CheckLaunch, CheckRetry, CheckResume, CheckAbandon, CheckRelease,
      Begin, Loaded, Up, OpStep, Acquire, Fenced, Prepare, RecordAttempt, Execute,
      BeginAbandon, FinishAbandon, ReleaseTrees, FinishRelease, At, AttemptStep,
      EnterAttempt, BootVm, RecordVm, RecordSession, Complete, EndCleanly,
      EndBlocked, EndLeaked, EndThrown, Finalize, Executing, BeginReconcile,
      ReconcileStep, Observe, FinishReconcile, Signal
<1> QED BY <1>1, <1>3, <1>4 DEF StepOf, OpenStep, OpenStore, LeaseRecovery

(* A prompt seat that opens the store takes a terminal status only from a  *)
(* snapshot written after the latest start in the journal.                 *)
THEOREM PromptRecoversLatest ==
  ASSUME Writing PROVE Spec => PromptSeatsRecoverLatest
<1> DEFINE Inv == Prompt /\ (adverse \/ CoverInv)
<1>1. Init => Inv
  <2>1. SUFFICES ASSUME Init PROVE CoverInv
    BY PromptInit
  <2>2. /\ journal = <<>> /\ snapshot.at = 0
    BY <2>1 DEF Init, NoSnapshot
  <2>3. ASSUME NEW s \in Seats
        PROVE  mem[s].status = "none" /\ op[s].at = "idle"
    BY <2>1 DEF Init, Idle, NoRun
  <2> QED BY <2>2, <2>3 DEF CoverInv, Sealed, CoverOf, EndedLatest, Ended, Known,
                            Starts, Positions
<1>2. Inv /\ [Next]_vars =>
        /\ Inv'
        /\ adverse \/ \A s \in Seats : ~StaleRecovery(s)
  <2>1. SUFFICES ASSUME Inv, [Next]_vars
                 PROVE  /\ adverse' \/ CoverInv'
                        /\ adverse \/ \A s \in Seats : ~StaleRecovery(s)
    BY PromptStep
  <2>2. CASE /\ UNCHANGED <<adverse, holder, recorded, attempts, journal,
                            snapshot>>
             /\ UNCHANGED <<trees, guests, seat, latest, mem, op, rec, exec,
                            crashes>>
    BY <2>1, <2>2 DEF CoverInv, Sealed, CoverOf, EndedLatest, Ended, Known, Starts,
                      Positions, AllCovered, Latest, Has, StaleRecovery
  <2>3. ASSUME UNCHANGED adverse, ~adverse, NEW t \in Seats, StepOf(t)
        PROVE  CoverInv' /\ \A s \in Seats : ~StaleRecovery(s)
    <3>1. /\ TypeOK /\ LeaseInv /\ LineageInv /\ CoverInv
          /\ TypeOK' /\ LeaseInv' /\ LineageInv' /\ Spares(t)
      BY <2>1, <2>3, PromptStep, LeaseSeatStep DEF Prompt
    <3>2. CoverInv'
      BY <2>3, <3>1, CoverStep
    <3>3. ASSUME NEW s \in Seats, StaleRecovery(s) PROVE FALSE
      <4>1. s = t /\ Recover(s)
        BY <2>3, <3>1, <3>3, OpensByRecover DEF StaleRecovery
      <4>2. AllCovered
        BY <3>1, <3>3, <4>1, CoverRecover DEF StaleRecovery
      <4>3. PICK i \in Positions("attempt-starting") : snapshot.at < i
        BY <3>3 DEF StaleRecovery
      <4>4. i <= snapshot.at /\ snapshot.at \in Nat /\ i \in Nat
        BY <3>1, <4>2, <4>3, SnapshotType, Entries DEF AllCovered, Positions
      <4> QED BY <4>3, <4>4
    <3> QED BY <3>2, <3>3
  <2> QED BY <2>1, <2>2, <2>3, Steps
<1> HIDE DEF Inv
<1> QED BY <1>1, <1>2, PTL DEF Spec, PromptSeatsRecoverLatest

------------------------------------------------------------------------------
(* Guests: only the latest attempt may have one, in a worktree that is     *)
(* there, and whoever takes it to be gone is right.                        *)
Quiet == \A n \in Ordinals : ~Running(n)
Recorded(n) == \E i \in Positions("sandbox-started") : journal[i].attempt = n
Booted(s) == exec[s].at \in {"booted", "recorded", "session"}

\* a seat acts as if no guest of the run were there
Assured(s) ==
  \/ exec[s].at \in {"entered", "started"}
  \/ exec[s].at = "settled" /\ exec[s].ended.result.sandbox \in Clean
  \/ Starts(s, {"prepared", "recorded"})
  \/ op[s].at # "idle" /\ op[s].kind \in {"abandon", "release"} /\ op[s].via # "lost"
  \/ EndedLatest(s) /\ mem[s].ended.result.sandbox \in Clean
  \/ /\ rec[s].at = "observed" /\ rec[s].via # "lost"
     /\ rec[s].pending \/ rec[s].sandbox \in Clean

\* ... and so do those who trust the snapshot
SavedClean ==
  snapshot # NoSnapshot /\ AllCovered /\ snapshot.result.sandbox \in Clean

\* the run is abandoned, or about to be
Closed == Pending \/ Has("run-abandoned")

Resting(s) == exec[s].at = "idle" /\ ~Starts(s, {"prepared", "recorded"})

\* the guest of an attempt that is executed
Guards(s) ==
  /\ Booted(s) => guests[exec[s].attempt] = s
  /\ exec[s].at \in {"started", "booted", "recorded", "session"} => ~AllCovered
  /\ exec[s].at \in {"recorded", "session"} => Recorded(Latest)

JournalInv ==
  /\ journal # <<>> => recorded
  /\ \A i, j \in Positions("sandbox-started") :
       i <= j => journal[i].attempt <= journal[j].attempt

(* A guest that runs: whose, where, and how it is known.                   *)
Tracked(n) ==
  n = Latest /\ trees[attempts[n].tree] = "kept"
  /\ (Recorded(n) \/ \E s \in Seats : Booted(s))

GuestInv ==
  /\ JournalInv
  /\ \A n \in Ordinals : Running(n) => Tracked(n)
  /\ \A s \in Seats : Guards(s) /\ (Assured(s) => Quiet)
  /\ Closed => Quiet /\ \A s \in Seats : Resting(s)
  /\ SavedClean => Quiet

(* At first there is no snapshot and no guest.                             *)
LEMMA GuestInit == Init => CoverInv /\ GuestInv
<1>1. SUFFICES ASSUME Init PROVE CoverInv /\ GuestInv
  OBVIOUS
<1>2. /\ journal = <<>> /\ snapshot.at = 0 /\ DOMAIN journal = {}
      /\ \A n \in Ordinals : guests[n] = "none"
  BY <1>1 DEF Init, NoSnapshot
<1>3. \A x : Positions(x) = {}
  BY <1>2 DEF Positions
<1>4. ASSUME NEW s \in Seats
      PROVE  mem[s].status = "none" /\ op[s].at = "idle" /\ exec[s].at = "idle"
             /\ rec[s].at = "idle"
  BY <1>1 DEF Init, Idle, NoRun
<1>5. CoverInv
  BY <1>2, <1>3, <1>4
  DEF CoverInv, Sealed, CoverOf, EndedLatest, Ended, Known, Starts
<1>6. Quiet
  BY <1>2, GuestsAssumption DEF Quiet, Running
<1>7. JournalInv
  BY <1>2, <1>3 DEF JournalInv
<1>8. ASSUME NEW s \in Seats PROVE Guards(s) /\ Resting(s)
  BY <1>4 DEF Guards, Booted, Resting, Starts
<1> QED BY <1>5, <1>6, <1>7, <1>8 DEF GuestInv, Quiet

(* The journal grows by what the run may write.                            *)
LEMMA JournalGrows ==
  ASSUME TypeOK, LineageInv, JournalInv, recorded',
         \/ UNCHANGED journal
         \/ \E type \in EventTypes, n \in Ordinals :
              Write(type, n) /\ (type = "sandbox-started" => n = Latest)
  PROVE  /\ JournalInv'
         /\ \A n : Recorded(n) => Recorded(n)'
<1>1. CASE UNCHANGED journal
  BY <1>1 DEF JournalInv, Recorded, Positions
<1>2. ASSUME NEW type \in EventTypes, NEW n \in Ordinals, Write(type, n),
             type = "sandbox-started" => n = Latest
      PROVE  JournalInv' /\ \A x : Recorded(x) => Recorded(x)'
  <2> DEFINE new == Len(journal) + 1
  <2>1. /\ DOMAIN journal' = DOMAIN journal \cup {new}
        /\ \A i \in DOMAIN journal : journal'[i] = journal[i]
        /\ journal'[new] = Event(type, n)
        /\ \A i \in DOMAIN journal : i \in Nat /\ i < new
        /\ new \in Nat
    <3>1. /\ DOMAIN journal' = DOMAIN journal \cup {new}
          /\ \A i \in DOMAIN journal : journal'[i] = journal[i]
          /\ journal'[new] = Event(type, n)
      BY <1>2, Appended
    <3>2. Len(journal) \in Nat /\ DOMAIN journal = 1..Len(journal)
      BY Entries
    <3> QED BY <3>1, <3>2
  <2>8. journal'[new].type = type /\ journal'[new].attempt = n
    BY <2>1 DEF Event
  <2>2. Positions("sandbox-started") \subseteq DOMAIN journal
    BY DEF Positions
  <2>3. Positions("sandbox-started")' = Positions("sandbox-started")
          \cup (IF type = "sandbox-started" THEN {new} ELSE {})
    BY <2>1, <2>8 DEF Positions
  <2>4. \A i \in Positions("sandbox-started") :
          /\ journal'[i] = journal[i] /\ i < new /\ i \in Nat
          /\ journal[i].attempt <= Latest /\ journal[i].attempt \in Nat
    BY <2>1, <2>2, Entries DEF Positions, LineageInv, Lineage
  <2>5. n \in Nat
    BY Entries
  <2> HIDE DEF new, Latest
  <2>6. \A i, j \in Positions("sandbox-started")' :
          i <= j => journal'[i].attempt <= journal'[j].attempt
    <3>1. SUFFICES ASSUME NEW i \in Positions("sandbox-started")',
                          NEW j \in Positions("sandbox-started")', i <= j
                   PROVE  journal'[i].attempt <= journal'[j].attempt
      OBVIOUS
    <3>2. CASE i \in Positions("sandbox-started") /\ j \in Positions("sandbox-started")
      BY <2>4, <3>1, <3>2 DEF JournalInv
    <3>3. CASE j = new /\ type = "sandbox-started"
      <4>1. i = new \/ i \in Positions("sandbox-started")
        BY <2>3
      <4> QED BY <1>2, <2>1, <2>4, <2>5, <2>8, <3>3, <4>1
    <3>4. CASE i = new /\ type = "sandbox-started" /\ j # new
      BY <2>1, <2>3, <2>4, <2>8, <3>1, <3>4
    <3> QED BY <2>3, <3>2, <3>3, <3>4
  <2>7. \A x : Recorded(x) => Recorded(x)'
    BY <2>3, <2>4 DEF Recorded
  <2> QED BY <2>6, <2>7 DEF JournalInv
<1> QED BY <1>1, <1>2

(* Only an abandonment closes a run.                                       *)
LEMMA ClosedKept ==
  ASSUME TypeOK,
         \/ UNCHANGED journal
         \/ \E type \in EventTypes \ {"run-abandoning", "run-abandoned"},
               n \in Ordinals : Write(type, n)
  PROVE  Closed' <=> Closed
<1>1. CASE UNCHANGED journal
  BY <1>1 DEF Closed, Pending, Has, After, Positions
<1>2. ASSUME NEW type \in EventTypes \ {"run-abandoning", "run-abandoned"},
             NEW n \in Ordinals, Write(type, n)
      PROVE  Closed' <=> Closed
  <2>1. /\ DOMAIN journal' = DOMAIN journal \cup {Len(journal) + 1}
        /\ \A i \in DOMAIN journal : journal'[i] = journal[i]
        /\ journal'[Len(journal) + 1] = Event(type, n)
    BY <1>2, Appended
  <2>3. journal'[Len(journal) + 1].type = type
    BY <2>1 DEF Event
  <2>2. /\ Positions("run-abandoning")' = Positions("run-abandoning")
        /\ Positions("run-abandoned")' = Positions("run-abandoned")
    BY <2>1, <2>3 DEF Positions
  <2> QED BY <2>2 DEF Closed, Pending, Has, After
<1> QED BY <1>1, <1>2

(* A step that leaves no guest.                                            *)
LEMMA GuestsGone ==
  ASSUME GuestInv, NEW s \in Seats, Spares(s), Quiet', JournalInv', Guards(s)',
         \A t \in Seats \ {s} : exec[t].at = "idle",
         Closed' => \A t \in Seats : Resting(t)'
  PROVE  GuestInv'
<1>1. ASSUME NEW t \in Seats PROVE Guards(t)'
  <2>1. CASE t = s
    BY <2>1
  <2>2. CASE t # s
    BY <2>2 DEF Spares, Guards, Booted
  <2> QED BY <2>1, <2>2
<1> QED BY <1>1 DEF GuestInv, Quiet

(* A step that starts no guest: what it must see to.                       *)
LEMMA GuestsKept ==
  ASSUME TypeOK, LeaseInv, LineageInv, GuestInv, NEW s \in Seats, Spares(s),
         StepOf(s), ~EnterAttempt(s), UNCHANGED attempts, JournalInv',
         \A n : Recorded(n) => Recorded(n)',
         \A n \in Ordinals : Running(n)' =>
           /\ Running(n)
           /\ trees[attempts[n].tree] = "kept" => trees'[attempts[n].tree] = "kept"
           /\ Booted(s) => Booted(s)' \/ Recorded(n)',
         Guards(s)',
         \A t \in Seats \ {s} :
           \/ exec[t].at = "idle"
           \/ /\ UNCHANGED snapshot
              /\ \A n \in Ordinals : guests[n] = t => guests'[n] = t,
         Assured(s)' => Quiet \/ Quiet',
         Closed' => \/ Closed /\ Resting(s)'
                    \/ (Quiet \/ Quiet') /\ \A t \in Seats : Resting(t)',
         SavedClean' => SavedClean \/ Quiet \/ Quiet'
  PROVE  GuestInv'
<1>1. /\ Positions("attempt-starting")' = Positions("attempt-starting")
      /\ Latest' = Latest /\ Latest \in Nat
  BY OtherStarts, Entries DEF Latest
<1>2. Quiet => Quiet'
  BY DEF Quiet
<1>3. ASSUME NEW n \in Ordinals, Running(n)' PROVE Tracked(n)'
  <2>1. Running(n) /\ Tracked(n)
    BY <1>3 DEF GuestInv
  <2>2. trees'[attempts'[n].tree] = "kept" /\ n = Latest'
    BY <1>1, <1>3, <2>1 DEF Tracked
  <2>3. Recorded(n)' \/ \E t \in Seats : Booted(t)'
    <3>1. CASE Recorded(n)
      BY <3>1
    <3>2. ASSUME NEW t \in Seats, Booted(t)
          PROVE  Recorded(n)' \/ \E u \in Seats : Booted(u)'
      <4>1. CASE t = s
        BY <1>3, <3>2, <4>1
      <4>2. CASE t # s
        BY <3>2, <4>2 DEF Spares, Booted
      <4> QED BY <4>1, <4>2
    <3> QED BY <2>1, <3>1, <3>2 DEF Tracked
  <2> QED BY <2>2, <2>3 DEF Tracked
<1>4. ASSUME NEW t \in Seats \ {s} PROVE Guards(t)' /\ (Assured(t)' => Quiet')
  <2>1. /\ exec'[t] = exec[t] /\ op'[t] = op[t] /\ mem'[t] = mem[t]
        /\ rec'[t] = rec[t]
    BY DEF Spares
  <2>2. Assured(t)' => Assured(t)
    BY <1>1, <2>1 DEF Assured, Starts, EndedLatest, Ended, Known
  <2>3. Guards(t)
    BY DEF GuestInv
  <2>4. CASE exec[t].at = "idle"
    BY <1>2, <2>1, <2>2, <2>4 DEF Guards, Booted, GuestInv
  <2>5. CASE /\ UNCHANGED snapshot
             /\ \A n \in Ordinals : guests[n] = t => guests'[n] = t
    <3>1. exec[t].at # "idle" => exec[t].attempt \in Ordinals
      BY ExecType DEF Attempting, Settled
    <3>2. Booted(t)' => guests'[exec'[t].attempt] = t
      BY <2>1, <2>3, <2>5, <3>1 DEF Guards, Booted
    <3>3. AllCovered' <=> AllCovered
      BY <1>1, <2>5 DEF AllCovered
    <3>4. exec'[t].at \in {"recorded", "session"} => Recorded(Latest)'
      <4>1. exec[t].at \in {"recorded", "session"} => Recorded(Latest)
        BY <2>3 DEF Guards
      <4>2. Recorded(Latest)' <=> \E i \in Positions("sandbox-started")' :
                                    journal'[i].attempt = Latest
        BY <1>1 DEF Recorded
      <4>3. Recorded(Latest) => Recorded(Latest)'
        <5>1. ASSUME NEW n, n = Latest, Recorded(n) PROVE Recorded(n)'
          BY <5>1
        <5> QED BY <1>1, <4>2, <5>1 DEF Recorded
      <4> QED BY <2>1, <4>1, <4>3
    <3> QED BY <1>2, <2>1, <2>2, <2>3, <3>2, <3>3, <3>4 DEF Guards, GuestInv
  <2> QED BY <2>4, <2>5
<1>5. Assured(s)' => Quiet'
  BY <1>2
<1>6. Closed' => Quiet' /\ \A t \in Seats : Resting(t)'
  <2>1. CASE Closed /\ Resting(s)'
    <3>1. Quiet' /\ \A t \in Seats : Resting(t)
      BY <1>2, <2>1 DEF GuestInv
    <3>2. ASSUME NEW t \in Seats PROVE Resting(t)'
      BY <2>1, <3>1 DEF Spares, Resting, Starts
    <3> QED BY <3>1, <3>2
  <2> QED BY <1>2, <2>1
<1>7. SavedClean' => Quiet'
  BY <1>2 DEF GuestInv
<1>8. \A t \in Seats : Guards(t)' /\ (Assured(t)' => Quiet')
  BY <1>4, <1>5
<1> QED BY <1>3, <1>6, <1>7, <1>8 DEF GuestInv

(* While one seat works the others rest.                                   *)
LEMMA OthersResting ==
  ASSUME TypeOK, LeaseInv, NEW s \in Seats, Works(s)
  PROVE  \A t \in Seats \ {s} : exec[t].at = "idle" /\ Resting(t)
BY OthersRest DEF Resting

(* Steps that leave the store and the guests alone.                        *)
LEMMA GuestsSame ==
  ASSUME TypeOK, LeaseInv, LineageInv, GuestInv, NEW s \in Seats, Spares(s),
         StepOf(s), ~EnterAttempt(s),
         UNCHANGED <<recorded, attempts, journal, snapshot, trees, guests>>,
         Guards(s)', Booted(s) => Booted(s)', Assured(s)' => Quiet,
         Closed => Resting(s)'
  PROVE  GuestInv'
<1>1. JournalInv' /\ \A n : Recorded(n) => Recorded(n)'
  BY DEF GuestInv, JournalInv, Recorded, Positions
<1>2. \A n \in Ordinals : Running(n)' => Running(n)
  BY DEF Running
<1>3. SavedClean' => SavedClean
  BY DEF SavedClean, AllCovered, Positions
<1>4. Closed' <=> Closed
  BY DEF Closed, Pending, Has, After, Positions
<1> QED BY <1>1, <1>2, <1>3, <1>4, GuestsKept

(* Steps that leave the store, the guests and the attempts alone.          *)
LEMMA GuestsIdle ==
  ASSUME TypeOK, LeaseInv, LineageInv, GuestInv, NEW s \in Seats, Spares(s),
         StepOf(s), ~EnterAttempt(s),
         UNCHANGED <<recorded, attempts, journal, snapshot, trees, guests, mem, exec>>,
         Assured(s)' => Quiet,
         Starts(s, {"prepared", "recorded"})' => Starts(s, {"prepared", "recorded"})
  PROVE  GuestInv'
<1>1. Guards(s)' /\ (Booted(s) => Booted(s)')
  <2>1. /\ Latest' = Latest /\ (AllCovered' <=> AllCovered)
        /\ \A n : Recorded(n)' <=> Recorded(n)
    BY DEF Latest, AllCovered, Recorded, Positions
  <2> QED BY <2>1 DEF GuestInv, Guards, Booted
<1>2. Closed => Resting(s)'
  BY DEF GuestInv, Resting
<1> QED BY <1>1, <1>2, GuestsSame

(* The checks of the operations.                                           *)
LEMMA GuestCheck ==
  ASSUME ~adverse, ~ReleaseUnproved, TypeOK, LeaseInv, SoundInv, LineageInv,
         GuestInv, NEW s \in Seats, Spares(s), Check(s)
  PROVE  GuestInv'
<1>1. /\ UNCHANGED <<recorded, attempts, journal, snapshot, trees, guests, mem>>
      /\ UNCHANGED <<exec, rec>>
  BY DEF Check, CheckLaunch, CheckRetry, CheckResume, CheckAbandon, CheckRelease,
         Begin, store
<1>2. op[s] = Idle /\ op'[s].at = "checked"
  BY TypeParts
  DEF Check, CheckLaunch, CheckRetry, CheckResume, CheckAbandon, CheckRelease,
      Begin, Typed
<1>3. op'[s].kind \in {"abandon", "release"} =>
        EndedLatest(s) /\ mem[s].ended.result.sandbox \in Clean
  <2>1. CASE CheckLaunch(s) \/ CheckRetry(s) \/ CheckResume(s)
    BY <2>1, TypeParts
    DEF CheckLaunch, CheckRetry, CheckResume, Begin, Typed
  <2>2. CASE CheckAbandon(s)
    <3>1. Known(s) /\ mem[s].status = "interrupted" /\ mem[s].attempt = Latest
          /\ mem[s].ended.result.sandbox \in Clean
      BY <2>2 DEF CheckAbandon, Known, Informed, Latest, Clean
    <3>2. Ended(s)
      BY <3>1 DEF LeaseInv, Fits, Ended
    <3> QED BY <3>1, <3>2 DEF EndedLatest
  <2>3. CASE CheckRelease(s)
    <3>1. mem[s] # NoRun /\ mem[s].ended # NoExecution /\ mem[s].attempt = Latest
          /\ mem[s].ended.result.sandbox \in Clean
      BY <2>3 DEF CheckRelease, Loaded, Informed, Latest, Clean
    <3>2. Known(s)
      BY <3>1, MemoryType
    <3> QED BY <3>1, <3>2 DEF EndedLatest, Ended
  <2> QED BY <2>1, <2>2, <2>3 DEF Check
<1>4. Assured(s)' => Assured(s)
  BY <1>1, <1>2, <1>3 DEF Assured, Starts, EndedLatest, Ended, Known, Latest
<1>5. StepOf(s) /\ ~EnterAttempt(s)
  <2>1. ~EnterAttempt(s)
    BY <1>1, TypeParts, ExecType, <1>2
    DEF EnterAttempt, Executing, Reach, Typed, Attempting
  <2> QED BY <2>1 DEF StepOf
<1>6. ~Starts(s, {"prepared", "recorded"})'
  BY <1>2 DEF Starts
<1> QED BY <1>1, <1>4, <1>5, <1>6, GuestsIdle DEF GuestInv

(* While a seat operates, opens the store or reconciles it has no          *)
(* attempt.                                                                *)
LEMMA NotEntered ==
  ASSUME TypeOK, LeaseInv, NEW s \in Seats,
         \/ op[s].at # "idle" \/ seat[s] # "up"
         \/ (rec[s].at # "idle" /\ rec[s].via # "lost")
  PROVE  exec[s].at = "idle" /\ ~EnterAttempt(s)
<1>1. exec[s].at = "idle"
  BY DEF LeaseInv, Fits, Idle
<1> QED BY <1>1 DEF EnterAttempt, Executing

(* Taking the lease, or finding it taken.                                  *)
LEMMA GuestAcquire ==
  ASSUME TypeOK, LeaseInv, LineageInv, GuestInv, NEW s \in Seats, Spares(s),
         Acquire(s) \/ Fenced(s)
  PROVE  GuestInv'
<1>1. /\ UNCHANGED <<recorded, attempts, journal, snapshot, trees, guests, mem>>
      /\ UNCHANGED <<exec, rec>>
      /\ op[s] # Idle /\ op[s].at # "idle" /\ op[s] \in Operation
  BY OpType DEF Acquire, Fenced, store
<1>2. OpCarried(s)
  BY PlainOpStep DEF Plain
<1>3. Assured(s)' => Assured(s)
  <2>1. ASSUME op'[s].at # "idle"
        PROVE  /\ op[s].at # "idle" /\ op'[s].kind = op[s].kind
               /\ op'[s].via # "lost" => op[s].via # "lost"
    BY <1>2, <2>1 DEF OpCarried
  <2>2. Starts(s, {"prepared", "recorded"})' => Starts(s, {"prepared", "recorded"})
    BY <1>2 DEF OpCarried, Starts
  <2> QED BY <1>1, <2>1, <2>2 DEF Assured, EndedLatest, Ended, Known, Latest
<1>4. StepOf(s) /\ ~EnterAttempt(s)
  <2>1. ~EnterAttempt(s)
    BY <1>1, NotEntered
  <2> QED BY <2>1 DEF StepOf, OpStep
<1>5. Starts(s, {"prepared", "recorded"})' => Starts(s, {"prepared", "recorded"})
  BY <1>2 DEF OpCarried, Starts
<1> QED BY <1>1, <1>3, <1>4, <1>5, GuestsIdle DEF GuestInv

(* The attempt begins without a guest.                                     *)
LEMMA GuestExecute ==
  ASSUME TypeOK, LeaseInv, LineageInv, GuestInv, NEW s \in Seats, Spares(s),
         Execute(s)
  PROVE  GuestInv'
<1>1. /\ UNCHANGED <<recorded, attempts, journal, snapshot, trees, guests, rec>>
      /\ op[s].at = "recorded" /\ Starts(s, {"recorded"}) /\ op'[s].at = "idle"
      /\ \/ UNCHANGED <<mem, exec>>
         \/ exec'[s].at = "entered" /\ exec'[s].attempt = Latest
  BY LineageExecute DEF Execute, At, store
<1>2. Quiet /\ ~Closed
  BY <1>1 DEF GuestInv, Assured, Starts, Resting
<1>3. exec[s].at = "idle" /\ StepOf(s) /\ ~EnterAttempt(s)
  <2>1. exec[s].at = "idle" /\ ~EnterAttempt(s)
    BY <1>1, NotEntered
  <2> QED BY <2>1 DEF StepOf, OpStep
<1>4. Guards(s)' /\ ~Booted(s)
  BY <1>1, <1>3 DEF Guards, Booted
<1> QED BY <1>1, <1>2, <1>3, <1>4, GuestsSame

(* A stopped attempt keeps its guest.                                      *)
LEMMA GuestSignal ==
  ASSUME TypeOK, LeaseInv, LineageInv, GuestInv, NEW s \in Seats, Spares(s),
         \E reason \in {"operator", "seat-shutdown"} : Signal(s, reason)
  PROVE  GuestInv'
<1>1. PICK reason \in {"operator", "seat-shutdown"} : Signal(s, reason)
  OBVIOUS
<1>2. /\ UNCHANGED <<recorded, attempts, journal, snapshot, trees, guests, rec, op>>
      /\ mem[s].status \in {"active", "stopping"}
      /\ mem' = [mem EXCEPT ![s].status = "stopping"]
  BY <1>1 DEF Signal, store
<1>3. mem[s] \in Memory /\ Known(s) /\ exec[s].at # "idle"
  BY <1>2, MemoryType DEF Known, LeaseInv, Fits
<1>4. mem[s].ended = NoExecution /\ mem'[s].ended = NoExecution
  <2>1. mem'[s].ended = mem[s].ended
    BY <1>2, <1>3, TypeParts DEF Typed, Memory
  <2> QED BY <1>3, <2>1 DEF LeaseInv, Fits
<1>5. \/ exec'[s] = exec[s]
      \/ /\ exec'[s].at = exec[s].at /\ exec'[s].attempt = exec[s].attempt
         /\ exec[s].at # "settled"
  <2>1. CASE exec[s].at = "settled"
    BY <1>1, <2>1 DEF Signal, Executing, Idle
  <2>2. CASE exec[s].at # "settled"
    <3>1. exec[s] \in Attempting
      BY <1>3, <2>2, ExecType DEF Settled
    <3>2. exec' = [exec EXCEPT ![s].signal = IF @ = "none" THEN reason ELSE @]
      BY <1>1, <2>2 DEF Signal, Executing
    <3>3. exec'[s].at = exec[s].at /\ exec'[s].attempt = exec[s].attempt
      BY <3>1, <3>2, TypeParts DEF Typed, Attempting
    <3> QED BY <2>2, <3>3
  <2> QED BY <2>1, <2>2
<1>6. Assured(s)' => Assured(s)
  BY <1>2, <1>4, <1>5 DEF Assured, Starts, EndedLatest, Ended
<1>7. Guards(s)' /\ (Booted(s) => Booted(s)') /\ (Resting(s) => Resting(s)')
  <2>1. /\ Latest' = Latest /\ (AllCovered' <=> AllCovered)
        /\ \A n : Recorded(n)' <=> Recorded(n)
    BY <1>2 DEF Latest, AllCovered, Recorded, Positions
  <2> QED BY <1>2, <1>5, <2>1 DEF GuestInv, Guards, Booted, Resting, Starts
<1>8. StepOf(s) /\ ~EnterAttempt(s)
  <2>1. ~EnterAttempt(s)
    <3>1. ASSUME EnterAttempt(s) PROVE FALSE
      <4>1. exec'[s].at = "started" /\ exec[s].at = "entered"
        BY <3>1, LineageEnterAttempt
      <4> QED BY <1>5, <4>1
    <3> QED BY <3>1
  <2> QED BY <2>1 DEF StepOf
<1> QED BY <1>2, <1>6, <1>7, <1>8, GuestsSame DEF GuestInv

(* Opening the store and beginning a reconcile.                            *)
LEMMA GuestOpen ==
  ASSUME TypeOK, LeaseInv, LineageInv, GuestInv, NEW s \in Seats, Spares(s),
         OpenStore(s) \/ LeaseRecovery(s) \/ BeginReconcile(s)
  PROVE  GuestInv'
<1>1. /\ UNCHANGED <<recorded, attempts, journal, snapshot, trees, guests, mem>>
      /\ UNCHANGED <<exec, op>>
  BY DEF OpenStore, LeaseRecovery, BeginReconcile, store
<1>2. rec' = rec \/ rec'[s].at = "leased"
  BY TypeParts DEF OpenStore, LeaseRecovery, BeginReconcile, Typed
<1>3. Assured(s)' => Assured(s)
  BY <1>1, <1>2 DEF Assured, Starts, EndedLatest, Ended, Known, Latest
<1>4. StepOf(s) /\ ~EnterAttempt(s)
  <2>1. CASE seat[s] # "up"
    BY <2>1, NotEntered DEF StepOf, OpenStep, OpenStore, LeaseRecovery
  <2>2. CASE BeginReconcile(s)
    <3>1. Known(s) /\ mem[s].status = "cleanup-blocked"
      BY <2>2 DEF BeginReconcile, Known
    <3>2. exec[s].at = "idle"
      BY <3>1 DEF LeaseInv, Fits
    <3> QED BY <2>2, <3>2 DEF StepOf, EnterAttempt, Executing
  <2> QED BY <2>1, <2>2 DEF OpenStore, LeaseRecovery
<1>5. Starts(s, {"prepared", "recorded"})' => Starts(s, {"prepared", "recorded"})
  BY <1>1 DEF Starts
<1> QED BY <1>1, <1>3, <1>4, <1>5, GuestsIdle DEF GuestInv

(* A worktree is prepared only once there is no guest.                     *)
LEMMA GuestPrepare ==
  ASSUME Writing, TypeOK, TypeOK', LeaseInv, SoundInv, LineageInv, LineageInv',
         CoverInv, GuestInv, NEW s \in Seats, Spares(s), Prepare(s)
  PROVE  GuestInv'
<1>1. /\ op[s].at # "idle" /\ op[s].kind \in Starting /\ op[s] \in Operation
      /\ UNCHANGED <<attempts, journal, snapshot, guests, mem, rec, exec>>
      /\ recorded => recorded'
  BY OpType DEF Prepare, At
<1>2. exec[s].at = "idle" /\ ~EnterAttempt(s) /\ StepOf(s)
  <2>1. exec[s].at = "idle" /\ ~EnterAttempt(s)
    BY <1>1, NotEntered
  <2> QED BY <2>1 DEF StepOf, OpStep
<1>3. JournalInv' /\ \A n : Recorded(n) => Recorded(n)'
  BY <1>1 DEF GuestInv, JournalInv, Recorded, Positions
<1>4. \A n \in Ordinals : trees[n] = "kept" => trees'[n] = "kept"
  <2>1. trees \in [Ordinals -> {"none", "reserved", "kept", "handed", "released"}]
    BY TypeParts DEF Typed, StoreTyped
  <2>2. \/ UNCHANGED trees
        \/ trees' = [trees EXCEPT ![op[s].ordinal] = "kept"]
        \/ trees' = [trees EXCEPT ![op[s].ordinal] =
                       IF @ = "none" THEN "reserved" ELSE @]
    BY DEF Prepare
  <2> QED BY <2>1, <2>2
<1>5. \A n \in Ordinals : Running(n)' =>
        Running(n) /\ n = Latest /\ attempts[n].tree \in Ordinals
  <2>1. ASSUME NEW n \in Ordinals, Running(n)'
        PROVE  Running(n) /\ n = Latest /\ attempts[n].tree \in Ordinals
    <3>1. Running(n) /\ n = Latest
      BY <1>1, <2>1 DEF Running, GuestInv, Tracked
    <3> QED BY <3>1, Entries DEF LineageInv, Lineage
  <2> QED BY <2>1
<1>6. Starts(s, {"prepared", "recorded"})' => Quiet /\ ~Closed
  <2>1. SUFFICES ASSUME Starts(s, {"prepared", "recorded"})'
                 PROVE  Quiet /\ ~Closed
    OBVIOUS
  <2>2. CASE ~recorded /\ Latest = 0
    <3>1. Quiet
      <4>1. ASSUME NEW n \in Ordinals, Running(n) PROVE FALSE
        <5>1. n = 0
          BY <2>2, <4>1 DEF GuestInv, Tracked
        <5> QED BY <4>1, <5>1, Entries
      <4> QED BY <4>1 DEF Quiet
    <3>2. journal = <<>>
      BY <2>2 DEF GuestInv, JournalInv
    <3> QED BY <3>1, <3>2 DEF Closed, Pending, Has, Positions
  <2>3. CASE /\ EndedLatest(s) /\ mem[s].status \in {"failed", "interrupted"}
             /\ ~Has("run-abandoned") /\ ~Pending
    <3>1. mem[s].ended.result.status = mem[s].status
      BY <2>3 DEF EndedLatest, Ended, LeaseInv, Fits
    <3>2. mem[s].ended.result.sandbox \in Clean
      BY <2>3, <3>1 DEF EndedLatest, SoundInv, SoundMem, Sound
    <3> QED BY <2>3, <3>2 DEF GuestInv, Assured, Closed
  <2> QED BY <2>1, <2>2, <2>3, CoverPrepare
<1>7. OpCarried(s) \/ Starts(s, {"prepared", "recorded"})'
  <2>1. op \in [Seats -> {Idle} \cup Operation] /\ Idle.at = "idle"
    BY TypeParts DEF Typed, Idle
  <2>2. CASE op' = [op EXCEPT ![s] = Idle]
    BY <2>1, <2>2 DEF OpCarried
  <2>3. CASE Goto(s, "prepared")
    <3>1. op'[s] = [op[s] EXCEPT !.at = "prepared"]
      BY <1>1, <2>1, <2>3 DEF Goto
    <3> QED BY <1>1, <3>1 DEF Starts, Operation
  <2>4. CASE op' = [op EXCEPT ![s].at = "prepared", ![s].tree = op[s].ordinal]
    <3>1. op'[s] = [op[s] EXCEPT !.at = "prepared", !.tree = op[s].ordinal]
      BY <1>1, <2>1, <2>4
    <3> QED BY <1>1, <3>1 DEF Starts, Operation
  <2> QED BY <2>2, <2>3, <2>4 DEF Prepare, Throw
<1>8. Assured(s)' => Quiet
  <2>1. CASE Starts(s, {"prepared", "recorded"})'
    BY <1>6, <2>1
  <2>2. CASE ~Starts(s, {"prepared", "recorded"})'
    <3>1. OpCarried(s)
      BY <1>7, <2>2
    <3>2. Assured(s)' => Assured(s)
      BY <1>1, <2>2, <3>1
      DEF Assured, EndedLatest, Ended, Known, Latest, OpCarried
    <3> QED BY <3>2 DEF GuestInv
  <2> QED BY <2>1, <2>2
<1>9. Closed' => Closed /\ Resting(s)'
  <2>1. Closed' <=> Closed
    BY <1>1 DEF Closed, Pending, Has, After, Positions
  <2> QED BY <1>1, <1>2, <1>6, <2>1 DEF Resting
<1>10. SavedClean' => SavedClean
  BY <1>1 DEF SavedClean, AllCovered, Positions
<1>11. Guards(s)' /\ ~Booted(s)
  BY <1>1, <1>2 DEF Guards, Booted
<1>12. \A n \in Ordinals : Running(n)' =>
         /\ Running(n)
         /\ trees[attempts[n].tree] = "kept" => trees'[attempts[n].tree] = "kept"
         /\ Booted(s) => Booted(s)' \/ Recorded(n)'
  BY <1>4, <1>5, <1>11
<1> QED BY <1>1, <1>2, <1>3, <1>8, <1>9, <1>10, <1>11, <1>12, GuestsKept

(* No guest is running when an attempt is recorded.                        *)
LEMMA GuestRecordAttempt ==
  ASSUME ~adverse, TypeOK, LeaseInv, LineageInv, GuestInv, NEW s \in Seats,
         Spares(s), RecordAttempt(s)
  PROVE  GuestInv'
<1>1. /\ Starts(s, {"prepared"})
      /\ UNCHANGED <<recorded, journal, snapshot, trees, guests, mem, rec, exec>>
      /\ Owns(s)
  BY LineageRecordAttempt DEF RecordAttempt
<1>2. Quiet /\ ~Closed
  BY <1>1 DEF GuestInv, Assured, Starts, Resting
<1>3. /\ Quiet' /\ (Closed' <=> Closed) /\ JournalInv'
  BY <1>1, <1>2 DEF Quiet, Running, Closed, Pending, Has, After, Positions,
                    GuestInv, JournalInv
<1>4. /\ exec[s].at = "idle"
      /\ \A t \in Seats \ {s} : exec[t].at = "idle"
  BY <1>1, OpWorks, OthersResting
<1>5. Guards(s)'
  BY <1>1, <1>4 DEF Guards, Booted
<1> QED BY <1>2, <1>3, <1>4, <1>5, GuestsGone

(* No guest is running when an attempt starts.                             *)
LEMMA GuestEnterAttempt ==
  ASSUME TypeOK, TypeOK', LeaseInv, LineageInv, CoverInv, GuestInv,
         NEW s \in Seats, Spares(s), EnterAttempt(s)
  PROVE  GuestInv'
<1>1. /\ Works(s) /\ exec[s].at = "entered" /\ Latest \in Ordinals
      /\ Write("attempt-starting", Latest)
      /\ exec'[s].at = "started" /\ exec'[s].attempt = Latest
      /\ UNCHANGED <<recorded, guests>>
  BY LineageEnterAttempt DEF EnterAttempt
<1>2. Quiet /\ ~Closed /\ Quiet'
  BY <1>1 DEF GuestInv, Assured, Resting, Quiet, Running
<1>3. Closed' <=> Closed
  BY <1>1, ClosedKept DEF EventTypes
<1>4. recorded
  <2>1. Known(s)
    BY <1>1 DEF LeaseInv, Fits, Known
  <2> QED BY <2>1 DEF LineageInv, Place
<1>5. JournalInv'
  <2>1. /\ JournalInv /\ recorded'
        /\ \E type \in EventTypes, n \in Ordinals :
             Write(type, n) /\ (type = "sandbox-started" => n = Latest)
    BY <1>1, <1>4 DEF GuestInv, EventTypes
  <2> QED BY <2>1, JournalGrows
<1>6. Guards(s)'
  BY <1>1, CoverEnterAttempt DEF Guards, Booted
<1> QED BY <1>1, <1>2, <1>3, <1>5, <1>6, OthersResting, GuestsGone

(* Only the seat that executes the latest attempt starts a guest, and      *)
(* nobody else then takes the run to have none.                            *)
LEMMA GuestBootVm ==
  ASSUME Writing, TypeOK, LeaseInv, LineageInv, CoverInv, GuestInv,
         NEW s \in Seats, Spares(s), BootVm(s)
  PROVE  GuestInv'
<1>1. /\ exec[s].at = "started" /\ exec[s] \in Attempting /\ Works(s)
      /\ UNCHANGED <<recorded, attempts, journal, snapshot, trees, mem, op, rec>>
  BY ExecType DEF BootVm, Executing, store, Works
<1>2. exec[s].attempt = Latest /\ Latest \in Ordinals /\ Latest' = Latest
  BY <1>1 DEF LineageInv, Place, Attempting, Latest
<1>3. /\ guests \in [Ordinals -> Seats \cup {"none", "gone", "orphan"}]
      /\ exec \in [Seats -> {Idle} \cup Attempting \cup Settled]
  BY TypeParts DEF Typed, StoreTyped
<1>4. exec'[s].at = "booted" /\ exec'[s].attempt = Latest
  BY <1>1, <1>2, <1>3 DEF BootVm, Reach, Attempting
<1>5. /\ guests' = [guests EXCEPT ![Latest] = s]
      /\ trees[attempts[Latest].tree] = "kept"
  BY <1>1, <1>2 DEF BootVm
<1>6. Quiet /\ ~Closed /\ ~AllCovered /\ (AllCovered' <=> AllCovered)
      /\ (Closed' <=> Closed)
  BY <1>1 DEF GuestInv, Assured, Resting, Guards, Closed, Pending, Has, After,
              Positions, AllCovered
<1> HIDE DEF Latest
<1>7. ASSUME NEW n \in Ordinals, Running(n)' PROVE Tracked(n)'
  <2>1. n = Latest
    BY <1>2, <1>3, <1>5, <1>6, <1>7 DEF Quiet, Running
  <2> QED BY <1>1, <1>2, <1>4, <1>5, <2>1 DEF Tracked, Booted
<1>8. ASSUME NEW t \in Seats PROVE Guards(t)' /\ ~Assured(t)'
  <2>1. CASE t = s
    <3>1. Guards(s)'
      BY <1>2, <1>3, <1>4, <1>5, <1>6 DEF Guards, Booted
    <3>2. /\ op[s].at = "idle" /\ ~Ended(s)
          /\ rec[s].at # "idle" => rec[s].via = "lost"
      <4>1. Fits(s)
        BY DEF LeaseInv
      <4>2. mem[s].ended = NoExecution /\ mem[s].status \in {"active", "stopping"}
        BY <1>1, <4>1 DEF Fits
      <4> QED BY <1>1, <4>1, <4>2 DEF Fits, Ended
    <3>3. ~Assured(s)'
      BY <1>1, <1>4, <3>2 DEF Assured, Starts, EndedLatest, Ended, Known
    <3> QED BY <2>1, <3>1, <3>3
  <2>2. CASE t # s
    <3>1. /\ exec'[t] = exec[t] /\ exec[t].at = "idle"
          /\ ~Starts(t, {"prepared", "recorded"}) /\ ~Works(t)
      BY <1>1, <2>2, OthersRest, Sole DEF Spares
    <3>2. Known(t) => mem[t].attempt < Latest /\ mem[t].attempt \in Nat
                      /\ Latest \in Nat
      BY <1>1, <1>2, <2>2, MemoryType, Entries DEF LineageInv, Behind, Memory
    <3>3. Known(t) => mem[t].attempt # Latest
      BY <3>2
    <3>4. ~(/\ op[t].at # "idle" /\ op[t].kind \in {"abandon", "release"}
            /\ op[t].via # "lost")
      <4>1. SUFFICES ASSUME op[t].at # "idle", op[t].kind \in {"abandon", "release"},
                            op[t].via # "lost"
                     PROVE  FALSE
        OBVIOUS
      <4>2. mem[t].attempt = Latest
        BY <4>1 DEF LineageInv, Place
      <4>3. Known(t)
        BY <4>1 DEF LeaseInv, Fits
      <4> QED BY <3>3, <4>2, <4>3
    <3>5. ~(rec[t].at = "observed" /\ rec[t].via # "lost")
      BY <3>1, RecType DEF Works, Observed
    <3> QED BY <1>1, <1>2, <3>1, <3>3, <3>4, <3>5
            DEF Guards, Booted, Assured, Starts, EndedLatest, Ended, Known
  <2> QED BY <2>1, <2>2
<1>9. JournalInv'
  BY <1>1 DEF GuestInv, JournalInv, Positions
<1>10. ~SavedClean'
  BY <1>6 DEF SavedClean
<1> QED BY <1>6, <1>7, <1>8, <1>9, <1>10 DEF GuestInv

(* The guest's and the session's entries in the journal.                   *)
LEMMA GuestRecord ==
  ASSUME TypeOK, LeaseInv, LineageInv, GuestInv, NEW s \in Seats, Spares(s),
         RecordVm(s) \/ RecordSession(s)
  PROVE  GuestInv'
<1>1. /\ exec[s].at \in {"booted", "recorded"} /\ exec[s] \in Attempting
      /\ UNCHANGED <<recorded, attempts, snapshot, trees, guests, mem, op, rec>>
      /\ RecordSession(s) => exec[s].at = "recorded"
  BY ExecType DEF RecordVm, RecordSession, Executing
<1>2. exec[s].attempt = Latest /\ Latest \in Ordinals /\ Latest' = Latest
      /\ recorded /\ ~Closed
  <2>1. Known(s)
    BY <1>1 DEF LeaseInv, Fits, Known
  <2> QED BY <1>1, <2>1
          DEF LineageInv, Place, Attempting, Latest, GuestInv, Resting
<1>3. exec \in [Seats -> {Idle} \cup Attempting \cup Settled]
  BY TypeParts DEF Typed
<1>4. exec'[s].at \in {"recorded", "session"} /\ exec'[s].attempt = Latest
  BY <1>1, <1>2, <1>3 DEF RecordVm, RecordSession, Reach, Attempting
<1>5. \E type \in {"sandbox-started", "session-started"} :
        /\ Write(type, Latest)
        /\ type = "session-started" => Recorded(Latest)
  BY <1>1, <1>2 DEF RecordVm, RecordSession, GuestInv, Guards
<1>6. JournalInv' /\ \A n : Recorded(n) => Recorded(n)'
  <2>1. /\ JournalInv /\ recorded'
        /\ \E type \in EventTypes, n \in Ordinals :
             Write(type, n) /\ (type = "sandbox-started" => n = Latest)
    BY <1>1, <1>2, <1>5 DEF GuestInv, EventTypes
  <2> QED BY <2>1, JournalGrows
<1>7. ~Closed'
  BY <1>2, <1>5, ClosedKept DEF EventTypes
<1>8. StepOf(s) /\ ~EnterAttempt(s)
  <2>1. ~EnterAttempt(s)
    BY <1>1 DEF EnterAttempt, Executing
  <2> QED BY <2>1 DEF StepOf, AttemptStep
<1>9. AllCovered' <=> AllCovered
  BY <1>1, <1>8, OtherStarts DEF AllCovered
<1>10. Recorded(Latest)'
  <2>1. CASE Recorded(Latest)
    <3>1. \A n : n = Latest /\ Recorded(n) => Recorded(n)'
      BY <1>6
    <3> QED BY <1>2, <2>1, <3>1 DEF Recorded
  <2>2. CASE Write("sandbox-started", Latest)
    <3>1. /\ Len(journal) + 1 \in DOMAIN journal'
          /\ journal'[Len(journal) + 1] = Event("sandbox-started", Latest)
      BY <1>2, <2>2, Appended DEF EventTypes
    <3> QED BY <1>2, <3>1 DEF Recorded, Positions, Event
  <2> QED BY <1>5, <2>1, <2>2
<1>11. Guards(s)' /\ Booted(s)'
  BY <1>1, <1>2, <1>4, <1>9, <1>10 DEF GuestInv, Guards, Booted
<1>12. /\ op[s].at = "idle" /\ ~Ended(s)
       /\ rec[s].at # "idle" => rec[s].via = "lost"
  <2>1. Fits(s)
    BY DEF LeaseInv
  <2>2. mem[s].ended = NoExecution /\ mem[s].status \in {"active", "stopping"}
    BY <1>1, <2>1 DEF Fits
  <2> QED BY <1>1, <2>1, <2>2 DEF Fits, Ended
<1>13. ~Assured(s)'
  BY <1>1, <1>4, <1>12 DEF Assured, Starts, EndedLatest, Ended, Known
<1>14. SavedClean' => SavedClean
  BY <1>1, <1>9 DEF SavedClean
<1>15. \A n \in Ordinals : Running(n)' => Running(n)
  BY <1>1 DEF Running
<1> QED BY <1>1, <1>6, <1>7, <1>8, <1>11, <1>13, <1>14, <1>15, GuestsKept

(* The seat that executes the attempt: the run is open, and it alone acts. *)
LEMMA AttemptOpen ==
  ASSUME TypeOK, LeaseInv, LineageInv, GuestInv, NEW s \in Seats,
         exec[s].at # "idle"
  PROVE  /\ Works(s) /\ ~Closed /\ exec[s].attempt = Latest /\ Latest \in Ordinals
         /\ \A t \in Seats \ {s} : exec[t].at = "idle"
         /\ op[s].at = "idle" /\ recorded
         /\ Known(s) /\ mem[s] \in Memory /\ mem[s].ended = NoExecution
         /\ rec[s].at # "idle" => rec[s].via = "lost"
<1>1. Works(s) /\ ~Closed
  BY DEF Works, GuestInv, Resting
<1>2. exec[s].attempt = Latest /\ Latest \in Ordinals
  BY ExecType DEF LineageInv, Place, Attempting, Settled
<1>3. Fits(s)
  BY DEF LeaseInv
<1>4. /\ op[s].at = "idle" /\ Known(s) /\ mem[s].ended = NoExecution
      /\ mem[s].status \in {"active", "stopping"}
  BY <1>3 DEF Fits, Known
<1>5. rec[s].at # "idle" => rec[s].via = "lost"
  BY <1>3, <1>4 DEF Fits
<1>6. recorded /\ mem[s] \in Memory
  BY <1>4, MemoryType DEF LineageInv, Place
<1> QED BY <1>1, <1>2, <1>4, <1>5, <1>6, OthersResting

(* With the latest attempt's guest gone there is none.                     *)
LEMMA GoneQuiet ==
  ASSUME TypeOK, GuestInv, Latest \in Ordinals, Gone(Latest)
  PROVE  Quiet'
<1>1. guests \in [Ordinals -> Seats \cup {"none", "gone", "orphan"}]
  BY TypeParts DEF Typed, StoreTyped
<1>2. ASSUME NEW n \in Ordinals, Running(n)' PROVE FALSE
  <2>1. CASE n = Latest
    BY <1>1, <1>2, <2>1, GuestsAssumption DEF Gone, Running
  <2>2. CASE n # Latest
    BY <1>1, <1>2, <2>2 DEF Gone, Running, GuestInv, Tracked
  <2> QED BY <2>1, <2>2
<1> QED BY <1>2 DEF Quiet

(* What follows from a journal that is left alone.                         *)
LEMMA JournalSame ==
  ASSUME GuestInv, UNCHANGED <<recorded, journal>>
  PROVE  /\ JournalInv' /\ (Closed' <=> Closed)
         /\ \A n : Recorded(n) => Recorded(n)'
BY DEF GuestInv, JournalInv, Positions, Closed, Pending, Has, After, Recorded

(* An attempt that leaves the guest gone, or on record and unproved.       *)
LEMMA GuestLeave ==
  ASSUME TypeOK, LeaseInv, LineageInv, GuestInv, NEW s \in Seats, Spares(s),
         StepOf(s), ~EnterAttempt(s), exec[s].at # "idle",
         UNCHANGED <<recorded, attempts, journal, op, rec>>,
         exec'[s].at \in {"idle", "settled"},
         \/ Gone(exec[s].attempt)
         \/ /\ UNCHANGED <<guests, trees>>
            /\ Booted(s) => exec[s].at \in {"recorded", "session"}
            /\ exec'[s].at = "settled" => exec'[s].ended.result.sandbox \notin Clean
            /\ EndedLatest(s)' /\ mem'[s].ended.result.sandbox \in Clean => Quiet
            /\ SavedClean' => SavedClean \/ Quiet
  PROVE  GuestInv'
<1>1. /\ ~Closed /\ exec[s].attempt = Latest /\ Latest \in Ordinals
      /\ \A t \in Seats \ {s} : exec[t].at = "idle"
      /\ op[s].at = "idle" /\ (rec[s].at # "idle" => rec[s].via = "lost")
  BY AttemptOpen
<1>2. JournalInv' /\ ~Closed' /\ \A n : Recorded(n) => Recorded(n)'
  BY <1>1, JournalSame
<1>3. Guards(s)'
  BY DEF Guards, Booted
<1>4. CASE Gone(exec[s].attempt)
  BY <1>1, <1>2, <1>3, <1>4, GoneQuiet, GuestsGone
<1>5. CASE /\ UNCHANGED <<guests, trees>>
           /\ Booted(s) => exec[s].at \in {"recorded", "session"}
           /\ exec'[s].at = "settled" => exec'[s].ended.result.sandbox \notin Clean
           /\ EndedLatest(s)' /\ mem'[s].ended.result.sandbox \in Clean => Quiet
           /\ SavedClean' => SavedClean \/ Quiet
  <2>1. Assured(s)' => Quiet
    BY <1>1, <1>5 DEF Assured, Starts
  <2>2. ASSUME NEW n \in Ordinals, Running(n)', Booted(s) PROVE Recorded(n)'
    <3>1. n = Latest
      BY <1>5, <2>2 DEF GuestInv, Tracked, Running
    <3>2. Recorded(Latest)
      BY <1>5, <2>2 DEF GuestInv, Guards
    <3>3. Recorded(n)
      BY <3>1, <3>2
    <3> QED BY <1>2, <3>3
  <2>3. \A n \in Ordinals : Running(n)' => Running(n)
    BY <1>5 DEF Running
  <2> QED BY <1>1, <1>2, <1>3, <1>5, <2>1, <2>2, <2>3, GuestsKept
<1> QED BY <1>4, <1>5

(* An attempt that settles: its guest is gone, or not said to be.          *)
LEMMA GuestSettle ==
  ASSUME TypeOK, LeaseInv, LineageInv, GuestInv, NEW s \in Seats, Spares(s),
         StepOf(s), ~EnterAttempt(s), exec[s].at # "idle",
         NEW result, Settle(s, result),
         \/ Gone(exec[s].attempt)
         \/ /\ UNCHANGED <<guests, trees>>
            /\ exec[s].at \in {"recorded", "session"}
            /\ result.sandbox \notin Clean
  PROVE  GuestInv'
<1> DEFINE e == Execution(result, exec[s].at = "session")
           new == [at |-> "settled", attempt |-> exec[s].attempt, ended |-> e]
<1>1. /\ UNCHANGED <<recorded, attempts, journal, op, rec, mem>>
      /\ Save(e) /\ exec' = [exec EXCEPT ![s] = new]
  BY DEF Settle
<1>2. e.result = result
  BY DEF Execution
<1>3. new.at = "settled" /\ new.ended = e
  OBVIOUS
<1> HIDE DEF e, new
<1>4. exec'[s] = new
  BY <1>1, TypeParts DEF Typed
<1>5. snapshot'.result = result
  BY <1>1, <1>2 DEF Save
<1>6. ~Ended(s)'
  BY <1>1, AttemptOpen DEF Ended, Known
<1>7. result.sandbox \notin Clean => ~SavedClean'
  BY <1>5 DEF SavedClean
<1> QED BY <1>1, <1>2, <1>3, <1>4, <1>6, <1>7, GuestLeave DEF EndedLatest

(* The ways an attempt ends with a result.                                 *)
LEMMA GuestEnd ==
  ASSUME ~adverse, TypeOK, LeaseInv, LineageInv, GuestInv, NEW s \in Seats,
         Spares(s),
         Complete(s) \/ EndCleanly(s) \/ EndBlocked(s) \/ EndLeaked(s)
  PROVE  GuestInv'
<1>1. /\ exec[s].at \in {"started", "booted", "recorded", "session"}
  BY ExecType DEF Complete, EndCleanly, EndBlocked, EndLeaked, Executing, Unproved
<1>2. StepOf(s) /\ ~EnterAttempt(s)
  <2>1. ~EnterAttempt(s)
    BY <1>1 DEF EnterAttempt, Executing
  <2> QED BY <2>1 DEF StepOf, AttemptStep
<1>3. \E result :
        /\ Settle(s, result)
        /\ \/ Gone(exec[s].attempt)
           \/ /\ UNCHANGED <<guests, trees>>
              /\ exec[s].at \in {"recorded", "session"}
              /\ result.sandbox \notin Clean
  <2>1. CASE Complete(s) \/ EndCleanly(s)
    BY <2>1 DEF Complete, EndCleanly
  <2>2. CASE EndBlocked(s)
    <3>1. \A workspace : Result("cleanup-blocked", "reconcile", "blocked",
                                workspace).sandbox \notin Clean
      BY DEF Result, Clean
    <3> QED BY <2>2, <3>1 DEF EndBlocked, Unproved
  <2>3. CASE EndLeaked(s)
    BY <2>3 DEF EndLeaked
  <2> QED BY <2>1, <2>2, <2>3
<1> QED BY <1>1, <1>2, <1>3, GuestSettle

(* The way it ends without one.                                            *)
LEMMA GuestEndThrown ==
  ASSUME ~adverse, TypeOK, LeaseInv, LineageInv, GuestInv, NEW s \in Seats,
         Spares(s), EndThrown(s)
  PROVE  GuestInv'
<1>1. /\ exec[s].at \in {"entered", "started", "booted", "recorded", "session"}
      /\ UNCHANGED <<recorded, attempts, journal, snapshot, trees, op, rec>>
      /\ mem' = [mem EXCEPT ![s].status = "cleanup-blocked"]
      /\ exec' = [exec EXCEPT ![s] = Idle]
      /\ \/ Gone(exec[s].attempt)
         \/ exec[s].at \in {"recorded", "session"} /\ UNCHANGED guests
  BY DEF EndThrown, Executing, Unproved, store
<1>2. /\ exec'[s].at = "idle" /\ StepOf(s) /\ ~EnterAttempt(s)
  <2>1. exec'[s].at = "idle"
    BY <1>1, TypeParts DEF Typed, Idle
  <2>2. ~EnterAttempt(s)
    BY <2>1, LineageEnterAttempt
  <2> QED BY <2>1, <2>2 DEF StepOf, AttemptStep
<1>3. ~Ended(s)'
  <2>1. mem[s] \in Memory /\ mem[s].ended = NoExecution
    BY <1>1, AttemptOpen
  <2>2. mem'[s].ended = mem[s].ended
    BY <1>1, <2>1, TypeParts DEF Typed, Memory
  <2> QED BY <2>1, <2>2 DEF Ended
<1>4. SavedClean' => SavedClean
  BY <1>1 DEF SavedClean, AllCovered, Positions
<1> QED BY <1>1, <1>2, <1>3, <1>4, GuestLeave DEF EndedLatest

(* The settlement of the run: clean results are of runs without a guest.   *)
LEMMA GuestFinalize ==
  ASSUME TypeOK, LeaseInv, LineageInv, GuestInv, NEW s \in Seats, Spares(s),
         Finalize(s)
  PROVE  GuestInv'
<1> DEFINE e == exec[s].ended
           blocked == e.result.status = "cleanup-blocked"
<1>1. /\ exec[s].at = "settled"
      /\ UNCHANGED <<recorded, attempts, journal, trees, guests, op, rec>>
      /\ exec' = [exec EXCEPT ![s] = Idle]
      /\ \/ /\ Save(e)
            /\ mem' = [mem EXCEPT ![s].status = e.result.status, ![s].ended = e,
                                  ![s].leased = blocked]
         \/ /\ mem' = [mem EXCEPT ![s].status = "cleanup-blocked"]
            /\ UNCHANGED snapshot
  BY DEF Finalize, Executing
<1>2. /\ exec'[s].at = "idle" /\ StepOf(s) /\ ~EnterAttempt(s)
  <2>1. exec'[s].at = "idle"
    BY <1>1, TypeParts DEF Typed, Idle
  <2>2. ~EnterAttempt(s)
    BY <2>1, LineageEnterAttempt
  <2> QED BY <2>1, <2>2 DEF StepOf, AttemptStep
<1>3. mem[s] \in Memory /\ mem[s].ended = NoExecution
  BY <1>1, AttemptOpen
<1>4. e.result.sandbox \in Clean => Quiet
  BY <1>1 DEF GuestInv, Assured
<1> HIDE DEF e
<1>5. mem'[s].ended = e \/ mem'[s].ended = NoExecution
  <2> HIDE DEF blocked
  <2> QED BY <1>1, <1>3, TypeParts DEF Typed, Memory
<1>6. EndedLatest(s)' /\ mem'[s].ended.result.sandbox \in Clean => Quiet
  BY <1>4, <1>5 DEF EndedLatest, Ended
<1>7. SavedClean' => SavedClean \/ Quiet
  <2>1. CASE Save(e)
    <3>1. snapshot'.result = e.result
      BY <2>1 DEF Save
    <3> QED BY <1>4, <3>1 DEF SavedClean
  <2>2. CASE UNCHANGED snapshot
    BY <1>1, <2>2 DEF SavedClean, AllCovered, Positions
  <2> QED BY <1>1, <2>1, <2>2
<1> QED BY <1>1, <1>2, <1>6, <1>7, GuestLeave DEF Booted

(* Abandon and release, under their lease: no guest is there before.       *)
LEMMA GuestRelease ==
  ASSUME TypeOK, LeaseInv, LineageInv, GuestInv, NEW s \in Seats, Spares(s),
         \/ BeginAbandon(s) \/ FinishAbandon(s)
         \/ ReleaseTrees(s) \/ FinishRelease(s)
  PROVE  GuestInv'
<1>1. /\ op[s] # Idle /\ op[s] \in Operation /\ op[s].at # "idle"
      /\ op[s].kind \in {"abandon", "release"} /\ op[s].at # "checked"
      /\ UNCHANGED <<recorded, attempts, guests, exec>>
      /\ BeginAbandon(s) => op[s].kind = "abandon"
      /\ BeginAbandon(s) \/ Owns(s)
  BY OpType DEF BeginAbandon, FinishAbandon, ReleaseTrees, FinishRelease, At
<1>2. op[s].via \in {"op", "run"} /\ Works(s)
  <2>1. Fits(s)
    BY DEF LeaseInv
  <2>2. op[s].via \in {"op", "run"}
    BY <1>1, <2>1 DEF Fits, Owns, Operation
  <2> QED BY <1>1, <2>2 DEF Works
<1>3. Quiet /\ Quiet'
  <2>1. Quiet
    BY <1>1, <1>2 DEF GuestInv, Assured
  <2> QED BY <1>1, <2>1 DEF Quiet, Running
<1>4. /\ exec[s].at = "idle" /\ \A t \in Seats \ {s} : exec[t].at = "idle"
  BY <1>1, <1>2, NotEntered, OthersResting
<1>5. Known(s) /\ recorded
  <2>1. Known(s)
    BY <1>1 DEF LeaseInv, Fits, Starting
  <2> QED BY <2>1 DEF LineageInv, Place
<1>6. JournalInv'
  <2>1. mem[s].attempt \in Ordinals
    BY <1>5, MemoryType DEF Memory
  <2>2. \/ UNCHANGED journal
        \/ \E type \in {"run-abandoning", "run-abandoned"} :
             Write(type, mem[s].attempt)
    BY DEF BeginAbandon, FinishAbandon, ReleaseTrees, FinishRelease
  <2>3. /\ JournalInv /\ recorded'
        /\ \/ UNCHANGED journal
           \/ \E type \in EventTypes, n \in Ordinals :
                Write(type, n) /\ (type = "sandbox-started" => n = Latest)
    BY <1>1, <1>5, <2>1, <2>2 DEF GuestInv, EventTypes
  <2> QED BY <2>3, JournalGrows
<1>7. ASSUME NEW t \in Seats PROVE Resting(t)'
  <2>1. CASE t = s
    <3>1. OpCarried(s)
      BY PlainOpStep DEF Plain
    <3>2. ~Starts(s, {"prepared", "recorded"})'
      BY <1>1, <3>1 DEF OpCarried, Starts, Starting
    <3> QED BY <1>1, <1>4, <2>1, <3>2 DEF Resting
  <2>2. CASE t # s
    BY <1>2, <2>2, OthersResting DEF Spares, Resting, Starts
  <2> QED BY <2>1, <2>2
<1>8. Guards(s)'
  BY <1>1, <1>4 DEF Guards, Booted
<1> QED BY <1>3, <1>4, <1>6, <1>7, <1>8, GuestsGone

(* A non-empty set of positions has a last one: of the sets of those from  *)
(* one of them on, a smallest.                                             *)
LEMMA LatestExists ==
  ASSUME NEW T \in SUBSET Nat, IsFiniteSet(T), T # {}
  PROVE  \E x \in T : \A y \in T : y <= x
<1> DEFINE From(n) == {k \in T : n <= k}
           F == {From(n) : n \in T}
<1>1. ASSUME NEW n \in T PROVE IsFiniteSet(From(n))
  BY FS_Subset
<1>2. F \in SUBSET FiniteSubsetsOf(T) /\ F # {}
  BY <1>1 DEF FiniteSubsetsOf
<1>3. IsWellFoundedOn(StrictSubsetOrdering(T), FiniteSubsetsOf(T))
  BY FS_StrictSubsetOrderingWellFounded
<1>4. PICK M \in F : \A N \in F : <<N, M>> \notin StrictSubsetOrdering(T)
  BY <1>2, <1>3, WFMin, Zenon
<1>5. PICK x \in T : M = From(x)
  OBVIOUS
<1>6. ASSUME NEW y \in T, x < y PROVE FALSE
  <2>1. From(y) \subseteq From(x) /\ x \in From(x) /\ x \notin From(y)
    <3>1. \A k \in T : y <= k => x <= k
      BY <1>6
    <3>2. x <= x /\ ~(y <= x)
      BY <1>6
    <3> QED  BY <3>1, <3>2
  <2>2. From(y) \in F /\ From(y) \subseteq T /\ From(x) \subseteq T
    OBVIOUS
  <2> HIDE DEF From
  <2>3. <<From(y), From(x)>> \in StrictSubsetOrdering(T)
    BY <2>1, <2>2 DEF StrictSubsetOrdering
  <2> QED  BY <1>4, <1>5, <2>2, <2>3
<1> QED  BY <1>6

(* A reconcile that looks at the process on record sees the only guest     *)
(* there can be.                                                           *)
LEMMA LastRecorded ==
  ASSUME TypeOK, LineageInv, GuestInv, \A t \in Seats : ~Booted(t),
         Has("sandbox-started"),
         LET last == CHOOSE i \in Positions("sandbox-started") :
                       \A j \in Positions("sandbox-started") : j <= i
         IN  guests' = [guests EXCEPT ![journal[last].attempt] = "gone"]
  PROVE  Quiet'
<1> DEFINE S == Positions("sandbox-started")
           last == CHOOSE i \in S : \A j \in S : j <= i
<1>1. guests \in [Ordinals -> Seats \cup {"none", "gone", "orphan"}]
  BY TypeParts DEF Typed, StoreTyped
<1>2. S \subseteq 1..Len(journal) /\ S # {} /\ Len(journal) \in Nat
  BY Entries DEF Positions, Has
<1>3. \E i \in S : \A j \in S : j <= i
  <2>1. IsFiniteSet(S) /\ S \subseteq Nat
    <3>1. IsFiniteSet(1..Len(journal))
      BY <1>2, FS_Interval
    <3>2. 1..Len(journal) \subseteq Nat
      OBVIOUS
    <3> HIDE DEF S
    <3> QED BY <1>2, <3>1, <3>2, FS_Subset
  <2> HIDE DEF S
  <2> QED BY <1>2, <2>1, LatestExists
<1>4. last \in S /\ \A j \in S : j <= last
  <2> HIDE DEF S
  <2> QED BY <1>3
<1>5. journal[last].attempt \in Ordinals /\ journal[last].attempt <= Latest
  BY <1>4, Entries DEF Positions, LineageInv, Lineage
<1>6. guests' = [guests EXCEPT ![journal[last].attempt] = "gone"]
  OBVIOUS
<1>7. ASSUME NEW n \in Ordinals, Running(n)' PROVE FALSE
  <2>1. n # journal[last].attempt /\ Running(n)
    <3> HIDE DEF last
    <3> QED BY <1>1, <1>5, <1>6, <1>7, GuestsAssumption DEF Running
  <2>2. n = Latest /\ Recorded(n)
    BY <2>1 DEF GuestInv, Tracked
  <2>3. PICK i \in S : journal[i].attempt = n
    BY <2>2 DEF Recorded
  <2>4. n <= journal[last].attempt
    BY <1>4, <2>3 DEF GuestInv, JournalInv
  <2>5. n \in Nat /\ journal[last].attempt \in Nat
    BY <1>5, Entries
  <2> HIDE DEF last, S, Latest
  <2> QED BY <1>5, <2>1, <2>2, <2>4, <2>5
<1> QED BY <1>7 DEF Quiet

(* What a reconcile proves about the sandbox is so.                        *)
LEMMA GuestObserve ==
  ASSUME TypeOK, LeaseInv, LineageInv, GuestInv, NEW s \in Seats, Spares(s),
         Observe(s)
  PROVE  GuestInv'
<1>1. /\ rec[s] # Idle /\ rec[s].at = "leased"
      /\ UNCHANGED <<recorded, attempts, journal, snapshot, trees, mem, op, exec>>
  BY DEF Observe, store
<1>2. /\ rec \in [Seats -> {Idle} \cup Entered \cup Observed] /\ Idle.at = "idle"
      /\ guests \in [Ordinals -> Seats \cup {"none", "gone", "orphan"}]
  BY TypeParts DEF Typed, StoreTyped, Idle
<1>3. StepOf(s) /\ ~EnterAttempt(s)
  <2>1. ~EnterAttempt(s)
    <3>1. ASSUME EnterAttempt(s) PROVE FALSE
      <4>1. exec[s].at = "entered" /\ exec'[s].at = "started"
        BY <3>1, LineageEnterAttempt
      <4> QED BY <1>1, <4>1
    <3> QED BY <3>1
  <2> QED BY <2>1 DEF StepOf, ReconcileStep
<1>4. Starts(s, {"prepared", "recorded"})' => Starts(s, {"prepared", "recorded"})
  BY <1>1 DEF Starts
<1>5. CASE GiveUp(s) /\ UNCHANGED guests
  <2>1. rec'[s].at = "idle"
    BY <1>2, <1>5 DEF GiveUp
  <2>2. Assured(s)' => Assured(s)
    BY <1>1, <2>1 DEF Assured, Starts, EndedLatest, Ended, Known, Latest
  <2> QED BY <1>1, <1>3, <1>4, <1>5, <2>2, GuestsIdle DEF GuestInv
<1>6. CASE rec[s].via # "lost" /\ ~(GiveUp(s) /\ UNCHANGED guests)
  <2>1. PICK workspace \in WorkspaceSeen, evidence \in SessionEvidence,
             sandbox \in IF Has("sandbox-started") THEN {"proved", "unknown"}
                                                   ELSE {"not-needed"} :
          /\ guests' =
               IF sandbox # "proved" THEN guests
               ELSE LET last == CHOOSE i \in Positions("sandbox-started") :
                                  \A j \in Positions("sandbox-started") : j <= i
                    IN [guests EXCEPT ![journal[last].attempt] = "gone"]
          /\ rec' = [rec EXCEPT ![s] =
               [at |-> "observed", via |-> rec[s].via, sandbox |-> sandbox,
                workspace |-> workspace, pending |-> Pending,
                session |-> evidence]]
    BY <1>6 DEF Observe
  <2>2. Works(s) /\ exec[s].at = "idle"
    <3>1. rec[s].via \in {"rec", "run"}
      BY <1>1, <1>2, <1>6 DEF Entered, Observed
    <3> QED BY <1>1, <1>6, <3>1, NotEntered DEF Works
  <2>3. \A t \in Seats : ~Booted(t)
    BY <2>2, OthersResting DEF Booted
  <2>4. rec'[s].pending = Pending /\ rec'[s].sandbox = sandbox
    BY <1>2, <2>1
  <2>5. sandbox = "proved" => Quiet'
    BY <2>1, <2>3, LastRecorded
  <2>6. sandbox = "not-needed" => Quiet
    BY <2>1, <2>3 DEF GuestInv, Tracked, Quiet, Recorded, Has
  <2>7. Assured(s)' => Quiet \/ Quiet'
    <3>1. CASE rec'[s].pending \/ rec'[s].sandbox \in Clean
      BY <2>4, <2>5, <2>6, <3>1 DEF GuestInv, Closed, Clean
    <3>2. CASE ~(rec'[s].pending \/ rec'[s].sandbox \in Clean)
      <4>1. Assured(s)' => Assured(s)
        BY <1>1, <3>2 DEF Assured, Starts, EndedLatest, Ended, Known, Latest
      <4> QED BY <4>1 DEF GuestInv
    <3> QED BY <3>1, <3>2
  <2>8. \A n \in Ordinals : Running(n)' => Running(n)
    <3>1. \/ UNCHANGED guests
          \/ \E m : guests' = [guests EXCEPT ![m] = "gone"]
      BY <2>1
    <3> QED BY <1>2, <3>1, GuestsAssumption DEF Running
  <2>9. Guards(s)' /\ ~Booted(s)
    BY <1>1, <2>2 DEF Guards, Booted
  <2>10. JournalInv' /\ (Closed' <=> Closed) /\ \A n : Recorded(n) => Recorded(n)'
    BY <1>1, JournalSame
  <2>11. Closed' => Closed /\ Resting(s)'
    BY <1>1, <2>10 DEF GuestInv, Resting, Starts
  <2>12. SavedClean' => SavedClean
    BY <1>1 DEF SavedClean, AllCovered, Positions
  <2> QED BY <1>1, <1>3, <2>2, <2>7, <2>8, <2>9, <2>10, <2>11, <2>12, OthersResting,
             GuestsKept
<1> QED BY <1>5, <1>6 DEF Observe

(* A reconcile says clean, or abandons, only without a guest.              *)
LEMMA GuestFinishReconcile ==
  ASSUME TypeOK, LeaseInv, LineageInv, GuestInv, NEW s \in Seats, Spares(s),
         FinishReconcile(s)
  PROVE  GuestInv'
<1> DEFINE e == Reconciled(s)
           free == Unblocked(s, e.result.status)
<1>1. /\ rec[s] # Idle /\ rec[s].at = "observed"
      /\ UNCHANGED <<recorded, attempts, trees, guests, exec>>
  BY DEF FinishReconcile
<1>2. /\ rec \in [Seats -> {Idle} \cup Entered \cup Observed] /\ Idle.at = "idle"
      /\ mem \in [Seats -> {NoRun} \cup Memory]
      /\ op \in [Seats -> {Idle} \cup Operation]
  BY TypeParts DEF Typed, Idle
<1>3. StepOf(s) /\ ~EnterAttempt(s)
  <2>1. ~EnterAttempt(s)
    <3>1. ASSUME EnterAttempt(s) PROVE FALSE
      <4>1. exec[s].at = "entered" /\ exec'[s].at = "started"
        BY <3>1, LineageEnterAttempt
      <4> QED BY <1>1, <4>1
    <3> QED BY <3>1
  <2> QED BY <2>1 DEF StepOf, ReconcileStep
<1>4. CASE GiveUp(s) /\ UNCHANGED <<journal, snapshot, mem, op>>
  <2>1. rec'[s].at = "idle"
    BY <1>2, <1>4 DEF GiveUp
  <2>2. Assured(s)' => Assured(s)
    BY <1>1, <1>4, <2>1 DEF Assured, Starts, EndedLatest, Ended, Known, Latest
  <2>3. Starts(s, {"prepared", "recorded"})' => Starts(s, {"prepared", "recorded"})
    BY <1>4 DEF Starts
  <2> QED BY <1>1, <1>3, <1>4, <2>2, <2>3, GuestsIdle DEF GuestInv
<1>5. CASE /\ rec[s].via # "lost"
           /\ IF e.result.status = "abandoned"
              THEN Write("run-abandoned", mem[s].attempt) ELSE UNCHANGED journal
           /\ Save(e)
           /\ mem' = [mem EXCEPT ![s].status = e.result.status, ![s].ended = e,
                                 ![s].leased = @ /\ ~free]
           /\ rec' = [rec EXCEPT ![s] = Idle]
           /\ op' = IF free /\ op[s] # Idle /\ op[s].via = "run"
                    THEN [op EXCEPT ![s].via = "lost"] ELSE op
  <2>1. Works(s) /\ exec[s].at = "idle" /\ Known(s) /\ recorded /\ mem[s] \in Memory
    <3>1. rec[s].via \in {"rec", "run"}
      BY <1>1, <1>2, <1>5 DEF Entered, Observed
    <3>2. Known(s)
      BY <1>1 DEF LeaseInv, Fits
    <3> QED BY <1>1, <1>5, <3>1, <3>2, NotEntered, MemoryType
            DEF Works, LineageInv, Place
  <2>2. e.result.sandbox \in Clean => Quiet
    <3>1. e.result.sandbox \in Clean => rec[s].pending \/ rec[s].sandbox \in Clean
      BY DEF Reconciled, Execution, Result
    <3> HIDE DEF e
    <3> QED BY <1>1, <1>5, <3>1 DEF GuestInv, Assured
  <2>3. e.result.status = "abandoned" => Quiet
    <3>1. e.result.status = "abandoned" => rec[s].pending
      BY DEF Reconciled, Execution, Result
    <3> HIDE DEF e
    <3> QED BY <1>1, <1>5, <3>1 DEF GuestInv, Assured
  <2> HIDE DEF e, free
  <2>4. mem'[s].ended = e /\ rec'[s].at = "idle" /\ snapshot'.result = e.result
    BY <1>2, <1>5, <2>1 DEF Memory, Save
  <2>5. \/ op' = op
        \/ /\ op[s].at # "idle" /\ op'[s].at = op[s].at /\ op'[s].kind = op[s].kind
           /\ op'[s].via = "lost"
    <3>1. CASE op' = [op EXCEPT ![s].via = "lost"] /\ op[s] # Idle
      <4>1. op[s] \in Operation /\ op[s].at # "idle"
        BY <3>1, OpType
      <4> QED BY <1>2, <3>1, <4>1 DEF Operation
    <3> QED BY <1>5, <3>1
  <2>6. Assured(s)' => Quiet
    <3>1. CASE EndedLatest(s)' /\ mem'[s].ended.result.sandbox \in Clean
      BY <2>2, <2>4, <3>1
    <3>2. CASE ~(EndedLatest(s)' /\ mem'[s].ended.result.sandbox \in Clean)
      <4>1. Assured(s)' => Assured(s)
        BY <1>1, <2>4, <2>5, <3>2 DEF Assured, Starts
      <4> QED BY <4>1 DEF GuestInv
    <3> QED BY <3>1, <3>2
  <2>7. JournalInv' /\ \A n : Recorded(n) => Recorded(n)'
    <3>1. /\ JournalInv /\ recorded'
          /\ \/ UNCHANGED journal
             \/ \E type \in EventTypes, n \in Ordinals :
                  Write(type, n) /\ (type = "sandbox-started" => n = Latest)
      BY <1>1, <1>5, <2>1 DEF GuestInv, EventTypes, Memory
    <3> QED BY <3>1, JournalGrows
  <2>8. ASSUME NEW t \in Seats PROVE Resting(t)'
    <3>1. CASE t = s
      <4>1. ~Starts(s, {"prepared", "recorded"})
        <5>1. SUFFICES ASSUME Starts(s, {"prepared", "recorded"}) PROVE FALSE
          OBVIOUS
        <5>2. op[s] \in Operation /\ op[s].at # "idle" /\ op[s].at # "checked"
              /\ op[s].kind # "release"
          BY <5>1, OpType DEF Starts, Starting
        <5>3. op[s].via = "op"
          BY <5>2 DEF LeaseInv, Fits, Operation
        <5>4. holder = [seat |-> s, handle |-> "op"]
          BY <5>2, <5>3 DEF LeaseInv, Holds
        <5>5. holder.handle \in {"rec", "run"}
          BY <1>1, <1>2, <1>5, <2>1 DEF LeaseInv, Holds, Entered, Observed
        <5> QED BY <5>4, <5>5
      <4> QED BY <1>1, <2>1, <2>5, <3>1, <4>1 DEF Resting, Starts
    <3>2. CASE t # s
      BY <2>1, <3>2, OthersResting DEF Spares, Resting, Starts
    <3> QED BY <3>1, <3>2
  <2>9. Closed' => Closed \/ Quiet
    <3>1. CASE UNCHANGED journal
      BY <1>1, <3>1, JournalSame
    <3> QED BY <1>5, <2>3, <3>1
  <2>10. Closed' => \/ Closed /\ Resting(s)'
                    \/ (Quiet \/ Quiet') /\ \A t \in Seats : Resting(t)'
    BY <2>8, <2>9
  <2>11. SavedClean' => Quiet
    BY <2>2, <2>4 DEF SavedClean
  <2>12. \A n \in Ordinals : Running(n)' => Running(n)
    BY <1>1 DEF Running
  <2>13. Guards(s)' /\ ~Booted(s)
    BY <1>1, <2>1 DEF Guards, Booted
  <2> QED BY <1>1, <1>3, <2>1, <2>6, <2>7, <2>10, <2>11, <2>12, <2>13,
             OthersResting, GuestsKept
<1> QED BY <1>4, <1>5 DEF FinishReconcile

(* A seat that dies leaves guests that are on record.                      *)
LEMMA GuestCrash ==
  ASSUME ~adverse, TypeOK, LeaseInv, LineageInv, GuestInv, NEW s \in Seats,
         Spares(s), Crash(s)
  PROVE  GuestInv'
<1>1. /\ UNCHANGED <<recorded, attempts, journal, snapshot, trees>>
      /\ mem' = [mem EXCEPT ![s] = NoRun] /\ op' = [op EXCEPT ![s] = Idle]
      /\ rec' = [rec EXCEPT ![s] = Idle] /\ exec' = [exec EXCEPT ![s] = Idle]
  BY DEF Crash, store
<1>2. /\ mem'[s].status = "none" /\ op'[s].at = "idle" /\ rec'[s].at = "idle"
      /\ exec'[s].at = "idle"
  BY <1>1, TypeParts DEF Typed, NoRun, Idle
<1>3. PICK survivors \in SUBSET MayOutlive(s) :
        guests' = [n \in Ordinals |->
                     IF guests[n] # s THEN guests[n]
                     ELSE IF n \in survivors THEN "orphan" ELSE "gone"]
  BY DEF Crash
<1>4. \A n \in Ordinals :
        /\ Running(n)' => Running(n)
        /\ Running(n)' /\ guests[n] = s => Recorded(n)
        /\ guests[n] # s => guests'[n] = guests[n]
  BY <1>3, GuestsAssumption DEF Running, MayOutlive, Recorded
<1>5. ASSUME NEW n \in Ordinals, Running(n)', Booted(s) PROVE Recorded(n)'
  <2>1. n = Latest
    BY <1>4, <1>5 DEF GuestInv, Tracked
  <2>2. guests[Latest] = s
    <3>1. exec[s].at # "idle"
      BY <1>5 DEF Booted
    <3>2. exec[s].attempt = Latest
      BY <3>1 DEF LineageInv, Place
    <3>3. guests[exec[s].attempt] = s
      BY <1>5 DEF GuestInv, Guards
    <3> QED BY <3>2, <3>3
  <2>3. Recorded(n)
    BY <1>4, <1>5, <2>1, <2>2
  <2> QED BY <1>1, <2>3 DEF Recorded, Positions
<1>6. JournalInv' /\ (Closed' <=> Closed) /\ \A n : Recorded(n) => Recorded(n)'
  BY <1>1, JournalSame
<1>7. ~Assured(s)' /\ Guards(s)' /\ Resting(s)'
  BY <1>2 DEF Assured, Guards, Booted, Resting, Starts, EndedLatest, Ended, Known
<1>8. SavedClean' => SavedClean
  BY <1>1 DEF SavedClean, AllCovered, Positions
<1>9. StepOf(s) /\ ~EnterAttempt(s)
  <2>1. ~EnterAttempt(s)
    BY <1>2, LineageEnterAttempt
  <2> QED BY <2>1 DEF StepOf
<1>10. \A n \in Ordinals : Running(n)' =>
         /\ Running(n)
         /\ trees[attempts[n].tree] = "kept" => trees'[attempts[n].tree] = "kept"
         /\ Booted(s) => Booted(s)' \/ Recorded(n)'
  BY <1>1, <1>4, <1>5
<1>11. \A t \in Seats \ {s} : \A n \in Ordinals : guests[n] = t => guests'[n] = t
  BY <1>4
<1> QED BY <1>1, <1>6, <1>7, <1>8, <1>9, <1>10, <1>11, GuestsKept

(* What recovery trusts: a result that covers the latest start, or that    *)
(* the run is abandoned.                                                   *)
LEMMA GuestRecover ==
  ASSUME TypeOK, TypeOK', LeaseInv, LineageInv, CoverInv, GuestInv,
         NEW s \in Seats, Spares(s), Recover(s)
  PROVE  GuestInv'
<1> DEFINE r == Recovery(s)
<1>1. /\ Works(s) /\ mem'[s].ended = r.ended
      /\ IF r.write THEN Save(r.ended) ELSE UNCHANGED snapshot
      /\ UNCHANGED <<recorded, journal, attempts, trees, guests, op, rec, exec>>
      /\ seat[s] = "leased"
  BY LineageRecover DEF Recover
<1>2. exec[s].at = "idle" /\ StepOf(s) /\ ~EnterAttempt(s) /\ op[s].at = "idle"
      /\ rec[s].at = "idle"
  <2>1. exec[s].at = "idle" /\ ~EnterAttempt(s)
    BY <1>1, NotEntered
  <2> QED BY <1>1, <2>1 DEF StepOf, OpenStep, LeaseInv, Fits, Idle
<1>3. EndedLatest(s)' => r.write \/ AllCovered \/ Has("run-abandoned")
  BY CoverRecover
<1>4. r.ended.result.sandbox \in Clean => \/ Closed
                                          \/ /\ ~r.write /\ snapshot # NoSnapshot
                                             /\ snapshot.result.sandbox \in Clean
  BY DEF Recovery, Execution, Result, Clean, Closed, Persisted
<1> HIDE DEF r
<1>5. Closed => Quiet
  BY DEF GuestInv
<1>6. Assured(s)' => Quiet
  <2>1. CASE EndedLatest(s)' /\ mem'[s].ended.result.sandbox \in Clean
    BY <1>1, <1>3, <1>4, <1>5, <2>1 DEF SavedClean, GuestInv, Closed
  <2> QED BY <1>1, <1>2, <2>1 DEF Assured, Starts
<1>7. SavedClean' => SavedClean \/ Quiet
  <2>1. CASE r.write
    <3>1. snapshot'.result = r.ended.result
      BY <1>1, <2>1 DEF Save
    <3> QED BY <1>4, <1>5, <2>1, <3>1 DEF SavedClean
  <2>2. CASE ~r.write
    BY <1>1, <2>2 DEF SavedClean, AllCovered, Positions
  <2> QED BY <2>1, <2>2
<1>8. JournalInv' /\ (Closed' <=> Closed) /\ \A n : Recorded(n) => Recorded(n)'
  BY <1>1, JournalSame
<1>9. Guards(s)' /\ ~Booted(s) /\ Resting(s)'
  BY <1>1, <1>2 DEF Guards, Booted, Resting, Starts
<1>10. \A n \in Ordinals : Running(n)' => Running(n)
  BY <1>1 DEF Running
<1> QED BY <1>1, <1>2, <1>6, <1>7, <1>8, <1>9, <1>10, OthersResting, GuestsKept

(* GuestInv is inductive where no start leaks and releases are proved.     *)
LEMMA GuestStep ==
  ASSUME Writing, ~adverse, ~ReleaseUnproved, TypeOK, TypeOK', LeaseInv, SoundInv,
         LineageInv, LineageInv', CoverInv, GuestInv, NEW s \in Seats, Spares(s),
         StepOf(s)
  PROVE  GuestInv'
<1>1. CASE Check(s)
  BY <1>1, GuestCheck
<1>2. CASE OpStep(s)
  BY <1>2, GuestAcquire, GuestPrepare, GuestRecordAttempt, GuestExecute,
     GuestRelease
  DEF OpStep
<1>3. CASE AttemptStep(s)
  BY <1>3, GuestEnterAttempt, GuestBootVm, GuestRecord, GuestEnd,
     GuestEndThrown, GuestFinalize
  DEF AttemptStep
<1>4. CASE \E reason \in {"operator", "seat-shutdown"} : Signal(s, reason)
  BY <1>4, GuestSignal
<1>5. CASE BeginReconcile(s)
  BY <1>5, GuestOpen
<1>6. CASE ReconcileStep(s)
  BY <1>6, GuestObserve, GuestFinishReconcile DEF ReconcileStep
<1>7. CASE Crash(s)
  BY <1>7, GuestCrash
<1>8. CASE OpenStep(s)
  BY <1>8, GuestOpen, GuestRecover DEF OpenStep
<1> QED BY <1>1, <1>2, <1>3, <1>4, <1>5, <1>6, <1>7, <1>8 DEF StepOf

(* All of it is inductive where seats are prompt and operators release     *)
(* only what is proved gone.                                               *)
Served == Prompt /\ (adverse \/ (CoverInv /\ GuestInv))

(* Served is inductive.                                                    *)
LEMMA ServedStep ==
  ASSUME Writing, ~ReleaseUnproved, Served, [Next]_vars
  PROVE  Served'
<1>1. Prompt'
  BY PromptStep DEF Served
<1>2. CASE /\ UNCHANGED <<adverse, holder, recorded, attempts, journal,
                          snapshot>>
           /\ UNCHANGED <<trees, guests, seat, latest, mem, op, rec, exec,
                          crashes>>
  <2>1. CoverInv => CoverInv'
    BY <1>2 DEF CoverInv, Sealed, CoverOf, EndedLatest, Ended, Known, Starts,
                Positions, AllCovered, Latest, Has
  <2>2. /\ (AllCovered' <=> AllCovered) /\ (Closed' <=> Closed)
        /\ (SavedClean' <=> SavedClean) /\ (JournalInv' <=> JournalInv)
        /\ Latest' = Latest /\ (\A n : Recorded(n)' <=> Recorded(n))
        /\ \A n : Running(n)' <=> Running(n)
    BY <1>2 DEF AllCovered, Closed, Pending, Has, After, Positions, SavedClean,
                JournalInv, Latest, Recorded, Running
  <2>3. \A s \in Seats : /\ (Guards(s)' <=> Guards(s))
                         /\ (Assured(s)' <=> Assured(s))
                         /\ (Resting(s)' <=> Resting(s))
                         /\ (Booted(s)' <=> Booted(s))
    BY <1>2, <2>2 DEF Guards, Booted, Assured, Resting, Starts, EndedLatest, Ended,
                      Known
  <2>4. (Quiet' <=> Quiet) /\ \A n : Tracked(n)' <=> Tracked(n)
    BY <1>2, <2>2, <2>3 DEF Quiet, Tracked
  <2>5. GuestInv => GuestInv'
    BY <2>2, <2>3, <2>4 DEF GuestInv
  <2> QED BY <1>1, <1>2, <2>1, <2>5 DEF Served
<1>3. ASSUME UNCHANGED adverse, NEW s \in Seats, StepOf(s)
      PROVE  Served'
  <2>1. Spares(s) /\ TypeOK /\ LeaseInv /\ SoundInv /\ TypeOK' /\ LeaseInv'
    BY <1>1, <1>3, LeaseSeatStep DEF Served, Prompt
  <2>2. CASE adverse
    BY <1>1, <1>3, <2>2 DEF Served
  <2>3. CASE ~adverse
    <3>1. LineageInv /\ LineageInv' /\ CoverInv /\ GuestInv
      BY <1>1, <1>3, <2>3 DEF Served, Prompt
    <3> QED BY <1>1, <1>3, <2>1, <2>3, <3>1, CoverStep, GuestStep DEF Served
  <2> QED BY <2>2, <2>3
<1> QED BY <1>2, <1>3, Steps

(* At first it holds.                                                      *)
LEMMA ServedInit == Init => Served
BY PromptInit, GuestInit DEF Served

(* The run never has two guests at once, whatever seats launch, retry,     *)
(* resume and reconcile it and die.                                        *)
THEOREM GuestsOneAtATime ==
  ASSUME Writing, ~ReleaseUnproved PROVE Spec => []OneGuestOnRecord
<1>1. Served /\ [Next]_vars => Served'
  BY ServedStep
<1>2. Served => OneGuestOnRecord
  BY DEF Served, GuestInv, Tracked, OneGuestOnRecord, OneGuest
<1> QED BY <1>1, <1>2, ServedInit, PTL DEF Spec

(* A worktree is captured, removed or released only when no guest mounts   *)
(* it.                                                                     *)
THEOREM TreesOutliveGuests ==
  ASSUME Writing, ~ReleaseUnproved PROVE Spec => []NoGuestWithoutTree
<1>1. Served /\ [Next]_vars => Served'
  BY ServedStep
<1>2. Served => NoGuestWithoutTree
  <2>1. SUFFICES ASSUME Served, ~adverse, NEW n \in DOMAIN attempts, Running(n)
                 PROVE  trees[attempts[n].tree] = "kept"
    BY DEF NoGuestWithoutTree
  <2>2. n \in Ordinals
    BY <2>1, Entries DEF Served, Prompt, Ordinals
  <2> QED BY <2>1, <2>2 DEF Served, GuestInv, Tracked
<1> QED BY <1>1, <1>2, ServedInit, PTL DEF Spec

------------------------------------------------------------------------------
(* The lifecycle, in every behaviour.  Where nothing of a run is written   *)
(* there is no worktree, so only a launch finds none; and what a seat that *)
(* works has checked is still what the store says, or an attempt of which  *)
(* only the start is on record.                                            *)
Rooted(s) ==
  /\ seat[s] \in {"read", "leased"} \/ Known(s) \/ Starts(s, {"prepared", "recorded"})
       => recorded
  /\ op[s].at # "idle" =>
       /\ op[s].kind = "launch" => op[s].ordinal = 1 /\ op[s].prior = "none"
       /\ op[s].kind = "launch" /\ op[s].at \in {"checked", "leased"} =>
            op[s].tree = 0
       /\ op[s].kind \in {"retry", "resume"} =>
            op[s].prior \in {"failed", "interrupted"}

RootInv ==
  /\ journal # <<>> \/ snapshot # NoSnapshot => recorded
  /\ recorded => trees[1] # "none"
  /\ \A s \in Seats : Rooted(s)

\* the status of the lifecycle
Stored ==
  IF Has("run-abandoned") THEN "abandoned"
  ELSE IF Pending THEN "cleanup-blocked"
  ELSE IF \E i \in Positions("attempt-starting") : i > snapshot.at
       THEN "active"
  ELSE IF snapshot = NoSnapshot THEN "none"
  ELSE snapshot.result.status

Startable == {"none", "failed", "interrupted", "active"}

Filed(s) ==
  /\ Starts(s, {"prepared", "recorded"}) \/ exec[s].at = "entered" =>
       Stored \in Startable
  /\ exec[s].at \in {"started", "booted", "recorded", "session"} =>
       Stored = "active"
  /\ exec[s].at = "settled" =>
       /\ Stored = exec[s].ended.result.status
       /\ exec[s].ended.result.status # "abandoned"
  /\ op[s].at = "abandoning" => Closed
  /\ op[s].at = "released" /\ op[s].via # "lost" =>
       Closed \/ Stored \in {"active", mem[s].status}
  /\ rec[s].at = "observed" /\ rec[s].via # "lost" =>
       /\ rec[s].pending => Closed
       /\ Closed \/ Stored \in {"active", "cleanup-blocked"}
  /\ mem[s].status = "abandoned" => Has("run-abandoned")

FiledInv ==
  /\ snapshot # NoSnapshot /\ snapshot.result.status = "abandoned" =>
       Has("run-abandoned")
  /\ snapshot.at <= Len(journal)
  /\ \A s \in Seats : Filed(s)

(* At first nothing is recorded.                                           *)
LEMMA RootInit == Init => RootInv
<1>1. SUFFICES ASSUME Init PROVE RootInv
  OBVIOUS
<1>2. journal = <<>> /\ snapshot = NoSnapshot /\ recorded = FALSE
  BY <1>1 DEF Init
<1>3. ASSUME NEW s \in Seats PROVE Rooted(s)
  <2>1. /\ seat[s] = "up" /\ mem[s].status = "none" /\ op[s].at = "idle"
    BY <1>1 DEF Init, Idle, NoRun
  <2> QED BY <2>1 DEF Rooted, Known, Starts
<1> QED BY <1>2, <1>3 DEF RootInv

(* A step of one seat keeps RootInv if it keeps that seat's part.          *)
LEMMA RootKeep ==
  ASSUME RootInv, NEW s \in Seats, Spares(s), recorded => recorded',
         recorded' => recorded \/ trees'[1] # "none",
         trees[1] # "none" => trees'[1] # "none",
         UNCHANGED <<journal, snapshot>> \/ recorded, Rooted(s)'
  PROVE  RootInv'
<1>1. ASSUME NEW t \in Seats PROVE Rooted(t)'
  BY DEF RootInv, Rooted, Spares, Known, Starts
<1> QED BY <1>1 DEF RootInv

(* A check promises a launch its first attempt, others a status to find.   *)
LEMMA RootCheck ==
  ASSUME TypeOK, RootInv, NEW s \in Seats, Spares(s), Check(s)
  PROVE  RootInv'
<1>1. PICK kind, ordinal, tree, prior :
        /\ Begin(s, kind, ordinal, tree, prior)
        /\ kind = "launch" => ordinal = 1 /\ tree = 0 /\ prior = "none"
        /\ kind \in {"retry", "resume"} => prior \in {"failed", "interrupted"}
  BY DEF Check, CheckLaunch, CheckRetry, CheckResume, CheckAbandon, CheckRelease,
         Starting
<1> DEFINE new == [kind |-> kind, at |-> "checked", ordinal |-> ordinal,
                   tree |-> tree, prior |-> prior, via |-> "none"]
<1>2. /\ op' = [op EXCEPT ![s] = new]
      /\ UNCHANGED <<recorded, journal, snapshot, trees, seat, mem>>
  BY <1>1 DEF Begin, store, opening
<1>3. op'[s] = new
  BY <1>2, TypeParts DEF Typed
<1>4. Rooted(s)'
  BY <1>1, <1>2, <1>3 DEF RootInv, Rooted, Known, Starts
<1> QED BY <1>2, <1>4, RootKeep

(* Plain steps keep it.                                                    *)
LEMMA RootPlain ==
  ASSUME RootInv, NEW s \in Seats, Spares(s), Plain(s),
         UNCHANGED <<journal, snapshot>> \/ recorded
  PROVE  RootInv'
<1>1. Rooted(s)'
  BY DEF Plain, OpCarried, MemCarried, SeatCarried, RootInv, Rooted, Starts
<1> QED BY <1>1, RootKeep DEF Plain

(* An operation that is prepared has the run on record; a launch found no  *)
(* worktree.                                                               *)
LEMMA RootPrepare ==
  ASSUME Writing, TypeOK, LeaseInv, RootInv, NEW s \in Seats, Spares(s),
         Prepare(s)
  PROVE  RootInv' /\ (op[s].kind = "launch" /\ op'[s].at # "idle" => trees[1] = "none")
<1>1. /\ op[s] # Idle /\ op[s].at = "leased" /\ op[s] \in Operation
      /\ op[s].kind \in Starting /\ op[s].at # "idle"
      /\ UNCHANGED <<journal, snapshot, seat, mem>>
  BY OpType DEF Prepare, At, opening
<1>2. /\ op \in [Seats -> {Idle} \cup Operation] /\ Idle.at = "idle"
      /\ trees \in [Ordinals -> {"none", "reserved", "kept", "handed", "released"}]
      /\ recorded \in BOOLEAN
  BY TypeParts DEF Typed, StoreTyped, Idle
<1>3. Rooted(s) /\ (recorded => trees[1] # "none") /\ Fits(s)
  BY DEF RootInv, LeaseInv
<1>4. op[s].kind # "launch" => recorded
  BY <1>1, <1>3 DEF Fits, Rooted
<1>5. op[s].ordinal \in Ordinals
      /\ (op[s].kind = "launch" => op[s].tree = 0 /\ op[s].ordinal = 1)
  BY <1>1, <1>3 DEF Fits, Rooted
<1>6. \/ recorded' = recorded /\ trees' = trees
      \/ /\ recorded' = TRUE
         /\ \/ op[s].tree # 0 /\ trees' = trees
            \/ /\ op[s].tree = 0
               /\ \E x \in {trees[op[s].ordinal], "reserved", "kept"} :
                    /\ x # "none"
                    /\ trees' = [trees EXCEPT ![op[s].ordinal] = x]
  BY <1>2, <1>5 DEF Prepare
<1>7. 1 \in Ordinals
  BY Entries
<1>8. /\ recorded => recorded'
      /\ recorded' => recorded \/ trees'[1] # "none"
      /\ trees[1] # "none" => trees'[1] # "none"
  BY <1>2, <1>4, <1>5, <1>6, <1>7
<1>9. \/ Throw(s)
      \/ /\ recorded' = TRUE
         /\ \E tree :
              op' = [op EXCEPT ![s] = [op[s] EXCEPT !.at = "prepared", !.tree = tree]]
         /\ op[s].kind = "launch" => trees[1] = "none"
  <2>1. CASE Throw(s)
    BY <2>1
  <2>2. CASE ~Throw(s)
    <3>1. recorded' = TRUE
      BY <2>2 DEF Prepare
    <3>2. \/ /\ op[s].tree # 0 /\ Goto(s, "prepared")
          \/ /\ op[s].tree = 0 /\ trees[op[s].ordinal] = "none"
             /\ op' = [op EXCEPT ![s].at = "prepared", ![s].tree = op[s].ordinal]
      BY <2>2 DEF Prepare
    <3>3. CASE op[s].tree # 0 /\ Goto(s, "prepared")
      <4>1. op' = [op EXCEPT ![s] = [op[s] EXCEPT !.at = "prepared", !.tree = op[s].tree]]
        BY <1>1, <1>2, <3>3 DEF Goto, Operation
      <4> QED BY <1>5, <3>1, <3>3, <4>1
    <3>4. CASE /\ op[s].tree = 0 /\ trees[op[s].ordinal] = "none"
               /\ op' = [op EXCEPT ![s].at = "prepared", ![s].tree = op[s].ordinal]
      BY <1>5, <3>1, <3>4
    <3> QED BY <3>2, <3>3, <3>4
  <2> QED BY <2>1, <2>2
<1>10. CASE Throw(s)
  <2>1. op'[s].at = "idle"
    BY <1>2, <1>10 DEF Throw
  <2>2. Rooted(s)'
    BY <1>1, <1>3, <1>8, <2>1 DEF Rooted, Known, Starts
  <2> QED BY <1>1, <1>8, <2>1, <2>2, RootKeep
<1>11. ASSUME recorded' = TRUE, NEW tree,
              op' = [op EXCEPT ![s] = [op[s] EXCEPT !.at = "prepared", !.tree = tree]]
       PROVE  RootInv'
  <2>1. /\ op'[s].at = "prepared" /\ op'[s].kind = op[s].kind
        /\ op'[s].ordinal = op[s].ordinal /\ op'[s].prior = op[s].prior
    BY <1>1, <1>2, <1>11 DEF Operation
  <2>2. Rooted(s)'
    BY <1>1, <1>3, <1>11, <2>1 DEF Rooted, Known, Starts
  <2> QED BY <1>1, <1>8, <2>2, RootKeep
<1>12. op[s].kind = "launch" /\ op'[s].at # "idle" => trees[1] = "none"
  <2>1. Throw(s) => op'[s].at = "idle"
    BY <1>2 DEF Throw
  <2> QED BY <1>9, <2>1
<1> QED BY <1>9, <1>10, <1>11, <1>12

(* The steps of an operation keep RootInv.                                 *)
LEMMA RootOpStep ==
  ASSUME Writing, TypeOK, LeaseInv, RootInv, NEW s \in Seats, Spares(s), OpStep(s)
  PROVE  RootInv'
<1>1. op[s] # Idle /\ op[s] \in Operation /\ op[s].at # "idle"
  BY OpType DEF OpStep, Acquire, Fenced, Prepare, RecordAttempt, Execute,
                BeginAbandon, FinishAbandon, ReleaseTrees, FinishRelease, At
<1>2. Fits(s) /\ Rooted(s) /\ (recorded => trees[1] # "none")
  BY DEF LeaseInv, RootInv
<1>3. op \in [Seats -> {Idle} \cup Operation] /\ Idle.at = "idle"
  BY TypeParts DEF Typed, Idle
<1>4. CASE \/ Acquire(s) \/ Fenced(s) \/ BeginAbandon(s) \/ FinishAbandon(s)
           \/ ReleaseTrees(s) \/ FinishRelease(s)
  <2>1. CASE Acquire(s) \/ Fenced(s) \/ ReleaseTrees(s)
    <3>1. UNCHANGED <<journal, snapshot>>
      BY <2>1 DEF Acquire, Fenced, ReleaseTrees, store
    <3> QED BY <1>4, <3>1, PlainOpStep, RootPlain
  <2>2. CASE BeginAbandon(s) \/ FinishAbandon(s) \/ FinishRelease(s)
    <3>1. op[s].kind \in {"abandon", "release"}
      BY <2>2 DEF BeginAbandon, FinishAbandon, FinishRelease, At
    <3>2. recorded
      BY <1>1, <1>2, <3>1 DEF Fits, Rooted
    <3> QED BY <1>4, <3>2, PlainOpStep, RootPlain
  <2> QED BY <1>4, <2>1, <2>2
<1>5. CASE Prepare(s)
  BY <1>5, RootPrepare
<1>6. CASE RecordAttempt(s)
  <2>1. /\ op[s].at = "prepared" /\ op[s].kind \in Starting
        /\ UNCHANGED <<recorded, journal, snapshot, trees, seat, mem>>
    BY <1>6 DEF RecordAttempt, At, opening
  <2>2. op' = [op EXCEPT ![s] = Idle] \/ op' = [op EXCEPT ![s].at = "recorded"]
    BY <1>6 DEF RecordAttempt, Throw, Goto
  <2>3. \/ op'[s].at = "idle"
        \/ /\ op'[s].at = "recorded" /\ op'[s].kind = op[s].kind
           /\ op'[s].ordinal = op[s].ordinal /\ op'[s].prior = op[s].prior
    BY <1>1, <1>3, <2>2 DEF Operation
  <2>4. Rooted(s)'
    BY <1>1, <1>2, <2>1, <2>3 DEF Rooted, Known, Starts
  <2> QED BY <2>1, <2>4, RootKeep
<1>7. CASE Execute(s)
  <2>1. /\ op[s].at = "recorded" /\ op[s].kind \in Starting
        /\ UNCHANGED <<recorded, journal, snapshot, trees, seat>>
        /\ op' = [op EXCEPT ![s] = Idle]
    BY <1>7 DEF Execute, At, opening, store, Throw
  <2>2. op'[s].at = "idle" /\ recorded
    BY <1>2, <1>3, <2>1 DEF Rooted, Starts
  <2>3. Rooted(s)'
    BY <1>2, <2>1, <2>2 DEF Rooted, Starts
  <2> QED BY <2>1, <2>3, RootKeep
<1> QED BY <1>4, <1>5, <1>6, <1>7 DEF OpStep

(* So do those of an attempt, whose run is on record.                      *)
LEMMA RootAttemptStep ==
  ASSUME TypeOK, LeaseInv, RootInv, NEW s \in Seats, Spares(s), AttemptStep(s)
  PROVE  RootInv'
<1>1. exec[s] # Idle /\ exec[s].at # "idle"
  BY ExecType
  DEF AttemptStep, EnterAttempt, BootVm, RecordVm, RecordSession, Complete,
      EndCleanly, EndBlocked, EndLeaked, EndThrown, Finalize, Executing, Unproved
<1>2. recorded /\ Known(s) /\ Rooted(s) /\ op[s].at = "idle"
  <2>1. Known(s) /\ Fits(s) /\ Rooted(s)
    BY <1>1 DEF LeaseInv, Fits, RootInv, Known
  <2> QED BY <1>1, <2>1 DEF Rooted, Fits
<1>3. UNCHANGED <<recorded, seat, op>>
  BY DEF AttemptStep, EnterAttempt, BootVm, RecordVm, RecordSession, Complete,
         EndCleanly, EndBlocked, EndLeaked, EndThrown, Finalize, Settle, opening,
         store
<1>4. Rooted(s)'
  BY <1>2, <1>3 DEF Rooted, Starts
<1>5. trees[1] # "none" => trees'[1] # "none"
  <2>1. \/ UNCHANGED trees
        \/ \E n : trees' = [trees EXCEPT ![n] = "handed"]
    BY DEF AttemptStep, EnterAttempt, BootVm, RecordVm, RecordSession, Complete,
           EndCleanly, EndBlocked, EndLeaked, EndThrown, Finalize, Settle, store
  <2>2. trees \in [Ordinals -> {"none", "reserved", "kept", "handed", "released"}]
        /\ 1 \in Ordinals
    BY TypeParts, Entries DEF Typed, StoreTyped
  <2> QED BY <2>1, <2>2
<1> QED BY <1>2, <1>3, <1>4, <1>5, RootKeep

(* So do signals, reconciles, deaths and recoveries.                       *)
LEMMA RootOtherStep ==
  ASSUME TypeOK, LeaseInv, RootInv, NEW s \in Seats, Spares(s),
         \/ \E reason \in {"operator", "seat-shutdown"} : Signal(s, reason)
         \/ BeginReconcile(s) \/ ReconcileStep(s) \/ Crash(s) \/ OpenStep(s)
  PROVE  RootInv'
<1>1. Rooted(s) /\ Fits(s)
  BY DEF RootInv, LeaseInv
<1>2. CASE \/ \E reason \in {"operator", "seat-shutdown"} : Signal(s, reason)
           \/ BeginReconcile(s) \/ Crash(s) \/ LeaseRecovery(s)
  <2>1. UNCHANGED <<journal, snapshot>>
    BY <1>2 DEF Signal, BeginReconcile, Crash, LeaseRecovery, store
  <2> QED BY <1>2, <2>1, PlainOtherStep, RootPlain
<1>3. CASE ReconcileStep(s)
  <2>1. rec[s].at # "idle"
    BY <1>3, RecType DEF ReconcileStep, Observe, FinishReconcile
  <2>2. recorded
    BY <1>1, <2>1 DEF Fits, Rooted
  <2> QED BY <1>3, <2>2, PlainOtherStep, RootPlain
<1>4. CASE OpenStore(s)
  <2>1. UNCHANGED <<recorded, journal, snapshot, trees, op, mem>>
        /\ (seat'[s] \in {"read", "leased"} => recorded)
    BY <1>4, TypeParts DEF OpenStore, store, Typed
  <2>2. Rooted(s)'
    BY <1>1, <2>1 DEF Rooted, Known, Starts
  <2> QED BY <2>1, <2>2, RootKeep
<1>5. CASE Recover(s)
  <2>1. UNCHANGED <<recorded, journal, trees, op>> /\ seat[s] = "leased"
    BY <1>5 DEF Recover
  <2>2. recorded
    BY <1>1, <2>1 DEF Rooted
  <2>3. Rooted(s)'
    BY <1>1, <2>1, <2>2 DEF Rooted, Starts
  <2> QED BY <2>1, <2>2, <2>3, RootKeep
<1> QED BY <1>2, <1>3, <1>4, <1>5 DEF OpenStep

(* RootInv is inductive.                                                   *)
LEMMA RootStep ==
  ASSUME Writing, TypeOK, LeaseInv, RootInv, NEW s \in Seats, Spares(s), StepOf(s)
  PROVE  RootInv'
BY RootCheck, RootOpStep, RootAttemptStep, RootOtherStep DEF StepOf

(* The status of the lifecycle, by what is on record.                      *)
LEMMA StoredCases ==
  ASSUME TypeOK
  PROVE  /\ Closed => Stored \in {"abandoned", "cleanup-blocked"}
         /\ Has("run-abandoned") => Stored = "abandoned"
         /\ ~Closed /\ ~AllCovered => Stored = "active"
         /\ ~Closed /\ AllCovered =>
              Stored = IF snapshot = NoSnapshot THEN "none"
                                                ELSE snapshot.result.status
<1>1. snapshot.at \in Nat /\ \A i \in Positions("attempt-starting") : i \in Nat
  BY SavedType, Entries DEF Positions
<1>2. (\E i \in Positions("attempt-starting") : i > snapshot.at) <=> ~AllCovered
  <2>1. \A i \in Positions("attempt-starting") : i > snapshot.at <=> ~(i <= snapshot.at)
    BY <1>1
  <2> QED BY <2>1 DEF AllCovered
<1> QED BY <1>2 DEF Stored, Closed

(* What a step leaves that neither saves a result nor starts an attempt    *)
(* nor abandons the run.                                                   *)
LEMMA StoredSame ==
  ASSUME TypeOK, UNCHANGED snapshot,
         \/ UNCHANGED journal
         \/ \E type \in EventTypes \ {"attempt-starting", "run-abandoning",
                                      "run-abandoned"}, n \in Ordinals :
              Write(type, n)
  PROVE  /\ Stored' = Stored /\ (Closed' <=> Closed)
         /\ (Has("run-abandoned")' <=> Has("run-abandoned"))
<1>1. CASE UNCHANGED journal
  <2>1. /\ \A x : Positions(x)' = Positions(x)
        /\ (Pending' <=> Pending)
    BY <1>1 DEF Positions, Pending, After
  <2> QED BY <2>1 DEF Stored, Closed, Has
<1>2. ASSUME NEW type \in EventTypes \ {"attempt-starting", "run-abandoning",
                                        "run-abandoned"},
             NEW n \in Ordinals, Write(type, n)
      PROVE  /\ Stored' = Stored /\ (Closed' <=> Closed)
             /\ (Has("run-abandoned")' <=> Has("run-abandoned"))
  <2>8. /\ DOMAIN journal' = DOMAIN journal \cup {Len(journal) + 1}
        /\ \A i \in DOMAIN journal : journal'[i] = journal[i]
        /\ journal'[Len(journal) + 1] = Event(type, n)
    BY <1>2, Appended
  <2>0. journal'[Len(journal) + 1].type = type
    BY <2>8 DEF Event
  <2>1. \A x \in {"attempt-starting", "run-abandoning", "run-abandoned"} :
          Positions(x)' = Positions(x)
    BY <2>0, <2>8 DEF Positions
  <2>2. Pending' <=> Pending
    BY <2>1 DEF Pending, After
  <2> QED BY <2>1, <2>2 DEF Stored, Closed, Has
<1> QED BY <1>1, <1>2

(* A run that is closed stays closed.                                      *)
LEMMA ClosedGrows ==
  ASSUME TypeOK,
         \/ UNCHANGED journal
         \/ \E type \in EventTypes, n \in Ordinals : Write(type, n)
  PROVE  /\ Closed => Closed'
         /\ Has("run-abandoned") => Has("run-abandoned")'
<1>1. CASE UNCHANGED journal
  BY <1>1 DEF Closed, Pending, Has, After, Positions
<1>2. ASSUME NEW type \in EventTypes, NEW n \in Ordinals, Write(type, n)
      PROVE  /\ Closed => Closed'
             /\ Has("run-abandoned") => Has("run-abandoned")'
  <2>1. \A x : Positions(x) \subseteq Positions(x)'
    BY <1>2, Appended
  <2>2. Has("run-abandoned") => Has("run-abandoned")'
    BY <2>1 DEF Has
  <2>3. CASE type = "run-abandoned"
    <3>1. Positions("run-abandoned")' # {}
      BY <1>2, <2>3, Appended
    <3> QED BY <2>2, <3>1 DEF Has, Closed
  <2>4. CASE type # "run-abandoned"
    <3>8. /\ DOMAIN journal' = DOMAIN journal \cup {Len(journal) + 1}
          /\ \A i \in DOMAIN journal : journal'[i] = journal[i]
          /\ journal'[Len(journal) + 1] = Event(type, n)
      BY <1>2, Appended
    <3>0. journal'[Len(journal) + 1].type = type
      BY <3>8 DEF Event
    <3>1. Positions("run-abandoned")' = Positions("run-abandoned")
      BY <2>4, <3>0, <3>8 DEF Positions
    <3>2. Pending => Pending'
      BY <2>1, <3>1 DEF Pending, After
    <3> QED BY <2>2, <3>2 DEF Closed
  <2> QED BY <2>2, <2>3, <2>4
<1> QED BY <1>1, <1>2

(* The entries that close the run.                                         *)
LEMMA Closing ==
  ASSUME TypeOK, NEW n \in Ordinals
  PROVE  /\ Write("run-abandoning", n) => Closed'
         /\ Write("run-abandoned", n) => Closed' /\ Has("run-abandoned")'
<1>1. ASSUME Write("run-abandoning", n) PROVE Closed'
  <2>1. /\ Len(journal) + 1 \in Positions("run-abandoning")'
        /\ Positions("run-abandoned")' = Positions("run-abandoned")
    <3>8. /\ DOMAIN journal' = DOMAIN journal \cup {Len(journal) + 1}
          /\ \A i \in DOMAIN journal : journal'[i] = journal[i]
          /\ journal'[Len(journal) + 1] = Event("run-abandoning", n)
      BY <1>1, Appended DEF EventTypes
    <3>0. journal'[Len(journal) + 1].type = "run-abandoning"
      BY <3>8 DEF Event
    <3> QED BY <3>0, <3>8 DEF Positions
  <2>2. \A j \in Positions("run-abandoned") : j < Len(journal) + 1
    BY Entries DEF Positions
  <2> QED BY <2>1, <2>2 DEF Closed, Pending, After
<1>2. ASSUME Write("run-abandoned", n) PROVE Closed' /\ Has("run-abandoned")'
  <2>1. Positions("run-abandoned")' # {}
    BY <1>2, Appended DEF EventTypes
  <2> QED BY <2>1 DEF Closed, Has
<1> QED BY <1>1, <1>2

(* A result that is saved is the run's status, unless the run is closed.   *)
LEMMA StoredSave ==
  ASSUME TypeOK', NEW e, Save(e)
  PROVE  /\ Closed' => Stored' \in {"abandoned", "cleanup-blocked"}
         /\ Has("run-abandoned")' => Stored' = "abandoned"
         /\ ~Closed' => Stored' = e.result.status
         /\ snapshot'.result.status = e.result.status
<1>1. AllCovered'
  BY SaveCovers
<1>2. /\ snapshot'.at \in Nat
      /\ \A i \in Positions("attempt-starting")' : i \in Nat
  <2>1. journal' \in Seq([type : EventTypes, attempt : Ordinals])
        /\ snapshot' \in {NoSnapshot} \cup Saved
    BY TypeParts DEF Typed, StoreTyped
  <2> QED BY <2>1 DEF Positions, NoSnapshot, Saved
<1>3. ~(\E i \in Positions("attempt-starting") : i > snapshot.at)'
  <2>1. \A i \in Positions("attempt-starting")' : ~(i > snapshot'.at)
    BY <1>1, <1>2 DEF AllCovered
  <2> QED BY <2>1
<1>4. snapshot'.result.status = e.result.status /\ snapshot' # NoSnapshot
  BY DEF Save, NoSnapshot
<1> QED BY <1>3, <1>4 DEF Stored, Closed

(* The moves of the lifecycle.                                             *)
Moves(a, b) ==
  \/ a = b
  \/ a = "none" /\ b \in {"active", "cleanup-blocked"}
  \/ a \in {"completed", "failed", "cancelled", "interrupted"} /\ b = "active"
  \/ a = "active" /\ b \in {"completed", "failed", "cancelled", "interrupted",
                            "cleanup-blocked"}
  \/ a = "cleanup-blocked" /\ b \in ResultStatuses
  \/ a = "interrupted" /\ b \in {"cleanup-blocked", "abandoned"}

(* A move is a step of the lifecycle, or leaves the status.                *)
LEMMA LifecycleMoves ==
  ASSUME Moves(Stored, Stored')
  PROVE  [Lifecycle!Next]_Stored
<1>1. /\ Lifecycle!Launch <=> Stored = "none" /\ Stored' = "active"
      /\ Lifecycle!Relaunch <=> /\ Stored # "none" /\ "queued" \in Transition(Stored)
                                /\ Stored' = "active"
      /\ Lifecycle!Settle <=>
           /\ Stored = "active"
           /\ Stored' \in (Transition("active") \cup Transition("stopping"))
                             \ {"stopping"}
      /\ Lifecycle!Reconcile <=> /\ Stored = "cleanup-blocked"
                                 /\ Stored' \in Transition("cleanup-blocked")
      /\ Lifecycle!Abandon <=> /\ Stored = "interrupted"
                               /\ Stored' \in {"cleanup-blocked", "abandoned"}
      /\ Lifecycle!LoseLaunch <=> Stored = "none" /\ Stored' = "cleanup-blocked"
  BY DEF Lifecycle!Launch, Lifecycle!Relaunch, Lifecycle!Settle,
         Lifecycle!Reconcile, Lifecycle!Abandon, Lifecycle!LoseLaunch, Stored,
         Lifecycle!Transition, Transition
<1>2. /\ Transition("active") = {"stopping", "completed", "failed",
                                 "interrupted", "cleanup-blocked"}
      /\ Transition("stopping") = {"cancelled", "cleanup-blocked"}
      /\ Transition("cleanup-blocked") = ResultStatuses
      /\ \A a \in {"completed", "failed", "cancelled", "interrupted"} :
           "queued" \in Transition(a)
  BY DEF Transition, ResultStatuses
<1> HIDE DEF Stored
<1> QED BY <1>1, <1>2 DEF Moves, Lifecycle!Next

(* At first the run has no status.                                         *)
LEMMA FiledInit == Init => FiledInv /\ Stored = "none"
<1>1. SUFFICES ASSUME Init PROVE FiledInv /\ Stored = "none"
  OBVIOUS
<1>2. journal = <<>> /\ snapshot = NoSnapshot /\ (\A x : Positions(x) = {})
  BY <1>1 DEF Init, Positions
<1>3. Stored = "none"
  BY <1>2 DEF Stored, Has, Pending
<1>4. ASSUME NEW s \in Seats PROVE Filed(s)
  <2>1. /\ mem[s].status = "none" /\ op[s].at = "idle" /\ exec[s].at = "idle"
        /\ rec[s].at = "idle"
    BY <1>1 DEF Init, Idle, NoRun
  <2> QED BY <2>1 DEF Filed, Starts
<1> QED BY <1>2, <1>3, <1>4 DEF FiledInv, NoSnapshot

(* Only who works changes what is filed: the step of one seat keeps what   *)
(* the others rely on.                                                     *)
LEMMA FiledKeep ==
  ASSUME TypeOK, LeaseInv, FiledInv, NEW s \in Seats, Spares(s),
         Works(s) \/ Stored' = Stored,
         \/ UNCHANGED journal
         \/ \E type \in EventTypes, n \in Ordinals : Write(type, n),
         \/ UNCHANGED snapshot
         \/ /\ snapshot'.at = Len(journal')
            /\ snapshot'.result.status = "abandoned" => Has("run-abandoned")',
         Filed(s)'
  PROVE  FiledInv'
<1>0. /\ Closed => Closed'
      /\ Has("run-abandoned") => Has("run-abandoned")'
  BY ClosedGrows
<1>1. ASSUME NEW t \in Seats PROVE Filed(t)'
  <2>1. CASE t = s
    BY <2>1
  <2>2. CASE t # s
    <3>1. Filed(t) /\ Fits(t)
      BY DEF FiledInv, LeaseInv
    <3>2. /\ mem'[t] = mem[t] /\ op'[t] = op[t] /\ rec'[t] = rec[t]
          /\ exec'[t] = exec[t]
      BY <2>2 DEF Spares
    <3>3. CASE Stored' = Stored
      BY <1>0, <3>1, <3>2, <3>3 DEF Filed, Starts
    <3>4. CASE Works(s)
      <4>1. ~Works(t)
        BY <2>2, <3>4, Sole
      <4>2. /\ exec[t].at = "idle" /\ ~Starts(t, {"prepared", "recorded"})
            /\ op[t].at # "idle" =>
                 \/ op[t].at = "checked"
                 \/ op[t].via = "lost" /\ op[t].kind = "release"
        BY <2>2, <3>4, OthersRest
      <4>3. op[t].at # "abandoning" /\ ~(op[t].at = "released" /\ op[t].via # "lost")
        BY <3>1, <4>2 DEF Fits
      <4>4. ~(rec[t].at = "observed" /\ rec[t].via # "lost")
        <5>1. rec[t].at = "observed" => rec[t].via \in {"rec", "run", "lost"}
          BY RecType DEF Observed
        <5> QED BY <4>1, <5>1 DEF Works
      <4> QED BY <1>0, <3>1, <3>2, <4>2, <4>3, <4>4 DEF Filed, Starts
    <3> QED BY <3>3, <3>4
  <2> QED BY <2>1, <2>2
<1>2. /\ snapshot'.at <= Len(journal')
      /\ snapshot' # NoSnapshot /\ snapshot'.result.status = "abandoned" =>
           Has("run-abandoned")'
  <2>1. /\ Len(journal) \in Nat /\ Len(journal') \in Nat
        /\ Len(journal) <= Len(journal')
    BY Entries, Appended
  <2>2. snapshot.at \in Nat
    BY SavedType
  <2>3. CASE UNCHANGED snapshot
    BY <1>0, <2>1, <2>2, <2>3 DEF FiledInv
  <2>4. CASE /\ snapshot'.at = Len(journal')
             /\ snapshot'.result.status = "abandoned" => Has("run-abandoned")'
    BY <2>1, <2>4
  <2> QED BY <2>3, <2>4
<1> QED BY <1>1, <1>2 DEF FiledInv

(* Steps that leave the status, and carry on with what was checked.        *)
LEMMA FiledSame ==
  ASSUME TypeOK, LeaseInv, FiledInv, NEW s \in Seats, Spares(s),
         UNCHANGED snapshot,
         \/ UNCHANGED journal
         \/ \E type \in EventTypes \ {"attempt-starting", "run-abandoning",
                                      "run-abandoned"}, n \in Ordinals :
              Write(type, n),
         Starts(s, {"prepared", "recorded"})' \/ exec'[s].at = "entered" =>
           \/ Starts(s, {"prepared", "recorded"}) \/ exec[s].at = "entered"
           \/ Stored \in Startable,
         exec'[s].at \in {"started", "booted", "recorded", "session"} =>
           exec[s].at \in {"started", "booted", "recorded", "session"},
         exec'[s].at = "settled" => exec'[s] = exec[s],
         op'[s].at = "abandoning" => op[s].at = "abandoning",
         op'[s].at = "released" /\ op'[s].via # "lost" =>
           /\ mem'[s].status = mem[s].status
           /\ \/ op[s].at = "released" /\ op[s].via # "lost"
              \/ Closed \/ Stored \in {"active", mem[s].status},
         rec'[s].at = "observed" /\ rec'[s].via # "lost" =>
           \/ rec'[s] = rec[s]
           \/ /\ rec'[s].pending => Closed
              /\ Closed \/ Stored \in {"active", "cleanup-blocked"},
         mem'[s].status = "abandoned" => mem[s].status = "abandoned"
  PROVE  FiledInv' /\ Stored' = Stored
<1>1. /\ Stored' = Stored /\ (Closed' <=> Closed)
      /\ (Has("run-abandoned")' <=> Has("run-abandoned"))
  BY StoredSame
<1>2. Filed(s)
  BY DEF FiledInv
<1>3. Filed(s)'
  BY <1>1, <1>2 DEF Filed
<1>4. \/ UNCHANGED journal
      \/ \E type \in EventTypes, n \in Ordinals : Write(type, n)
  OBVIOUS
<1> QED BY <1>1, <1>3, <1>4, FiledKeep

(* Checks and the lease leave the status as it is.                         *)
LEMMA FiledCheck ==
  ASSUME TypeOK, LeaseInv, FiledInv, NEW s \in Seats, Spares(s),
         Check(s) \/ Acquire(s) \/ Fenced(s)
  PROVE  FiledInv' /\ Stored' = Stored
<1>1. UNCHANGED <<journal, snapshot, mem, rec, exec>>
  BY DEF Check, CheckLaunch, CheckRetry, CheckResume, CheckAbandon, CheckRelease,
         Begin, Acquire, Fenced, store
<1>2. op'[s].at \in {"idle", "checked", "leased"}
  <2>1. /\ op \in [Seats -> {Idle} \cup Operation] /\ Idle.at = "idle"
    BY TypeParts DEF Typed, Idle
  <2>2. CASE Check(s)
    BY <2>1, <2>2
    DEF Check, CheckLaunch, CheckRetry, CheckResume, CheckAbandon, CheckRelease,
        Begin
  <2>3. CASE Acquire(s)
    <3>1. op[s] \in Operation
      BY <2>3, OpType DEF Acquire
    <3> QED BY <2>1, <2>3, <3>1 DEF Acquire, Operation, Throw
  <2>4. CASE Fenced(s)
    BY <2>1, <2>4 DEF Fenced, Throw
  <2> QED BY <2>2, <2>3, <2>4
<1>3. ~Starts(s, {"prepared", "recorded"})'
  BY <1>2 DEF Starts
<1> QED BY <1>1, <1>2, <1>3, FiledSame

(* The attempt: before its start, after it, and as it throws.              *)
LEMMA FiledAttempt ==
  ASSUME TypeOK, LeaseInv, FiledInv, NEW s \in Seats, Spares(s),
         \/ BootVm(s) \/ RecordVm(s) \/ RecordSession(s) \/ EndThrown(s)
         \/ \E reason \in {"operator", "seat-shutdown"} : Signal(s, reason)
  PROVE  FiledInv' /\ Stored' = Stored
<1>1. UNCHANGED <<snapshot, op, rec>>
  BY DEF BootVm, RecordVm, RecordSession, EndThrown, Signal, store
<1>2. /\ exec \in [Seats -> {Idle} \cup Attempting \cup Settled] /\ Idle.at = "idle"
      /\ mem \in [Seats -> {NoRun} \cup Memory]
  BY TypeParts DEF Typed, Idle
<1>3. exec[s].at # "idle" /\ Fits(s)
  <2>1. CASE \E reason \in {"operator", "seat-shutdown"} : Signal(s, reason)
    <3>1. Known(s) /\ mem[s].status \in {"active", "stopping"}
      BY <2>1, MemoryType DEF Signal, Loaded
    <3> QED BY <3>1 DEF LeaseInv, Fits
  <2>2. CASE BootVm(s) \/ RecordVm(s) \/ RecordSession(s) \/ EndThrown(s)
    BY <2>2, ExecType DEF BootVm, RecordVm, RecordSession, EndThrown, Executing,
                          LeaseInv
  <2> QED BY <2>1, <2>2
<1>4. op[s].at = "idle" /\ mem[s] \in Memory
      /\ exec[s] \in Attempting \cup Settled
  BY <1>3, MemoryType, ExecType DEF Fits, Known, NoRun
<1>5. mem'[s].status = "abandoned" => mem[s].status = "abandoned"
  <2>1. \/ UNCHANGED mem
        \/ mem' = [mem EXCEPT ![s].status = "cleanup-blocked"]
        \/ mem' = [mem EXCEPT ![s].status = "stopping"]
    BY DEF BootVm, RecordVm, RecordSession, EndThrown, Signal
  <2> QED BY <1>2, <1>4, <2>1 DEF Memory
<1>6. /\ exec'[s].at = "entered" => exec[s].at = "entered"
      /\ exec'[s].at \in {"started", "booted", "recorded", "session"} =>
           exec[s].at \in {"started", "booted", "recorded", "session"}
      /\ exec'[s].at = "settled" => exec'[s] = exec[s]
  <2>1. CASE \E reason \in {"operator", "seat-shutdown"} : Signal(s, reason)
    <3>1. PICK reason \in {"operator", "seat-shutdown"} : Signal(s, reason)
      BY <2>1
    <3>2. CASE exec[s].at = "settled"
      BY <1>3, <3>1, <3>2, ExecType DEF Signal, Executing
    <3>3. CASE exec[s].at # "settled"
      <4>1. exec[s] \in Attempting
        BY <1>4, <3>3 DEF Settled
      <4>2. exec'[s].at = exec[s].at
        BY <1>2, <3>1, <3>3, <4>1 DEF Signal, Executing, Attempting
      <4> QED BY <3>3, <4>2
    <3> QED BY <3>2, <3>3
  <2>2. CASE BootVm(s)
    <3>1. exec[s].at = "started" /\ exec' = [exec EXCEPT ![s].at = "booted"]
      BY <2>2 DEF BootVm, Executing, Reach
    <3>2. exec[s] \in Attempting
      BY <3>1, ExecType
    <3> QED BY <1>2, <3>1, <3>2 DEF Attempting
  <2>3. CASE RecordVm(s)
    <3>1. exec[s].at = "booted" /\ exec' = [exec EXCEPT ![s].at = "recorded"]
      BY <2>3 DEF RecordVm, Executing, Reach
    <3>2. exec[s] \in Attempting
      BY <3>1, ExecType
    <3> QED BY <1>2, <3>1, <3>2 DEF Attempting
  <2>4. CASE RecordSession(s)
    <3>1. exec[s].at = "recorded" /\ exec' = [exec EXCEPT ![s].at = "session"]
      BY <2>4 DEF RecordSession, Executing, Reach
    <3>2. exec[s] \in Attempting
      BY <3>1, ExecType
    <3> QED BY <1>2, <3>1, <3>2 DEF Attempting
  <2>5. CASE EndThrown(s)
    BY <1>2, <2>5 DEF EndThrown
  <2> QED BY <2>1, <2>2, <2>3, <2>4, <2>5
<1>7. \/ UNCHANGED journal
      \/ \E type \in {"sandbox-started", "session-started"}, n \in Ordinals :
           Write(type, n)
  <2>1. exec[s].attempt \in Ordinals
    BY <1>3, ExecType
  <2> QED BY <2>1 DEF BootVm, RecordVm, RecordSession, EndThrown, Signal, store
<1>8. rec'[s] = rec[s] /\ op'[s].at = "idle" /\ ~Starts(s, {"prepared", "recorded"})'
  BY <1>1, <1>4 DEF Starts
<1>9. \/ UNCHANGED journal
      \/ \E type \in EventTypes \ {"attempt-starting", "run-abandoning",
                                   "run-abandoned"}, n \in Ordinals :
           Write(type, n)
  BY <1>7 DEF EventTypes
<1> QED BY <1>1, <1>5, <1>6, <1>8, <1>9, FiledSame

(* So do the begin of a reconcile, a death, and opening the store.         *)
LEMMA FiledOpen ==
  ASSUME TypeOK, LeaseInv, FiledInv, NEW s \in Seats, Spares(s),
         BeginReconcile(s) \/ Crash(s) \/ OpenStore(s) \/ LeaseRecovery(s)
  PROVE  FiledInv' /\ Stored' = Stored
<1>1. UNCHANGED <<journal, snapshot>>
  BY DEF BeginReconcile, Crash, OpenStore, LeaseRecovery, store
<1>2. CASE BeginReconcile(s)
  <2>1. UNCHANGED <<op, exec, mem>>
    BY <1>2 DEF BeginReconcile
  <2>2. rec'[s].at = "leased"
    BY <1>2, TypeParts DEF BeginReconcile, Typed
  <2> QED BY <1>1, <2>1, <2>2, FiledSame DEF Starts
<1>3. CASE Crash(s)
  <2>1. /\ mem'[s].status = "none" /\ op'[s].at = "idle" /\ rec'[s].at = "idle"
        /\ exec'[s].at = "idle"
    BY <1>3, TypeParts DEF Crash, Typed, NoRun, Idle
  <2>2. ~Starts(s, {"prepared", "recorded"})'
    BY <2>1 DEF Starts
  <2> QED BY <1>1, <2>1, <2>2, FiledSame
<1>4. CASE OpenStore(s) \/ LeaseRecovery(s)
  <2>1. UNCHANGED <<op, rec, exec, mem>>
    BY <1>4 DEF OpenStore, LeaseRecovery
  <2> QED BY <1>1, <2>1, FiledSame DEF Starts
<1> QED BY <1>2, <1>3, <1>4

(* What a check of the durable status says of the lifecycle's.             *)
LEMMA StoredDurable ==
  ASSUME TypeOK, SoundInv
  PROVE  /\ DurableStatus = "cleanup-blocked" =>
              Closed \/ Stored \in {"active", "cleanup-blocked"}
         /\ DurableStatus \notin {"abandoned", "cleanup-blocked", "unavailable"} =>
              ~Closed /\ Stored \in {"active", DurableStatus}
         /\ DurableStatus = "abandoned" =>
              Has("run-abandoned") \/ Stored \in {"active", "abandoned"}
<1>1. Persisted <=> snapshot # NoSnapshot
  BY DEF SoundInv, SoundSaved, Sound, Persisted
<1>2. ~Closed => DurableStatus = IF snapshot = NoSnapshot THEN "unavailable"
                                 ELSE snapshot.result.status
  BY <1>1 DEF DurableStatus, Closed
<1>3. Closed => DurableStatus \in {"abandoned", "cleanup-blocked"}
  BY DEF DurableStatus, Closed
<1>4. ~Closed /\ snapshot # NoSnapshot =>
        Stored \in {"active", snapshot.result.status}
  BY StoredCases
<1>5. Has("run-abandoned") => Closed
  BY DEF Closed
<1>6. Closed /\ DurableStatus = "abandoned" => Has("run-abandoned")
  BY DEF DurableStatus, Closed
<1> HIDE DEF DurableStatus
<1> QED BY <1>2, <1>3, <1>4, <1>5, <1>6

(* An operation is prepared where the status permits a start.              *)
LEMMA FiledPrepare ==
  ASSUME Writing, TypeOK, LeaseInv, SoundInv, RootInv, FiledInv, NEW s \in Seats,
         Spares(s), Prepare(s)
  PROVE  FiledInv' /\ Stored' = Stored
<1>1. /\ op[s] # Idle /\ op[s].at = "leased" /\ op[s] \in Operation
      /\ op[s].kind \in Starting /\ op[s].at # "idle"
      /\ UNCHANGED <<journal, snapshot, mem, rec, exec>>
  BY OpType DEF Prepare, At
<1>2. op \in [Seats -> {Idle} \cup Operation] /\ Idle.at = "idle"
  BY TypeParts DEF Typed, Idle
<1>3. op' = [op EXCEPT ![s] = Idle] \/
      \E tree : op' = [op EXCEPT ![s].at = "prepared", ![s].tree = tree] \/
                op' = [op EXCEPT ![s].at = "prepared"]
  BY DEF Prepare, Throw, Goto
<1>4. op'[s].at \in {"idle", "prepared"}
  BY <1>1, <1>2, <1>3 DEF Operation
<1>5. ASSUME op'[s].at = "prepared" PROVE Stored \in Startable
  <2>1. CASE op[s].kind = "launch"
    <3>1. trees[1] = "none"
      BY <1>5, <2>1, RootPrepare
    <3>2. journal = <<>> /\ snapshot = NoSnapshot
      BY <3>1 DEF RootInv
    <3>3. ~Closed /\ AllCovered
      BY <3>2 DEF Closed, Pending, Has, AllCovered, Positions
    <3> QED BY <3>2, <3>3, StoredCases DEF Startable
  <2>2. CASE op[s].kind # "launch"
    <3>1. op[s].prior \in {"failed", "interrupted"}
      BY <1>1, <2>2 DEF RootInv, Rooted, Starting
    <3>2. DurableStatus = op[s].prior
      <4>1. SUFFICES ASSUME DurableStatus # op[s].prior PROVE FALSE
        OBVIOUS
      <4>2. Throw(s)
        BY <3>1, <4>1 DEF Prepare
      <4>3. op'[s].at = "idle"
        BY <1>2, <4>2 DEF Throw
      <4> QED BY <1>5, <4>3
    <3> HIDE DEF DurableStatus
    <3> QED BY <3>1, <3>2, StoredDurable DEF Startable
  <2> QED BY <2>1, <2>2
<1>6. Starts(s, {"prepared", "recorded"})' => Stored \in Startable
  BY <1>4, <1>5 DEF Starts
<1> QED BY <1>1, <1>4, <1>6, FiledSame

(* It still does when the attempt is recorded and when it begins.          *)
LEMMA FiledExecute ==
  ASSUME TypeOK, LeaseInv, FiledInv, NEW s \in Seats, Spares(s),
         RecordAttempt(s) \/ Execute(s)
  PROVE  FiledInv' /\ Stored' = Stored
<1>1. /\ op[s] # Idle /\ op[s] \in Operation /\ Starts(s, {"prepared", "recorded"})
      /\ UNCHANGED <<journal, snapshot, rec>> /\ op[s].at # "idle"
  BY OpType DEF RecordAttempt, Execute, At, Starts, store
<1>2. /\ op \in [Seats -> {Idle} \cup Operation] /\ Idle.at = "idle"
      /\ exec \in [Seats -> {Idle} \cup Attempting \cup Settled]
      /\ mem \in [Seats -> {NoRun} \cup Memory]
  BY TypeParts DEF Typed, Idle
<1>3. op'[s].at \in {"idle", "recorded"}
  BY <1>1, <1>2 DEF RecordAttempt, Execute, Throw, Goto, Operation
<1>4. exec[s].at = "idle" /\ Stored \in Startable
  BY <1>1 DEF LeaseInv, Fits, FiledInv, Filed
<1>5. exec'[s] = exec[s] \/ exec'[s].at = "entered"
  BY <1>2 DEF RecordAttempt, Execute
<1>6. mem'[s] = mem[s] \/ mem'[s].status = "active"
  BY <1>2 DEF RecordAttempt, Execute
<1> QED BY <1>1, <1>3, <1>4, <1>5, <1>6, FiledSame

(* The start of an attempt makes the run active.                           *)
LEMMA FiledEnterAttempt ==
  ASSUME TypeOK, TypeOK', LeaseInv, FiledInv, NEW s \in Seats, Spares(s),
         EnterAttempt(s)
  PROVE  FiledInv' /\ Moves(Stored, Stored')
<1>1. /\ exec[s].at = "entered" /\ exec[s].attempt \in Ordinals
      /\ exec[s] \in Attempting /\ exec[s].at # "idle"
      /\ Write("attempt-starting", exec[s].attempt)
      /\ exec' = [exec EXCEPT ![s].at = "started"]
      /\ UNCHANGED <<snapshot, mem, op, rec>>
  BY ExecType DEF EnterAttempt, Executing, Reach
<1>2. exec'[s].at = "started"
  BY <1>1, TypeParts DEF Typed, Attempting
<1>3. Works(s) /\ op[s].at = "idle" /\ Stored \in Startable
  BY <1>1 DEF Works, LeaseInv, Fits, FiledInv, Filed
<1>4. ~Closed
  BY <1>3, StoredCases DEF Startable
<1>5. ~Closed'
  BY <1>1, <1>4, ClosedKept DEF EventTypes
<1>6. \E i \in Positions("attempt-starting")' : i > snapshot'.at
  <2>1. Len(journal) + 1 \in Positions("attempt-starting")'
    BY <1>1, Appended DEF EventTypes
  <2>2. Len(journal) \in Nat /\ snapshot.at \in Nat /\ snapshot.at <= Len(journal)
    BY Entries, SavedType DEF FiledInv
  <2>3. Len(journal) + 1 > snapshot'.at
    BY <1>1, <2>2
  <2> QED BY <2>1, <2>3
<1>7. Stored' = "active"
  BY <1>5, <1>6 DEF Stored, Closed
<1>8. Filed(s)'
  BY <1>1, <1>2, <1>3, <1>4, <1>7 DEF FiledInv, Filed, Starts, Closed
<1>9. \E type \in EventTypes, n \in Ordinals : Write(type, n)
  BY <1>1 DEF EventTypes
<1>10. FiledInv'
  BY <1>1, <1>3, <1>8, <1>9, FiledKeep
<1> QED BY <1>3, <1>7, <1>10 DEF Moves, Startable

(* A result saved by who works on the run moves the status to its own.     *)
LEMMA FiledSave ==
  ASSUME TypeOK, TypeOK', LeaseInv, FiledInv, NEW s \in Seats, Spares(s),
         Works(s), NEW e, Save(e), UNCHANGED journal,
         Closed \/ Moves(Stored, e.result.status),
         e.result.status = "abandoned" => Has("run-abandoned"),
         Filed(s)'
  PROVE  FiledInv' /\ Moves(Stored, Stored')
<1>1. (Closed' <=> Closed) /\ (Has("run-abandoned")' <=> Has("run-abandoned"))
      /\ (Pending' <=> Pending)
  BY DEF Closed, Pending, Has, After, Positions
<1>2. /\ snapshot'.at = Len(journal')
      /\ snapshot'.result.status = e.result.status
  BY DEF Save
<1>3. FiledInv'
  BY <1>1, <1>2, FiledKeep
<1>4. Closed => Stored' = Stored
  BY <1>1 DEF Stored, Closed
<1>5. ~Closed => Stored' = e.result.status
  BY <1>1, StoredSave
<1> QED BY <1>3, <1>4, <1>5 DEF Moves

(* An attempt that settles is over on record.                              *)
LEMMA FiledSettle ==
  ASSUME TypeOK, TypeOK', LeaseInv, FiledInv, NEW s \in Seats, Spares(s),
         exec[s].at \in {"started", "booted", "recorded", "session"},
         NEW result, Settle(s, result),
         result.status \in {"completed", "failed", "cancelled", "interrupted",
                            "cleanup-blocked"}
  PROVE  FiledInv' /\ Moves(Stored, Stored')
<1> DEFINE e == Execution(result, exec[s].at = "session")
<1>1. /\ Save(e) /\ UNCHANGED <<journal, mem, op, rec>>
      /\ exec' = [exec EXCEPT ![s] = [at |-> "settled",
                                      attempt |-> exec[s].attempt, ended |-> e]]
  BY DEF Settle
<1>2. e.result = result
  BY DEF Execution
<1> HIDE DEF e
<1>3. exec'[s].at = "settled" /\ exec'[s].ended = e
  BY <1>1, TypeParts DEF Typed
<1>4. /\ Works(s) /\ op[s].at = "idle" /\ mem[s].status \in {"active", "stopping"}
      /\ rec[s].at # "idle" => rec[s].via = "lost"
  BY DEF Works, LeaseInv, Fits
<1>5. Stored = "active" /\ ~Closed
  BY StoredCases DEF FiledInv, Filed
<1>6. ~Closed'
  BY <1>1, <1>5, ClosedKept
<1>7. Stored' = result.status
  BY <1>1, <1>2, <1>6, StoredSave
<1>8. Filed(s)'
  BY <1>1, <1>2, <1>3, <1>4, <1>7 DEF Filed, Starts
<1>9. Moves(Stored, e.result.status)
  BY <1>2, <1>5 DEF Moves
<1> QED BY <1>1, <1>2, <1>4, <1>8, <1>9, FiledSave

(* The ends of an attempt.                                                 *)
LEMMA FiledEnd ==
  ASSUME TypeOK, TypeOK', LeaseInv, FiledInv, NEW s \in Seats, Spares(s),
         Complete(s) \/ EndCleanly(s) \/ EndBlocked(s) \/ EndLeaked(s)
  PROVE  FiledInv' /\ Moves(Stored, Stored')
<1>1. exec[s].at \in {"started", "booted", "recorded", "session"}
  BY DEF Complete, EndCleanly, EndBlocked, EndLeaked, Executing, Unproved
<1>2. PICK status \in {"completed", "failed", "cancelled", "interrupted",
                       "cleanup-blocked"},
           retry \in {"none", "manual", "never", "reconcile", "resume"},
           sandbox \in {"proved", "not-needed", "blocked"},
           workspace \in {"proved", "not-needed", "retained", "blocked"} :
        Settle(s, Result(status, retry, sandbox, workspace))
  <2>1. CASE Complete(s)
    BY <2>1 DEF Complete, ReleasedTree
  <2>2. CASE EndCleanly(s)
    BY <2>2 DEF EndCleanly
  <2>3. CASE EndBlocked(s)
    BY <2>3 DEF EndBlocked
  <2>4. CASE EndLeaked(s)
    BY <2>4 DEF EndLeaked
  <2> QED BY <2>1, <2>2, <2>3, <2>4
<1>3. Result(status, retry, sandbox, workspace).status = status
  BY DEF Result
<1> QED BY <1>1, <1>2, <1>3, FiledSettle

(* The continuation of an attempt saves what is on record already.         *)
LEMMA FiledFinalize ==
  ASSUME TypeOK, TypeOK', LeaseInv, FiledInv, NEW s \in Seats, Spares(s),
         Finalize(s)
  PROVE  FiledInv' /\ Moves(Stored, Stored')
<1> DEFINE e == exec[s].ended
<1>1. /\ exec[s].at = "settled" /\ exec[s].at # "idle"
      /\ exec' = [exec EXCEPT ![s] = Idle]
      /\ UNCHANGED <<journal, op, rec>>
  BY DEF Finalize, Executing
<1>2. exec'[s].at = "idle"
  BY <1>1, TypeParts DEF Typed, Idle
<1>3. /\ Works(s) /\ op[s].at = "idle" /\ mem[s].status \in {"active", "stopping"}
      /\ rec[s].at # "idle" => rec[s].via = "lost"
  BY <1>1 DEF Works, LeaseInv, Fits
<1>4. mem[s] \in Memory
  BY <1>3, MemoryType DEF Known
<1>5. Stored = e.result.status /\ e.result.status # "abandoned"
  BY <1>1 DEF FiledInv, Filed
<1> HIDE DEF e
<1>6. mem'[s].status # "abandoned"
  <2>1. ASSUME mem' = [mem EXCEPT ![s].status = e.result.status, ![s].ended = e,
                         ![s].leased = e.result.status = "cleanup-blocked"]
        PROVE  mem'[s].status = e.result.status
    BY <1>4, <2>1, TypeParts DEF Typed, Memory
  <2>2. ASSUME mem' = [mem EXCEPT ![s].status = "cleanup-blocked"]
        PROVE  mem'[s].status = "cleanup-blocked"
    BY <1>4, <2>2, TypeParts DEF Typed, Memory
  <2> QED BY <1>5, <2>1, <2>2 DEF Finalize, e
<1>7. Filed(s)'
  BY <1>1, <1>2, <1>3, <1>6 DEF Filed, Starts
<1>8. CASE Save(e)
  BY <1>1, <1>3, <1>5, <1>7, <1>8, FiledSave DEF Moves
<1>9. CASE UNCHANGED snapshot
  <2>1. Stored' = Stored
    BY <1>1, <1>9, StoredSame
  <2> QED BY <1>1, <1>7, <1>9, <2>1, FiledKeep DEF Moves
<1> QED BY <1>8, <1>9 DEF Finalize, e

(* An abandonment begins from an interrupted run only.                     *)
LEMMA FiledBeginAbandon ==
  ASSUME TypeOK, TypeOK', LeaseInv, SoundInv, FiledInv, NEW s \in Seats,
         Spares(s), BeginAbandon(s)
  PROVE  FiledInv' /\ Moves(Stored, Stored')
<1>1. /\ op[s].at = "leased" /\ op[s].kind = "abandon" /\ op[s] \in Operation
      /\ UNCHANGED <<snapshot, rec, exec>>
  BY OpType DEF BeginAbandon, At
<1>2. /\ op \in [Seats -> {Idle} \cup Operation] /\ Idle.at = "idle"
      /\ mem \in [Seats -> {NoRun} \cup Memory]
  BY TypeParts DEF Typed, Idle
<1>3. /\ exec[s].at = "idle" /\ op[s].via = "op" /\ mem[s] \in Memory
      /\ mem[s].status = "interrupted"
      /\ rec[s].at # "idle" => rec[s].via = "lost"
  BY <1>1, MemoryType DEF LeaseInv, Fits, Ended, Operation
<1>4. CASE Throw(s) /\ UNCHANGED <<journal, mem>>
  <2>1. op'[s].at = "idle"
    BY <1>2, <1>4 DEF Throw
  <2>2. Stored' = Stored /\ FiledInv'
    BY <1>1, <1>3, <1>4, <2>1, FiledSame DEF Starts
  <2> QED BY <2>2 DEF Moves
<1>5. CASE /\ DurableStatus = "interrupted"
           /\ Write("run-abandoning", mem[s].attempt)
           /\ mem'[s].status = "cleanup-blocked"
           /\ Goto(s, "abandoning")
  <2>1. Stored \in {"active", "interrupted"} /\ ~Closed
    <3> HIDE DEF DurableStatus
    <3> QED BY <1>5, StoredDurable
  <2>2. mem[s].attempt \in Ordinals
    BY <1>3 DEF Memory
  <2>3. Closed'
    BY <1>5, <2>2, Closing
  <2>4. Positions("run-abandoned")' = Positions("run-abandoned")
    <3>1. /\ DOMAIN journal' = DOMAIN journal \cup {Len(journal) + 1}
          /\ \A i \in DOMAIN journal : journal'[i] = journal[i]
          /\ journal'[Len(journal) + 1] = Event("run-abandoning", mem[s].attempt)
      BY <1>5, <2>2, Appended DEF EventTypes
    <3>2. journal'[Len(journal) + 1].type = "run-abandoning"
      BY <3>1 DEF Event
    <3> QED BY <3>1, <3>2 DEF Positions
  <2>5. Stored' = "cleanup-blocked"
    BY <2>1, <2>3, <2>4 DEF Stored, Closed, Has
  <2>6. op'[s].at = "abandoning"
    BY <1>1, <1>2, <1>5 DEF Goto, Operation
  <2>7. Filed(s)'
    BY <1>1, <1>3, <1>5, <2>3, <2>6 DEF Filed, Starts
  <2>8. \E type \in EventTypes, n \in Ordinals : Write(type, n)
    BY <1>5, <2>2 DEF EventTypes
  <2>9. Works(s)
    BY <1>1, <1>3 DEF Works
  <2>10. FiledInv'
    BY <1>1, <2>7, <2>8, <2>9, FiledKeep
  <2> QED BY <2>1, <2>5, <2>10 DEF Moves
<1>6. ASSUME NEW e, Remember(s, "cleanup-blocked", e)
      PROVE  mem'[s].status = "cleanup-blocked"
  BY <1>2, <1>3, <1>6 DEF Remember, Memory
<1> QED BY <1>4, <1>5, <1>6 DEF BeginAbandon

(* ... and ends with the run abandoned, or blocked.                        *)
LEMMA FiledFinishAbandon ==
  ASSUME TypeOK, TypeOK', LeaseInv, FiledInv, NEW s \in Seats, Spares(s),
         FinishAbandon(s)
  PROVE  FiledInv' /\ Moves(Stored, Stored')
<1>1. /\ op[s].at = "abandoning" /\ op[s].kind = "abandon" /\ op[s] \in Operation
      /\ op[s].via \in {"op", "run"} /\ op' = [op EXCEPT ![s] = Idle]
      /\ UNCHANGED <<rec, exec>>
  BY OpType DEF FinishAbandon, At, Owns, Throw
<1>2. /\ op'[s].at = "idle" /\ mem \in [Seats -> {NoRun} \cup Memory]
  BY <1>1, TypeParts DEF Typed, Idle
<1>3. /\ exec[s].at = "idle" /\ mem[s] \in Memory /\ mem[s].attempt \in Ordinals
  BY <1>1, MemoryType DEF LeaseInv, Fits, Ended, Memory
<1>4. Works(s) /\ Closed /\ Stored \in {"abandoned", "cleanup-blocked"}
  BY <1>1, StoredCases DEF Works, FiledInv, Filed
<1>5. ASSUME NEW status, NEW e, Remember(s, status, e)
      PROVE  mem'[s].status = status
  BY <1>2, <1>3, <1>5 DEF Remember, Memory
<1> DEFINE over == Execution(Result("abandoned", "never",
                               mem[s].ended.result.sandbox, ReleasedTree), FALSE)
           left == Execution(Result("cleanup-blocked", "reconcile",
                               mem[s].ended.result.sandbox, "unknown"), FALSE)
<1>6. CASE /\ Write("run-abandoned", mem[s].attempt)
           /\ Remember(s, "abandoned", over)
           /\ Save(over) \/ UNCHANGED snapshot
  <2> HIDE DEF over
  <2>1. Closed' /\ Has("run-abandoned")'
    BY <1>3, <1>6, Closing
  <2>2. Stored' = "abandoned"
    BY <2>1 DEF Stored
  <2>3. rec[s].at = "observed" /\ rec[s].via # "lost" => Closed'
    BY <2>1
  <2>4. Filed(s)'
    BY <1>1, <1>2, <1>3, <2>1 DEF Filed, Starts
  <2>5. \E type \in EventTypes, n \in Ordinals : Write(type, n)
    BY <1>3, <1>6 DEF EventTypes
  <2>6. UNCHANGED snapshot \/ snapshot'.at = Len(journal')
    BY <1>6 DEF Save
  <2>7. FiledInv'
    BY <1>4, <2>1, <2>4, <2>5, <2>6, FiledKeep
  <2> QED BY <1>4, <2>2, <2>7 DEF Moves, ResultStatuses
<1>7. CASE /\ Remember(s, "cleanup-blocked", left)
           /\ UNCHANGED journal /\ Save(left)
  <2>1. left.result.status = "cleanup-blocked"
    BY DEF Execution, Result
  <2> HIDE DEF left
  <2>2. Closed'
    BY <1>4, <1>7, ClosedKept
  <2>3. mem'[s].status = "cleanup-blocked"
    BY <1>5, <1>7
  <2>4. Filed(s)'
    BY <1>1, <1>2, <1>3, <2>2, <2>3 DEF Filed, Starts
  <2> QED BY <1>4, <1>7, <2>1, <2>4, FiledSave
<1> QED BY <1>6, <1>7 DEF FinishAbandon

(* A release judges by what is on record.                                  *)
LEMMA FiledReleaseTrees ==
  ASSUME TypeOK, LeaseInv, SoundInv, FiledInv, NEW s \in Seats, Spares(s),
         ReleaseTrees(s)
  PROVE  FiledInv' /\ Stored' = Stored
<1>1. /\ op[s].at = "leased" /\ op[s].kind = "release" /\ op[s] \in Operation
      /\ UNCHANGED <<journal, snapshot, mem, rec, exec>>
  BY OpType DEF ReleaseTrees, At
<1>2. /\ op \in [Seats -> {Idle} \cup Operation] /\ Idle.at = "idle"
  BY TypeParts DEF Typed, Idle
<1>3. exec[s].at = "idle" /\ mem[s] \in Memory
  BY <1>1, MemoryType DEF LeaseInv, Fits
<1>4. \/ op'[s].at = "idle"
      \/ op'[s].at = "released" /\ DurableStatus = mem[s].status
  <2>1. Throw(s) => op'[s].at = "idle"
    BY <1>2 DEF Throw
  <2>2. Goto(s, "released") => op'[s].at = "released"
    BY <1>1, <1>2 DEF Goto, Operation
  <2> HIDE DEF DurableStatus
  <2> QED BY <2>1, <2>2 DEF ReleaseTrees
<1>5. op'[s].at = "released" => Closed \/ Stored \in {"active", mem[s].status}
  <2>1. mem[s].status # "unavailable"
    BY <1>3 DEF Memory, ResultStatuses
  <2>2. Has("run-abandoned") => Closed
    BY DEF Closed
  <2> HIDE DEF DurableStatus, Stored
  <2> QED BY <1>4, <2>1, <2>2, StoredDurable
<1>6. ~Starts(s, {"prepared", "recorded"})' /\ op'[s].at # "abandoning"
  BY <1>4 DEF Starts
<1> QED BY <1>1, <1>3, <1>5, <1>6, FiledSame

(* What a release saves is the status it checked, or that of a run whose   *)
(* cleanup it finished.                                                    *)
LEMMA FiledFinishRelease ==
  ASSUME TypeOK, TypeOK', LeaseInv, LeaseInv', FiledInv, NEW s \in Seats,
         Spares(s), FinishRelease(s)
  PROVE  FiledInv' /\ Moves(Stored, Stored')
<1>1. /\ op[s].at = "released" /\ op[s].kind = "release" /\ op[s] \in Operation
      /\ op[s].via \in {"op", "run"} /\ op' = [op EXCEPT ![s] = Idle]
      /\ UNCHANGED <<journal, exec>>
  BY OpType DEF FinishRelease, At, Owns, Throw
<1>2. /\ op'[s].at = "idle" /\ mem \in [Seats -> {NoRun} \cup Memory]
      /\ rec \in [Seats -> {Idle} \cup Entered \cup Observed]
  BY <1>1, TypeParts DEF Typed, Idle
<1>3. /\ exec[s].at = "idle" /\ mem[s] \in Memory /\ Works(s) /\ Fits(s)
  BY <1>1, MemoryType DEF LeaseInv, Fits, Works
<1>4. /\ Closed \/ Stored \in {"active", mem[s].status}
      /\ mem[s].status = "abandoned" => Has("run-abandoned")
      /\ Filed(s)
  BY <1>1 DEF FiledInv, Filed
<1>5. Has("run-abandoned") => Closed
  BY DEF Closed
<1>6. (Closed' <=> Closed) /\ (Has("run-abandoned")' <=> Has("run-abandoned"))
  BY <1>1 DEF Closed, Pending, Has, After, Positions
<1>7. CASE mem[s].ended = NoExecution
  <2>1. UNCHANGED <<snapshot, mem, rec>>
    BY <1>7 DEF FinishRelease
  <2>2. Stored' = Stored
    BY <1>1, <2>1, StoredSame
  <2>3. Filed(s)'
    BY <1>1, <1>2, <1>3, <1>4, <1>6, <2>1, <2>2 DEF Filed, Starts
  <2>4. FiledInv'
    BY <1>1, <2>1, <2>2, <2>3, FiledKeep
  <2> QED BY <2>2, <2>4 DEF Moves
<1>8. CASE mem[s].ended # NoExecution
  <2> DEFINE old == mem[s].ended
             proved == old.result.sandbox \in {"proved", "not-needed"}
             result == IF Pending THEN old.result
                       ELSE [old.result EXCEPT
                               !.workspace = ReleasedTree,
                               !.status = IF @ = "cleanup-blocked" /\ proved
                                          THEN "failed" ELSE @]
             e == Execution(result, old.session /\ result.status # "abandoned")
             free == Unblocked(s, result.status)
  <2>1. /\ Save(e)
        /\ mem' = [mem EXCEPT ![s].status = result.status, ![s].ended = e,
                              ![s].leased = @ /\ ~free]
        /\ rec' = IF free /\ rec[s] # Idle /\ rec[s].via = "run"
                  THEN [rec EXCEPT ![s].via = "lost"] ELSE rec
    BY <1>8 DEF FinishRelease
  <2>2. /\ old.result \in Results /\ mem[s].status = old.result.status
    BY <1>3, <1>8, ExecutionType DEF Fits, Memory, Known, ResultStatuses
  <2>3. /\ e.result = result
        /\ \/ result.status = mem[s].status
           \/ result.status = "failed" /\ mem[s].status = "cleanup-blocked"
    BY <2>2 DEF Execution, Results
  <2>4. result.status \in ResultStatuses
    BY <2>2, <2>3 DEF Results, ResultStatuses
  <2> HIDE DEF e, result, free
  <2>5. mem'[s].status = result.status
    BY <1>2, <1>3, <2>1 DEF Memory
  <2>6. result.status = "abandoned" => Has("run-abandoned")
    BY <1>4, <2>3
  <2>7. Closed \/ Moves(Stored, result.status)
    BY <1>4, <1>5, <2>3, <2>4, <2>6 DEF Moves, ResultStatuses
  <2>8. ~Closed => Stored' = result.status
    BY <1>1, <1>6, <2>1, <2>3, StoredSave
  <2>9. ASSUME rec'[s].at = "observed", rec'[s].via # "lost"
        PROVE  /\ rec'[s].pending => Closed'
               /\ Closed' \/ Stored' \in {"active", "cleanup-blocked"}
    <3>1. rec'[s] = rec[s]
      <4>1. CASE rec' = [rec EXCEPT ![s].via = "lost"]
        <5>1. rec[s] \in {Idle} \cup Entered \cup Observed
          BY <1>2
        <5>2. rec[s].at = "observed"
          BY <1>2, <2>9, <4>1 DEF Idle, Entered, Observed
        <5>3. rec[s] \in Observed
          BY <5>2, RecType
        <5>4. rec'[s].via = "lost"
          BY <1>2, <4>1, <5>3 DEF Observed
        <5> QED BY <2>9, <5>4
      <4> QED BY <2>1, <4>1
    <3>2. mem'[s].status = "cleanup-blocked"
      BY <2>9 DEF LeaseInv, Fits
    <3> QED BY <1>4, <1>6, <2>5, <2>8, <2>9, <3>1, <3>2 DEF Filed
  <2>10. Filed(s)'
    BY <1>1, <1>2, <1>3, <1>6, <2>5, <2>6, <2>9 DEF Filed, Starts
  <2> QED BY <1>1, <1>3, <2>1, <2>3, <2>6, <2>7, <2>10, FiledSave
<1> QED BY <1>7, <1>8

(* What a reconcile sees of the run.                                       *)
LEMMA FiledObserve ==
  ASSUME TypeOK, LeaseInv, SoundInv, FiledInv, NEW s \in Seats, Spares(s),
         Observe(s)
  PROVE  FiledInv' /\ Stored' = Stored
<1>1. UNCHANGED <<journal, snapshot, mem, op, exec>>
  BY DEF Observe, store
<1>2. /\ rec \in [Seats -> {Idle} \cup Entered \cup Observed]
      /\ Idle.at = "idle"
  BY TypeParts DEF Typed, Idle
<1>3. rec'[s].at = "observed" =>
        /\ rec'[s].pending => Closed
        /\ Closed \/ Stored \in {"active", "cleanup-blocked"}
  <2>1. CASE GiveUp(s)
    BY <1>2, <2>1 DEF GiveUp
  <2>2. CASE ~GiveUp(s)
    <3>1. DurableStatus = "cleanup-blocked" /\ rec'[s].pending = Pending
      BY <1>2, <2>2 DEF Observe
    <3>2. rec'[s].pending => Closed
      BY <3>1 DEF Closed
    <3> HIDE DEF DurableStatus
    <3> QED BY <3>1, <3>2, StoredDurable
  <2> QED BY <2>1, <2>2
<1>4. op'[s] = op[s] /\ exec'[s] = exec[s] /\ mem'[s] = mem[s]
  BY <1>1
<1> QED BY <1>1, <1>3, <1>4, FiledSame DEF Starts

(* What it makes of it.                                                    *)
LEMMA FiledFinishReconcile ==
  ASSUME TypeOK, TypeOK', LeaseInv, FiledInv, NEW s \in Seats, Spares(s),
         FinishReconcile(s)
  PROVE  FiledInv' /\ Moves(Stored, Stored')
<1> DEFINE e == Reconciled(s)
           free == Unblocked(s, e.result.status)
<1>1. rec[s].at = "observed" /\ UNCHANGED exec
  BY DEF FinishReconcile
<1>2. /\ op \in [Seats -> {Idle} \cup Operation] /\ Idle.at = "idle"
      /\ mem \in [Seats -> {NoRun} \cup Memory]
      /\ rec \in [Seats -> {Idle} \cup Entered \cup Observed]
  BY TypeParts DEF Typed, Idle
<1>3. CASE GiveUp(s) /\ UNCHANGED <<journal, snapshot, mem, op>>
  <2>1. rec'[s].at = "idle"
    BY <1>2, <1>3 DEF GiveUp
  <2>2. Stored' = Stored /\ FiledInv'
    BY <1>1, <1>3, <2>1, FiledSame DEF Starts
  <2> QED BY <2>2 DEF Moves
<1>4. CASE /\ rec[s].via # "lost" /\ IsRunResult(e.result)
           /\ IF e.result.status = "abandoned"
              THEN Write("run-abandoned", mem[s].attempt) ELSE UNCHANGED journal
           /\ Save(e)
           /\ mem' = [mem EXCEPT ![s].status = e.result.status, ![s].ended = e,
                                 ![s].leased = @ /\ ~free]
           /\ rec' = [rec EXCEPT ![s] = Idle]
           /\ op' = IF free /\ op[s] # Idle /\ op[s].via = "run"
                    THEN [op EXCEPT ![s].via = "lost"] ELSE op
  <2>1. rec'[s].at = "idle"
    BY <1>2, <1>4
  <2>2. /\ Known(s) /\ mem[s] \in Memory /\ mem[s].attempt \in Ordinals
        /\ mem[s].status = "cleanup-blocked" /\ exec[s].at = "idle" /\ Fits(s)
    BY <1>1, <1>4, MemoryType DEF LeaseInv, Fits, Memory
  <2>3. Works(s)
    <3>1. rec[s].via \in {"rec", "run", "lost"}
      BY <1>1, RecType DEF Observed
    <3> QED BY <1>1, <1>4, <3>1 DEF Works
  <2>4. /\ rec[s].pending => Closed
        /\ Closed \/ Stored \in {"active", "cleanup-blocked"}
        /\ Filed(s)
    BY <1>1, <1>4 DEF FiledInv, Filed
  <2>5. /\ e.result.status \in {"abandoned", "cleanup-blocked", "interrupted",
                                "failed"}
        /\ e.result.status = "abandoned" => rec[s].pending
    BY DEF Reconciled, Execution, Result
  <2>6. mem'[s].status = e.result.status
    <3> HIDE DEF e, free
    <3> QED BY <1>2, <1>4, <2>2 DEF Memory
  <2> HIDE DEF e, free
  <2>7. /\ ~Starts(s, {"prepared", "recorded"})'
        /\ op'[s].at = "abandoning" => op[s].at = "abandoning"
    <3>1. op'[s] = op[s] \/ (op[s] \in Operation /\ op' = [op EXCEPT ![s].via = "lost"])
      BY <1>4, OpType
    <3>2. op'[s].at = op[s].at /\ op'[s].kind = op[s].kind
      BY <1>2, <3>1 DEF Operation
    <3>3. ~Starts(s, {"prepared", "recorded"})
      BY <2>2 DEF Starts, Starting, Fits
    <3> QED BY <3>2, <3>3 DEF Starts
  <2>8. CASE e.result.status = "abandoned"
    <3>1. Write("run-abandoned", mem[s].attempt) /\ Closed
      BY <1>4, <2>4, <2>5, <2>8
    <3>2. Closed' /\ Has("run-abandoned")'
      BY <2>2, <3>1, Closing
    <3>3. Stored' = "abandoned" /\ Stored \in {"abandoned", "cleanup-blocked"}
      BY <3>1, <3>2, StoredCases DEF Stored
    <3>4. Filed(s)'
      BY <1>1, <2>1, <2>2, <2>7, <3>2 DEF Filed
    <3>5. \E type \in EventTypes, n \in Ordinals : Write(type, n)
      BY <2>2, <3>1 DEF EventTypes
    <3>6. snapshot'.at = Len(journal')
      BY <1>4 DEF Save
    <3>7. FiledInv'
      BY <2>3, <3>2, <3>4, <3>5, <3>6, FiledKeep
    <3> QED BY <3>3, <3>7 DEF Moves, ResultStatuses
  <2>9. CASE e.result.status # "abandoned"
    <3>1. UNCHANGED journal
      BY <1>4, <2>9
    <3>2. Closed' <=> Closed
      BY <3>1, ClosedKept
    <3>3. ~Closed => Stored' = e.result.status
      BY <1>4, <3>2, StoredSave
    <3>4. Filed(s)'
      BY <1>1, <2>1, <2>2, <2>4, <2>6, <2>7, <2>9, <3>2, <3>3 DEF Filed
    <3>5. Closed \/ Moves(Stored, e.result.status)
      BY <2>4, <2>5, <2>9 DEF Moves, ResultStatuses
    <3> QED BY <1>4, <2>3, <2>9, <3>1, <3>4, <3>5, FiledSave
  <2> QED BY <2>8, <2>9
<1> QED BY <1>3, <1>4 DEF FinishReconcile

(* A seat that opens the store blocks a run that has started since, or     *)
(* takes what is on record.                                                *)
LEMMA FiledRecover ==
  ASSUME TypeOK, TypeOK', LeaseInv, SoundInv, FiledInv, NEW s \in Seats,
         Spares(s), Recover(s)
  PROVE  FiledInv' /\ Moves(Stored, Stored')
<1> DEFINE r == Recovery(s)
<1>1. /\ seat[s] = "leased" /\ UNCHANGED <<journal, op, rec, exec>>
      /\ mem' = [mem EXCEPT ![s] = [status |-> r.ended.result.status,
           attempt |-> RecoveredAttempt(s), ended |-> r.ended, leased |-> FALSE]]
      /\ IF r.write THEN Save(r.ended) ELSE UNCHANGED snapshot
  BY DEF Recover
<1>2. Works(s) /\ op[s].at = "idle" /\ rec[s].at = "idle" /\ exec[s].at = "idle"
  BY <1>1 DEF Works, LeaseInv, Fits, Idle
<1>3. IF r.write THEN /\ r.ended.result.status = "cleanup-blocked"
                      /\ Pending \/ ~(Covers(s) /\ Persisted)
      ELSE r.ended.result.status = "abandoned" =>
             Has("run-abandoned") \/ (Persisted /\ snapshot.result.status = "abandoned")
  BY DEF Recovery, Execution, Result
<1>4. Persisted <=> snapshot # NoSnapshot
  BY DEF SoundInv, SoundSaved, Sound, Persisted
<1>5. snapshot # NoSnapshot /\ AllCovered => Covers(s)
  <2>1. snapshot.at \in Nat /\ \A i \in Positions("attempt-starting") : i \in Nat
    BY SavedType, Entries DEF Positions
  <2>2. \A i \in Positions("attempt-starting") : i <= snapshot.at => snapshot.at >= i
    BY <2>1
  <2> QED BY <2>2 DEF AllCovered, Covers
<1> HIDE DEF r
<1>6. mem'[s].status = r.ended.result.status
  BY <1>1, TypeParts DEF Typed
<1>7. (Closed' <=> Closed) /\ (Has("run-abandoned")' <=> Has("run-abandoned"))
  BY <1>1 DEF Closed, Pending, Has, After, Positions
<1>8. mem'[s].status = "abandoned" => Has("run-abandoned")'
  BY <1>3, <1>4, <1>6, <1>7 DEF FiledInv
<1>9. Filed(s)'
  BY <1>1, <1>2, <1>8 DEF Filed, Starts
<1>10. CASE r.write
  <2>1. Closed \/ Stored \in {"active", "none"}
    BY <1>3, <1>4, <1>5, <1>10, StoredCases DEF Closed
  <2>2. Closed \/ Moves(Stored, r.ended.result.status)
    BY <1>3, <1>10, <2>1 DEF Moves
  <2> QED BY <1>1, <1>2, <1>3, <1>9, <1>10, <2>2, FiledSave
<1>11. CASE ~r.write
  <2>1. Stored' = Stored
    BY <1>1, <1>11, StoredSame
  <2>2. FiledInv'
    BY <1>1, <1>9, <1>11, <2>1, FiledKeep
  <2> QED BY <2>1, <2>2 DEF Moves
<1> QED BY <1>10, <1>11

(* FiledInv is inductive, and each step is a move of the lifecycle.        *)
LEMMA FiledStep ==
  ASSUME Writing, TypeOK, TypeOK', LeaseInv, LeaseInv', SoundInv, RootInv,
         FiledInv, NEW s \in Seats, Spares(s), StepOf(s)
  PROVE  FiledInv' /\ Moves(Stored, Stored')
<1>1. Stored' = Stored => Moves(Stored, Stored')
  BY DEF Moves
<1>2. CASE Check(s)
  BY <1>1, <1>2, FiledCheck
<1>3. CASE OpStep(s)
  <2>1. CASE \/ Acquire(s) \/ Fenced(s) \/ Prepare(s) \/ RecordAttempt(s)
             \/ Execute(s) \/ ReleaseTrees(s)
    BY <1>1, <2>1, FiledCheck, FiledPrepare, FiledExecute, FiledReleaseTrees
  <2>2. CASE BeginAbandon(s) \/ FinishAbandon(s) \/ FinishRelease(s)
    BY <2>2, FiledBeginAbandon, FiledFinishAbandon, FiledFinishRelease
  <2> QED BY <1>3, <2>1, <2>2 DEF OpStep
<1>4. CASE AttemptStep(s)
  <2>1. CASE EnterAttempt(s) \/ Finalize(s)
    BY <2>1, FiledEnterAttempt, FiledFinalize
  <2>2. CASE BootVm(s) \/ RecordVm(s) \/ RecordSession(s) \/ EndThrown(s)
    BY <1>1, <2>2, FiledAttempt
  <2>3. CASE Complete(s) \/ EndCleanly(s) \/ EndBlocked(s) \/ EndLeaked(s)
    BY <2>3, FiledEnd
  <2> QED BY <1>4, <2>1, <2>2, <2>3 DEF AttemptStep
<1>5. CASE \E reason \in {"operator", "seat-shutdown"} : Signal(s, reason)
  BY <1>1, <1>5, FiledAttempt
<1>6. CASE BeginReconcile(s) \/ Crash(s) \/ OpenStore(s) \/ LeaseRecovery(s)
  BY <1>1, <1>6, FiledOpen
<1>7. CASE ReconcileStep(s)
  BY <1>1, <1>7, FiledObserve, FiledFinishReconcile DEF ReconcileStep
<1>8. CASE Recover(s)
  BY <1>8, FiledRecover
<1> QED BY <1>2, <1>3, <1>4, <1>5, <1>6, <1>7, <1>8 DEF StepOf, OpenStep

Filing == TypeOK /\ LeaseInv /\ SoundInv /\ RootInv /\ FiledInv

(* Every step keeps what is filed and is a step of the lifecycle, or none. *)
LEMMA FilingStep ==
  ASSUME Writing, Filing, [Next]_vars
  PROVE  Filing' /\ [Lifecycle!Next]_Stored
<1>1. TypeOK /\ LeaseInv /\ SoundInv /\ RootInv /\ FiledInv
  BY DEF Filing
<1>2. TypeOK' /\ LeaseInv' /\ SoundInv'
  BY <1>1, LeaseStep, SoundStep
<1>3. CASE /\ UNCHANGED <<adverse, holder, recorded, attempts, journal,
                          snapshot>>
           /\ UNCHANGED <<trees, guests, seat, latest, mem, op, rec, exec,
                          crashes>>
  <2>1. /\ (\A x : Positions(x)' = Positions(x)) /\ (Pending' <=> Pending)
        /\ (Closed' <=> Closed) /\ (\A x : Has(x)' <=> Has(x))
    BY <1>3 DEF Positions, Pending, After, Closed, Has
  <2>2. Stored' = Stored
    BY <1>3, <2>1 DEF Stored
  <2>3. \A s \in Seats : (Filed(s)' <=> Filed(s)) /\ (Rooted(s)' <=> Rooted(s))
    BY <1>3, <2>1, <2>2 DEF Filed, Rooted, Known, Starts
  <2>4. RootInv' /\ FiledInv'
    BY <1>1, <1>3, <2>1, <2>3 DEF RootInv, FiledInv
  <2> QED BY <1>2, <2>2, <2>4 DEF Filing
<1>4. ASSUME UNCHANGED adverse, NEW s \in Seats, StepOf(s)
      PROVE  Filing' /\ [Lifecycle!Next]_Stored
  <2>1. Spares(s)
    BY <1>1, <1>4, LeaseSeatStep
  <2>2. RootInv'
    BY <1>1, <1>4, <2>1, RootStep
  <2>3. FiledInv' /\ Moves(Stored, Stored')
    BY <1>1, <1>2, <1>4, <2>1, FiledStep
  <2> QED BY <1>2, <2>2, <2>3, LifecycleMoves DEF Filing
<1> QED BY <1>3, <1>4, Steps

(* The store's view of the run moves along the reducer's transitions,      *)
(* whatever seats launch, retry, resume, abandon, release and reconcile it *)
(* and die, and however stale what they remember of it is.                 *)
THEOREM LifecycleFollowed ==
  ASSUME Writing PROVE Spec => FollowsLifecycle
<1>1. Init => Filing /\ Lifecycle!Init
  <2>1. Init => Filing /\ Stored = "none"
    BY PromptInit, RootInit, FiledInit DEF Filing, Prompt
  <2> QED BY <2>1 DEF Lifecycle!Init, Stored
<1>2. Filing /\ [Next]_vars => Filing' /\ [Lifecycle!Next]_Stored
  BY FilingStep
<1>3. [Lifecycle!Next]_Stored =>
        [Lifecycle!Next]_(IF Has("run-abandoned") THEN "abandoned"
                          ELSE IF Pending THEN "cleanup-blocked"
                          ELSE IF \E i \in Positions("attempt-starting") : i > snapshot.at
                               THEN "active"
                          ELSE IF snapshot = NoSnapshot THEN "none"
                          ELSE snapshot.result.status)
  BY DEF Stored
<1> QED BY <1>1, <1>2, <1>3, PTL DEF Spec, FollowsLifecycle, Lifecycle!Spec

==============================================================================
