------------------------------- MODULE WarmBoot -------------------------------
(***************************************************************************)
(* Sandbox starts of several processes over one store of warm checkpoints  *)
(* and one set of VM slots: prepareWarmBoot, runWarmup and                 *)
(* createGondolinAttemptSandbox (src/sandbox/gondolin.ts), the             *)
(* WarmCheckpointStore (src/sandbox/checkpoints.ts) and the capacity       *)
(* manager (src/sandbox/capacity.ts).                                      *)
(*                                                                         *)
(* The store is files: per key an image, its sidecar, a failure record, a  *)
(* lock and lease files.  Locks and leases name their process, and count   *)
(* while it is alive; a slot is a listener the OS closes with its process. *)
(* Each step is one await that touches what others can see.                *)
(*                                                                         *)
(* Every checkpoint has the same size, the store holds MaxImages of them,  *)
(* and eviction takes them in any order; one look at all slots is a step.  *)
(* Left out: reused process ids, temporary files of dead warm-ups.         *)
(* Bound: MaxStarts sandbox starts.                                        *)
(***************************************************************************)
EXTENDS Naturals, FiniteSets

CONSTANTS
  Boots,          \* processes that start sandboxes, one at a time
  Dead,           \* the owner of what a dead process left behind
  Keys,
  MaxSlots,
  MaxImages,
  MaxStarts,
  Overtaking      \* a process may be overtaken between what it read of a
                  \* lock and the file it removes because of that

ASSUME BoundsAssumption ==
  MaxSlots \in Nat \ {0} /\ MaxImages \in Nat /\ MaxStarts \in Nat
ASSUME EnvironmentAssumption == Overtaking \in BOOLEAN

VARIABLES
  images,         \* keys with a .qcow2
  sidecars,       \* keys with a .json
  failures,       \* keys with a recent .failed.json
  lock,           \* the owner a key's .lock names, or NoOwner
  leases,         \* the owners of a key's lease files
  slots,          \* who holds a VM slot
  at,             \* where each start is
  key,            \* the key it computed, or NoKey
  has,            \* what it believes it owns: "lock", "lease"
  round,          \* rounds of tryLock it has begun
  sweep,          \* its eviction: keys to look at, images too many, the one
                  \* looked at
  starts

checkpoints == <<images, sidecars, failures, lock, leases>>
boot == <<at, key, has, round, sweep>>
vars == <<checkpoints, slots, boot, starts>>

NoOwner == "free"
NoKey == "none"
NoSweep == [todo |-> {}, excess |-> 0, victim |-> NoKey]

\* the marks of no process and no key are none
ASSUME OwnerAssumption == {Dead, NoOwner} \cap Boots = {}
ASSUME KeysAssumption == NoKey \notin Keys

Warming == {"warming", "publishing", "describing", "sweeping", "suspecting",
            "condemning", "doubting", "removing", "adopting"}

TypeOK ==
  /\ {images, sidecars, failures} \subseteq SUBSET Keys
  /\ lock \in [Keys -> Boots \cup {Dead, NoOwner}]
  /\ leases \in [Keys -> SUBSET (Boots \cup {Dead})]
  /\ slots \subseteq Boots /\ Cardinality(slots) <= MaxSlots
  /\ at \in [Boots -> Warming \cup
       {"idle", "seeking", "avoiding", "locking", "inspecting", "reclaiming",
        "waiting", "probing", "rejoining", "queueing", "unlocking", "loading",
        "resuming", "creating", "starting", "running", "stuck"}]
  /\ key \in [Boots -> Keys \cup {NoKey}]
  /\ has \in [Boots -> SUBSET {"lock", "lease"}]
  /\ round \in [Boots -> 0..2]
  /\ sweep \in [Boots -> [todo : SUBSET Keys, excess : Nat,
                          victim : Keys \cup {NoKey}]]
  /\ starts \in 0..MaxStarts

Init ==
  /\ images = {} /\ sidecars = {} /\ failures = {}
  /\ lock = [k \in Keys |-> NoOwner]
  /\ leases = [k \in Keys |-> {}]
  /\ slots = {}
  /\ at = [b \in Boots |-> "idle"]
  /\ key = [b \in Boots |-> NoKey]
  /\ has = [b \in Boots |-> {}]
  /\ round = [b \in Boots |-> 0]
  /\ sweep = [b \in Boots |-> NoSweep]
  /\ starts = 0

Go(b, to) == at' = [at EXCEPT ![b] = to]

\* the start is over, with or without a VM; nothing of it is remembered
Leave(b) ==
  /\ Go(b, "idle")
  /\ key' = [key EXCEPT ![b] = NoKey]
  /\ has' = [has EXCEPT ![b] = {}]
  /\ UNCHANGED <<round, sweep>>

Move(b, to) == Go(b, to) /\ UNCHANGED <<key, has, round, sweep>>

Alive(owner) == owner \in Boots

\* (slip) the owner of a lock is not looked at
LockedAny(k) == lock[k] # NoOwner

\* locked, leased: a process that is alive owns the file
Locked(k) == Alive(lock[k])
Leased(k) == leases[k] \ {Dead} # {}

\* unlink(lockPath) removes whatever lock is there
Unlocked(b) == [lock EXCEPT ![key[b]] = NoOwner]
Unleased(b) == [leases EXCEPT ![key[b]] = @ \ {b}]

------------------------------------------------------------------------------
(* Slips: faulty forms of the definitions below, one plausible mistake     *)
(* each; no specification uses them.                                       *)

\* a lock is reclaimed from a process that is alive
InspectTrusting(b) ==
  /\ at[b] = "inspecting"
  /\ Move(b, "reclaiming")
  /\ UNCHANGED <<checkpoints, slots, starts>>

\* no second look for leases once the sidecar is gone
CondemnAtOnce(b) ==
  /\ at[b] = "condemning"
  /\ sidecars' = sidecars \ {sweep[b].victim}
  /\ Move(b, "removing")
  /\ UNCHANGED <<images, failures, lock, leases, slots, starts>>

\* a start that gets no slot forgets the lock it took before
NoSlotForgetful(b) ==
  /\ at[b] = "queueing"
  /\ leases' = IF key[b] = NoKey THEN leases ELSE Unleased(b)
  /\ Leave(b)
  /\ UNCHANGED <<images, sidecars, failures, lock, slots, starts>>

------------------------------------------------------------------------------
(* prepareWarmBoot: before a slot is held.                                 *)

\* the workspace has nothing to warm, or its key; lease() writes its file
Begin(b) ==
  /\ at[b] = "idle" /\ starts < MaxStarts
  /\ starts' = starts + 1
  /\ \/ Go(b, "queueing") /\ UNCHANGED <<leases, key>>
     \/ \E k \in Keys :
          /\ key' = [key EXCEPT ![b] = k]
          /\ leases' = [leases EXCEPT ![k] = @ \cup {b}]
          /\ Go(b, "seeking")
  /\ UNCHANGED <<images, sidecars, failures, lock, slots, has, round, sweep>>

\* lease(), with the lease file in place: the sidecar and the image are
\* there, and the lease stands, or not, and its file is removed
Confirm(b, here, found, missing) ==
  /\ at[b] = here
  /\ IF key[b] \in sidecars \cap images
     THEN /\ has' = [has EXCEPT ![b] = @ \cup {"lease"}]
          /\ Go(b, found) /\ UNCHANGED leases
     ELSE leases' = Unleased(b) /\ Go(b, missing) /\ UNCHANGED has
  /\ UNCHANGED <<images, sidecars, failures, lock, slots, key, round, sweep,
                 starts>>

FirstLease(b) == Confirm(b, "seeking", "queueing", "avoiding")
LateLease(b) == Confirm(b, "rejoining", "queueing", "queueing")
OwnLease(b) == Confirm(b, "adopting", "unlocking", "unlocking")

\* failedRecently
CheckFailure(b) ==
  /\ at[b] = "avoiding"
  /\ IF key[b] \in failures THEN Move(b, "queueing")
     ELSE /\ Go(b, "locking") /\ round' = [round EXCEPT ![b] = 1]
          /\ UNCHANGED <<key, has, sweep>>
  /\ UNCHANGED <<checkpoints, slots, starts>>

\* the key's lock is about to be removed by path
Reclaimed(k) ==
  ~Overtaking /\ \E c \in Boots : at[c] = "reclaiming" /\ key[c] = k

\* tryLock: link(temporary, lockPath)
LinkLock(b) ==
  /\ at[b] = "locking" /\ ~Reclaimed(key[b])
  /\ IF lock[key[b]] = NoOwner
     THEN /\ lock' = [lock EXCEPT ![key[b]] = b]
          /\ has' = [has EXCEPT ![b] = {"lock"}]
          /\ round' = [round EXCEPT ![b] = 0]
          /\ Go(b, "queueing")
     ELSE Go(b, "inspecting") /\ UNCHANGED <<lock, has, round>>
  /\ UNCHANGED <<images, sidecars, failures, leases, slots, key, sweep, starts>>

\* ... EEXIST: readOwner; the lock may be gone by now
Inspect(b) ==
  /\ at[b] = "inspecting" /\ ~Reclaimed(key[b])
  /\ IF Locked(key[b])
     THEN /\ Go(b, "waiting") /\ round' = [round EXCEPT ![b] = 0]
          /\ UNCHANGED <<key, has, sweep>>
     ELSE Move(b, "reclaiming")
  /\ UNCHANGED <<checkpoints, slots, starts>>

\* ... not alive: unlink(lockPath), and once more
Reclaim(b) ==
  /\ at[b] = "reclaiming"
  /\ lock' = Unlocked(b)
  /\ IF round[b] = 1 THEN Go(b, "locking") /\ round' = [round EXCEPT ![b] = 2]
                     ELSE Go(b, "waiting") /\ round' = [round EXCEPT ![b] = 0]
  /\ UNCHANGED <<images, sidecars, failures, leases, slots, key, has, sweep,
                 starts>>

\* waitFor: the checkpoint, the failure ...
Poll(b) ==
  /\ at[b] = "waiting"
  /\ IF key[b] \in sidecars
     THEN /\ leases' = [leases EXCEPT ![key[b]] = @ \cup {b}]
          /\ Move(b, "rejoining")
     ELSE /\ UNCHANGED leases
          /\ Move(b, IF key[b] \in failures THEN "queueing" ELSE "probing")
  /\ UNCHANGED <<images, sidecars, failures, lock, slots, starts>>

\* ... then the lock, and without one the checkpoint again
Probe(b) ==
  /\ at[b] = "probing"
  /\ IF ~Locked(key[b]) /\ key[b] \in sidecars
     THEN /\ leases' = [leases EXCEPT ![key[b]] = @ \cup {b}]
          /\ Move(b, "rejoining")
     ELSE /\ UNCHANGED leases
          /\ Move(b, IF Locked(key[b]) THEN "waiting" ELSE "queueing")
  /\ UNCHANGED <<images, sidecars, failures, lock, slots, starts>>

\* the bound of the wait, or the attempt is cancelled while it waits
StopWaiting(b) ==
  /\ at[b] \in {"waiting", "probing"}
  /\ \/ Move(b, "queueing")
     \/ Leave(b)
  /\ UNCHANGED <<checkpoints, slots, starts>>

------------------------------------------------------------------------------
(* The slot.                                                               *)

TakeSlot(b) ==
  /\ at[b] = "queueing"
  /\ Cardinality(slots) < MaxSlots
  /\ slots' = slots \cup {b}
  /\ Move(b, IF "lock" \in has[b] THEN "warming"
             ELSE IF "lease" \in has[b] THEN "loading" ELSE "creating")
  /\ UNCHANGED <<checkpoints, starts>>

\* cancelled, or every slot busy for the whole wait: the lock or the lease
\* is given back
NoSlot(b) ==
  /\ at[b] = "queueing"
  /\ lock' = IF "lock" \in has[b] THEN Unlocked(b) ELSE lock
  /\ leases' = IF "lease" \in has[b] THEN Unleased(b) ELSE leases
  /\ Leave(b)
  /\ UNCHANGED <<images, sidecars, failures, slots, starts>>

------------------------------------------------------------------------------
(* The warm-up, under the key's lock and a slot.                           *)

\* runWarmup: the checkpoint is written; the warm-up fails, which is recorded;
\* it is cancelled, or recording it fails; or its VM is not proved closed and
\* the slot stays held
WarmUp(b) ==
  /\ at[b] = "warming"
  /\ \/ Move(b, "publishing") /\ UNCHANGED <<failures, lock, slots>>
     \/ /\ failures' = failures \cup {key[b]}
        /\ Move(b, "unlocking") /\ UNCHANGED <<lock, slots>>
     \/ /\ lock' = Unlocked(b) /\ slots' = slots \ {b}
        /\ Leave(b) /\ UNCHANGED failures
     \/ /\ lock' = Unlocked(b)
        /\ Go(b, "stuck") /\ has' = [has EXCEPT ![b] = {}]
        /\ UNCHANGED <<failures, slots, key, round, sweep>>
  /\ UNCHANGED <<images, sidecars, leases, starts>>

\* an eviction has looked at the key's lock and is removing its files
Condemned(k) ==
  ~Overtaking /\ \E c \in Boots :
    at[c] \in {"condemning", "doubting", "removing"} /\ sweep[c].victim = k

\* publish: the image is renamed into place ...
Publish(b) ==
  /\ at[b] = "publishing" /\ ~Condemned(key[b])
  /\ images' = images \cup {key[b]}
  /\ Move(b, "describing")
  /\ UNCHANGED <<sidecars, failures, lock, leases, slots, starts>>

\* ... its sidecar follows, and the failure record goes; evict() lists the
\* images
Describe(b) ==
  /\ at[b] = "describing"
  /\ sidecars' = sidecars \cup {key[b]}
  /\ failures' = failures \ {key[b]}
  /\ Go(b, "sweeping")
  /\ sweep' = [sweep EXCEPT ![b] =
       [todo |-> images, victim |-> NoKey,
        excess |-> IF Cardinality(images) > MaxImages
                   THEN Cardinality(images) - MaxImages ELSE 0]]
  /\ UNCHANGED <<images, lock, leases, slots, key, has, round, starts>>

\* a write of the publication or of the eviction fails
PublishFails(b) ==
  /\ at[b] \in {"publishing", "describing", "sweeping"}
  /\ lock' = Unlocked(b) /\ slots' = slots \ {b}
  /\ Go(b, "idle")
  /\ key' = [key EXCEPT ![b] = NoKey]
  /\ has' = [has EXCEPT ![b] = {}]
  /\ sweep' = [sweep EXCEPT ![b] = NoSweep]
  /\ UNCHANGED <<images, sidecars, failures, leases, round, starts>>

\* evict: the next image, unless it is leased; lease files of the dead go.
\* When the store fits, or all have been looked at, the own checkpoint is
\* leased.
Sweep(b) ==
  /\ at[b] = "sweeping"
  /\ IF sweep[b].excess = 0 \/ sweep[b].todo = {}
     THEN /\ leases' = [leases EXCEPT ![key[b]] = @ \cup {b}]
          /\ sweep' = [sweep EXCEPT ![b] = NoSweep]
          /\ Go(b, "adopting")
     ELSE \E k \in sweep[b].todo :
            /\ leases' = [leases EXCEPT ![k] = @ \ {Dead}]
            /\ sweep' = [sweep EXCEPT ![b].todo = @ \ {k},
                                      ![b].victim = IF Leased(k) THEN NoKey ELSE k]
            /\ Go(b, IF Leased(k) THEN "sweeping" ELSE "suspecting")
  /\ UNCHANGED <<images, sidecars, failures, lock, slots, key, has, round, starts>>

Spare(b) ==
  /\ Go(b, "sweeping")
  /\ sweep' = [sweep EXCEPT ![b].victim = NoKey]
  /\ UNCHANGED <<key, has, round>>

\* ... nor locked
Suspect(b) ==
  /\ at[b] = "suspecting"
  /\ IF Locked(sweep[b].victim) THEN Spare(b) ELSE Move(b, "condemning")
  /\ UNCHANGED <<checkpoints, slots, starts>>

\* the sidecar goes first ...
Condemn(b) ==
  /\ at[b] = "condemning"
  /\ sidecars' = sidecars \ {sweep[b].victim}
  /\ Move(b, "doubting")
  /\ UNCHANGED <<images, failures, lock, leases, slots, starts>>

\* ... the leases are looked at again ...
Doubt(b) ==
  /\ at[b] = "doubting"
  /\ IF Leased(sweep[b].victim) THEN Spare(b) ELSE Move(b, "removing")
  /\ leases' = [leases EXCEPT ![sweep[b].victim] = @ \ {Dead}]
  /\ UNCHANGED <<images, sidecars, failures, lock, slots, starts>>

\* ... and then the image
Remove(b) ==
  /\ at[b] = "removing"
  /\ images' = images \ {sweep[b].victim}
  /\ Go(b, "sweeping")
  /\ sweep' = [sweep EXCEPT ![b].victim = NoKey, ![b].excess = @ - 1]
  /\ UNCHANGED <<sidecars, failures, lock, leases, slots, key, has, round, starts>>

\* warm.unlock(), after a warm-up that succeeded or failed
Unlock(b) ==
  /\ at[b] = "unlocking"
  /\ lock' = Unlocked(b)
  /\ has' = [has EXCEPT ![b] = @ \ {"lock"}]
  /\ Go(b, IF "lease" \in has[b] THEN "loading" ELSE "creating")
  /\ UNCHANGED <<images, sidecars, failures, leases, slots, key, round, sweep,
                 starts>>

------------------------------------------------------------------------------
(* The VM of the attempt.                                                  *)

\* VmCheckpoint.load: unreadable, or of another guest image, boots cold
Load(b) ==
  /\ at[b] = "loading"
  /\ \/ key[b] \in images /\ Move(b, "resuming") /\ UNCHANGED leases
     \/ /\ leases' = Unleased(b)
        /\ Go(b, "creating") /\ has' = [has EXCEPT ![b] = {}]
        /\ UNCHANGED <<key, round, sweep>>
  /\ UNCHANGED <<images, sidecars, failures, lock, slots, starts>>

\* the checkpoint is resumed; or that fails, is recorded and boots cold
Resume(b) ==
  /\ at[b] = "resuming"
  /\ \/ key[b] \in images /\ Move(b, "starting") /\ UNCHANGED <<failures, leases>>
     \/ /\ failures' \in {failures, failures \cup {key[b]}}
        /\ leases' = Unleased(b)
        /\ Go(b, "creating") /\ has' = [has EXCEPT ![b] = {}]
        /\ UNCHANGED <<key, round, sweep>>
  /\ UNCHANGED <<images, sidecars, lock, slots, starts>>

\* VM.create; when it throws the slot is given back
Create(b) ==
  /\ at[b] = "creating"
  /\ \/ Move(b, "starting") /\ UNCHANGED slots
     \/ slots' = slots \ {b} /\ Leave(b)
  /\ UNCHANGED <<checkpoints, starts>>

\* vm.start, the process identity and the binds; or a failure, which closes
\* the VM or fails to
Start(b) ==
  /\ at[b] = "starting"
  /\ Move(b, "running") \/ Move(b, "stuck")
  /\ UNCHANGED <<checkpoints, slots, starts>>

\* closeStartedVm, of a start that failed or of an attempt that is over: the
\* VM, then the lease, then the slot.  A close that fails leaves all three.
Close(b) ==
  /\ at[b] \in {"starting", "running"}
  /\ leases' = IF key[b] = NoKey THEN leases ELSE Unleased(b)
  /\ slots' = slots \ {b}
  /\ Leave(b)
  /\ UNCHANGED <<images, sidecars, failures, lock, starts>>

------------------------------------------------------------------------------

\* The process dies: its locks and leases name a dead process, its slot is
\* free.
Crash(b) ==
  /\ at[b] # "idle"
  /\ lock' = [k \in Keys |-> IF lock[k] = b THEN Dead ELSE lock[k]]
  /\ leases' = [k \in Keys |-> IF b \in leases[k]
                               THEN (leases[k] \ {b}) \cup {Dead} ELSE leases[k]]
  /\ slots' = slots \ {b}
  /\ Go(b, "idle")
  /\ key' = [key EXCEPT ![b] = NoKey]
  /\ has' = [has EXCEPT ![b] = {}]
  /\ round' = [round EXCEPT ![b] = 0]
  /\ sweep' = [sweep EXCEPT ![b] = NoSweep]
  /\ UNCHANGED <<images, sidecars, failures, starts>>

\* a failure record is an hour old
Forget(k) ==
  /\ k \in failures
  /\ failures' = failures \ {k}
  /\ UNCHANGED <<images, sidecars, lock, leases, slots, boot, starts>>

Prepare(b) ==
  \/ FirstLease(b) \/ LateLease(b) \/ OwnLease(b) \/ CheckFailure(b)
  \/ LinkLock(b) \/ Inspect(b) \/ Reclaim(b) \/ Poll(b) \/ Probe(b)

Evict(b) == Sweep(b) \/ Suspect(b) \/ Condemn(b) \/ Doubt(b) \/ Remove(b)

Warm(b) ==
  WarmUp(b) \/ Publish(b) \/ Describe(b) \/ PublishFails(b) \/ Evict(b)
    \/ Unlock(b)

Slot(b) == TakeSlot(b) \/ NoSlot(b)

StartVm(b) == Load(b) \/ Resume(b) \/ Create(b) \/ Start(b)

Next ==
  \/ \E b \in Boots :
       \/ Begin(b) \/ Prepare(b) \/ StopWaiting(b) \/ Slot(b) \/ Warm(b)
       \/ StartVm(b) \/ Close(b) \/ Crash(b)
  \/ \E k \in Keys : Forget(k)

Spec == Init /\ [][Next]_vars

\* awaits of a start are bounded: the capacity wait, the install, the reads
\* and writes of files; the bound of a wait for another's warm-up is not used
Fairness ==
  \A b \in Boots :
    /\ WF_vars(Prepare(b))
    /\ WF_vars(Slot(b))
    /\ WF_vars(Warm(b))

FairSpec == Spec /\ Fairness

------------------------------------------------------------------------------

(* One warm-up per key runs at a time, whatever dies (authority.md: "a     *)
(* lock file owned by a live process").                                    *)
OneWarmup ==
  \A b, c \in Boots :
    at[b] \in Warming /\ at[c] \in Warming /\ key[b] = key[c] => b = c

(* A lease that was granted keeps its image: no eviction takes the backing *)
(* file of a VM (authority.md: "a checkpoint leased by a running VM ...    *)
(* never evicted").                                                        *)
LeasedStays == \A b \in Boots : "lease" \in has[b] => key[b] \in images

(* What a start took it gives back, on every path but an unproved close:   *)
(* the process lives on and nobody reclaims what a live process owns.      *)
NothingLeftBehind ==
  \A b \in Boots : at[b] = "idle" =>
    /\ b \notin slots
    /\ \A k \in Keys : lock[k] # b /\ b \notin leases[k]

(* Without its bound, a wait for another's warm-up still ends: a warm-up   *)
(* that was published, failed, was cancelled or died is noticed.           *)
WaitsEnd == \A b \in Boots : at[b] = "waiting" ~> at[b] \notin {"waiting", "probing"}

(* A key whose checkpoint did not resume is not tried again while that is  *)
(* on record (gondolin.ts: "so no later attempt retries it until the key   *)
(* changes").                                                              *)
FailedStaysCold ==
  [][\A b \in Boots :
       at[b] = "loading" /\ at'[b] = "resuming" => key[b] \notin failures]_vars
==============================================================================
