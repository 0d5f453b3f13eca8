------------------------------- MODULE RunLease -------------------------------
(***************************************************************************)
(* The cross-process lease of one run (src/persistence/run-lease.ts).      *)
(*                                                                         *)
(* A seat takes the run by binding an exclusive loopback listener whose    *)
(* port is a function of the run; only then does it read the durable       *)
(* record and replace it by one with the next generation.  The two are     *)
(* not atomic: a seat may die, or fail to write, with the listener bound   *)
(* and the record untouched.  Authority is re-checked by assertCurrent     *)
(* before every guarded side effect, and the side effect itself follows    *)
(* the check without a lock: `inflight` holds what passed the check and    *)
(* has not reached the disk.                                               *)
(*                                                                         *)
(* Bound: MaxGeneration caps the generations TLC explores.  Names that     *)
(* Journal has too are prefixed, for the proofs extend both.               *)
(***************************************************************************)
EXTENDS Naturals

CONSTANTS
  Seats,          \* the host processes that share the store
  NoSeat,         \* nobody is listening on the run's port
  MaxGeneration,  \* bound on generations
  CallersAwait    \* whether a caller waits for its guarded side effects
                  \* before it releases the lease

ASSUME SeatsAssumption == NoSeat \notin Seats
ASSUME BoundAssumption == MaxGeneration \in Nat
ASSUME AwaitAssumption == CallersAwait \in BOOLEAN

VARIABLES
  port,           \* the seat whose server listens on the run's port
  pc,             \* where each seat is in acquireRunLease
  existing,       \* the generation each seat read from the record
  record,         \* the durable record: who wrote it, its generation
  leases,         \* the record of the RunLease object each seat has last got
  inflight,       \* guarded side effects between their check and their write
  committed       \* generation of the last side effect that reached the disk

leaseVars == <<port, pc, existing, record, leases, inflight, committed>>

Generations == 0..MaxGeneration
Records == [seat : Seats \cup {NoSeat}, generation : Generations]

LeaseTypeOK ==
  /\ port \in Seats \cup {NoSeat}
  /\ pc \in [Seats -> {"idle", "bound", "read", "held"}]
  /\ existing \in [Seats -> Generations]
  /\ record \in Records
  /\ leases \in [Seats -> Records]
  /\ inflight \subseteq Records
  /\ committed \in Generations

\* generation 0 stands for a record file that does not exist
NoRecord == [seat |-> NoSeat, generation |-> 0]

LeaseInit ==
  /\ port = NoSeat
  /\ pc = [s \in Seats |-> "idle"]
  /\ existing = [s \in Seats |-> 0]
  /\ record = NoRecord
  /\ leases = [s \in Seats |-> NoRecord]
  /\ inflight = {}
  /\ committed = 0

------------------------------------------------------------------------------
(* Slips: faulty forms of the definitions below, one plausible mistake     *)
(* each.  No specification uses them; every property is checked to notice  *)
(* one of them.                                                            *)

\* the listener is not exclusive
BindShared(s) ==
  /\ pc[s] = "idle"
  /\ port' = s
  /\ pc' = [pc EXCEPT ![s] = "bound"]
  /\ UNCHANGED <<existing, record, leases, inflight, committed>>

\* the generation restarts instead of continuing from the record
WriteRecordAfresh(s) ==
  /\ pc[s] = "read"
  /\ record' = [seat |-> s, generation |-> 1]
  /\ leases' = [leases EXCEPT ![s] = record']
  /\ pc' = [pc EXCEPT ![s] = "held"]
  /\ UNCHANGED <<port, existing, inflight, committed>>

\* release forgets what is in flight
ReleaseAtOnce(s) ==
  /\ pc[s] = "held"
  /\ port' = NoSeat
  /\ pc' = [pc EXCEPT ![s] = "idle"]
  /\ UNCHANGED <<existing, record, leases, inflight, committed>>

------------------------------------------------------------------------------

\* bind(port): EADDRINUSE, and RunLeaseUnavailableError, unless it is free.
Bind(s) ==
  /\ pc[s] = "idle"
  /\ port = NoSeat
  /\ port' = s
  /\ pc' = [pc EXCEPT ![s] = "bound"]
  /\ UNCHANGED <<existing, record, leases, inflight, committed>>

\* readRecord, with the listener already bound
ReadRecord(s) ==
  /\ pc[s] = "bound"
  /\ existing' = [existing EXCEPT ![s] = record.generation]
  /\ pc' = [pc EXCEPT ![s] = "read"]
  /\ UNCHANGED <<port, record, leases, inflight, committed>>

\* temp file, fsync, rename over the record, and the RunLease object
WriteRecord(s) ==
  /\ pc[s] = "read"
  /\ existing[s] < MaxGeneration
  /\ record' = [seat |-> s, generation |-> existing[s] + 1]
  /\ leases' = [leases EXCEPT ![s] = record']
  /\ pc' = [pc EXCEPT ![s] = "held"]
  /\ UNCHANGED <<port, existing, inflight, committed>>

\* the record cannot be read, written or renamed: the listener is closed
AcquireFails(s) ==
  /\ pc[s] \in {"bound", "read"}
  /\ port' = NoSeat
  /\ pc' = [pc EXCEPT ![s] = "idle"]
  /\ UNCHANGED <<existing, record, leases, inflight, committed>>

\* assertCurrent: the seat's server is listening and the record is its own
Current(s) == port = s /\ record = leases[s]

\* a guarded side effect passes its check and is on its way to the disk
Guard(s) ==
  /\ pc[s] = "held"
  /\ Current(s)
  /\ inflight' = inflight \cup {leases[s]}
  /\ UNCHANGED <<port, pc, existing, record, leases, committed>>

\* ... and reaches it, whatever has happened to the lease meanwhile
Commit(w) ==
  /\ w \in inflight
  /\ inflight' = inflight \ {w}
  /\ committed' = w.generation
  /\ UNCHANGED <<port, pc, existing, record, leases>>

\* release(): close the server; the record stays behind
ReleaseLease(s) ==
  /\ pc[s] = "held"
  /\ CallersAwait => \A w \in inflight : w.seat # s
  /\ port' = NoSeat
  /\ pc' = [pc EXCEPT ![s] = "idle"]
  /\ UNCHANGED <<existing, record, leases, inflight, committed>>

\* The process dies: the OS closes its listener and nothing it had in
\* flight is written any more.  The record survives.
Die(s) ==
  /\ pc[s] # "idle" \/ \E w \in inflight : w.seat = s
  /\ port' = IF port = s THEN NoSeat ELSE port
  /\ pc' = [pc EXCEPT ![s] = "idle"]
  /\ inflight' = {w \in inflight : w.seat # s}
  /\ UNCHANGED <<existing, record, leases, committed>>

LeaseNext ==
  \/ \E s \in Seats :
       \/ Bind(s)
       \/ ReadRecord(s)
       \/ WriteRecord(s)
       \/ AcquireFails(s)
       \/ Guard(s)
       \/ ReleaseLease(s)
       \/ Die(s)
  \/ \E w \in inflight : Commit(w)

LeaseSpec == LeaseInit /\ [][LeaseNext]_leaseVars

------------------------------------------------------------------------------

(* The seat that finished acquireRunLease is still current until it        *)
(* releases or dies: nobody can write the record without the port.         *)
HolderStaysCurrent == \A s \in Seats : pc[s] = "held" => Current(s)

(* A side effect that passed its check belongs to the generation the       *)
(* record shows now: no newer holder has appeared (persistence.md, "A      *)
(* stale writer cannot commit state after replacement").                   *)
NoStaleWriter == \A w \in inflight : w.generation = record.generation

(* Side effects reach the disk in the order of their generations.          *)
CommitsInOrder == [][committed' >= committed]_leaseVars

(* The lease implements the fenced grant: the holder is the seat that has  *)
(* finished acquiring.                                                     *)
Holder == IF port # NoSeat /\ pc[port] = "held" THEN port ELSE NoSeat
Fenced == INSTANCE FencedLease
            WITH holder <- Holder, generation <- record.generation
ImplementsFencedLease == Fenced!Spec
==============================================================================
