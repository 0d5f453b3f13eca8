----------------------------- MODULE FencedLease -----------------------------
(***************************************************************************)
(* What a run lease promises its callers, without saying how: at most one  *)
(* seat holds the run, every grant carries a generation higher than all    *)
(* earlier ones, and a guarded side effect is committed only by the        *)
(* current holder.  The only resource is the grant itself; sockets, files  *)
(* and in-flight work belong to RunLease, which implements this module.    *)
(***************************************************************************)
EXTENDS Naturals

CONSTANTS
  Seats,          \* the host processes that may own the run
  NoSeat          \* stands for "nobody"

VARIABLES
  holder,         \* the seat that holds the run, or NoSeat
  generation,     \* generation of the last grant, 0 before the first
  committed       \* generation of the last committed side effect

vars == <<holder, generation, committed>>

Init ==
  /\ holder = NoSeat
  /\ generation = 0
  /\ committed = 0

\* A free run is granted to a seat under the next generation.
Grant(s) ==
  /\ holder = NoSeat
  /\ holder' = s
  /\ generation' = generation + 1
  /\ UNCHANGED committed

\* The holder lets go, or dies.
Revoke ==
  /\ holder # NoSeat
  /\ holder' = NoSeat
  /\ UNCHANGED <<generation, committed>>

\* The holder commits a side effect under its own, current, generation.
Commit ==
  /\ holder # NoSeat
  /\ committed' = generation
  /\ UNCHANGED <<holder, generation>>

Next == (\E s \in Seats : Grant(s)) \/ Revoke \/ Commit

Spec == Init /\ [][Next]_vars
==============================================================================
