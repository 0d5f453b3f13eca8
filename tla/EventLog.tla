------------------------------ MODULE EventLog ------------------------------
(***************************************************************************)
(* What a run's journal promises (docs/persistence.md, "Lifecycle events   *)
(* are append-only"): a log that only grows, one event at a time, that     *)
(* keeps every event a writer was told is in it, and a snapshot that never *)
(* claims more events than the log has.                                    *)
(***************************************************************************)
EXTENDS Naturals, Sequences, SequencesExt

VARIABLES
  log,            \* the events, oldest first
  receipts,       \* events whose writer was told they are durable
  covered         \* events the snapshot accounts for

vars == <<log, receipts, covered>>

Init == log = <<>> /\ receipts = {} /\ covered = 0

\* one event more; its writer hears of it, unless it died
Add ==
  /\ Len(log') = Len(log) + 1
  /\ log = Front(log')
  /\ receipts' \in {receipts, receipts \cup {Last(log')}}
  /\ UNCHANGED covered

Cover ==
  /\ covered' \in 0..Len(log)
  /\ UNCHANGED <<log, receipts>>

Next == Add \/ Cover

Spec == Init /\ [][Next]_vars
==============================================================================
