------------------------------- MODULE Journal -------------------------------
(***************************************************************************)
(* The journal and the snapshot of one run (src/persistence/journal.ts):   *)
(* the file, the RunJournal objects that append to it, each with its own   *)
(* count of the events, the leases they are fenced by, deaths in the       *)
(* middle of a write and the repair of the tail they leave.                *)
(*                                                                         *)
(* A line is whole or the garbage that a write glued to an unfinished line *)
(* makes; the contents of events are left out, but each is a different     *)
(* one.  A lease is current until it is released or its seat dies, and     *)
(* then never again (RunLease); a release waits for what its holder is     *)
(* writing.  Bounds: MaxLease leases, MaxEvents appends.                   *)
(***************************************************************************)
EXTENDS Naturals, Sequences, FiniteSets, SequencesExt

CONSTANTS
  Handles,        \* RunJournal objects
  MaxLease,
  MaxEvents,
  Faults,         \* how writes may fail in a process that lives on: having
                  \* written "nothing", a "partial" line or an "unsynced" one
  Shared          \* operations under one lease may overlap, as two that
                  \* reuse the lease of a cleanup-blocked run do

ASSUME JournalAssumption ==
  /\ MaxLease \in Nat /\ MaxEvents \in Nat
  /\ Faults \subseteq {"nothing", "partial", "unsynced"}
  /\ Shared \in BOOLEAN

VARIABLES
  lines,          \* complete lines of events.jsonl
  torn,           \* whether an unfinished line follows them
  snapshot,       \* lastSequence of run.json, 0 without one
  lease,          \* the current lease, 0 if none
  granted,        \* leases so far
  handles,
  newest,         \* the object opened last, or none
  events,         \* appends so far
  receipts,       \* events whose append resolved
  faults          \* how writes may fail in this behaviour

file == <<lines, torn, snapshot>>
vars == <<file, lease, granted, handles, newest, events, receipts, faults>>

\* the promises of the file are stated for such behaviours
FailuresLeaveNothing == faults \subseteq {"nothing"}

Garbage == [sequence |-> 0, event |-> 0]
Closed == [at |-> "closed"]

TypeOK ==
  /\ lines \in Seq([sequence : 1..MaxEvents, event : 1..MaxEvents]
                     \cup {Garbage})
  /\ torn \in BOOLEAN
  /\ snapshot \in 0..MaxEvents
  /\ lease \in 0..granted
  /\ granted \in 0..MaxLease
  /\ handles \in [Handles -> {Closed} \cup
       [at : {"opening"}, found : 0..MaxEvents, torn : BOOLEAN] \cup
       [at : {"ready", "saving"}, sequence : 0..MaxEvents] \cup
       [at : {"appending"}, sequence : 0..MaxEvents, event : 1..MaxEvents]]
  /\ newest = {} \/ \E h \in Handles : newest = {h}
  /\ events \in 0..MaxEvents
  /\ receipts \subseteq 1..MaxEvents
  /\ faults \subseteq Faults

Init ==
  /\ lines = <<>> /\ torn = FALSE /\ snapshot = 0
  /\ lease = 0 /\ granted = 0
  /\ handles = [h \in Handles |-> Closed]
  /\ newest = {}
  /\ events = 0
  /\ receipts = {}
  /\ faults \in {Faults, Faults \cap {"nothing"}}

\* what parseJournal accepts; an unfinished line at the end is not looked at
Parses(s) == \A i \in DOMAIN s : s[i].sequence = i

Busy(h) == handles[h].at \notin {"closed", "ready"}
Ready(h) == handles[h].at = "ready"
Become(h, state) == handles' = [handles EXCEPT ![h] = state]
Count(n) == [at |-> "ready", sequence |-> n]

------------------------------------------------------------------------------
(* Slips: faulty forms of the definitions below, one plausible mistake     *)
(* each; no specification uses them.                                       *)

\* an unfinished line is left where it is
RepairNothing(h) ==
  /\ handles[h].at = "opening"
  /\ Become(h, Count(handles[h].found))
  /\ UNCHANGED <<file, lease, granted, newest, events, receipts, faults>>

\* the cut takes the last complete line too
RepairTooMuch(h) ==
  /\ handles[h].at = "opening"
  /\ IF handles[h].torn /\ handles[h].found > 0
     THEN /\ lines' = SubSeq(lines, 1, handles[h].found - 1) /\ torn' = FALSE
          /\ Become(h, Count(handles[h].found - 1))
     ELSE UNCHANGED <<lines, torn>> /\ Become(h, Count(handles[h].found))
  /\ UNCHANGED <<snapshot, lease, granted, newest, events, receipts, faults>>

\* a write that fails still counts
AppendFailsCounted(h) ==
  /\ handles[h].at = "appending"
  /\ faults # {}
  /\ Become(h, Count(handles[h].sequence + 1))
  /\ UNCHANGED <<file, lease, granted, newest, events, receipts, faults>>

------------------------------------------------------------------------------
(* The lease.                                                              *)

Grant ==
  /\ lease = 0 /\ granted < MaxLease
  /\ granted' = granted + 1
  /\ lease' = granted'
  /\ UNCHANGED <<file, handles, newest, events, receipts, faults>>

\* objects of a released lease throw at their next assertCurrent
Release ==
  /\ lease # 0
  /\ \A h \in Handles : ~Busy(h)
  /\ lease' = 0
  /\ handles' = [h \in Handles |-> Closed] /\ newest' = {}
  /\ UNCHANGED <<file, granted, events, receipts, faults>>

\* The seat dies.  Of each line being written nothing, a part or all is in
\* the file; a repair or a rename under way has happened or not.
Crash ==
  /\ lease # 0
  /\ \E done \in SUBSET {h \in Handles : Busy(h)} :
       LET of(place) == {h \in done : handles[h].at = place}
           cut == {handles[h].found : h \in {g \in of("opening") : handles[g].torn}}
           written == of("appending")
           saved == {handles[h].sequence : h \in of("saving")}
       IN
       /\ Cardinality(written) <= 1 /\ (cut # {} => written = {})
       /\ \/ /\ written = {} /\ cut = {} /\ UNCHANGED lines
             /\ torn' \in {torn} \cup {\E h \in Handles : handles[h].at = "appending"}
          \/ /\ cut # {} /\ torn' = FALSE
             /\ \E n \in cut : lines' = SubSeq(lines, 1, n)
          \/ /\ written # {} /\ torn' = FALSE
             /\ \E h \in written :
                  lines' = Append(lines,
                    IF torn THEN Garbage
                    ELSE [sequence |-> handles[h].sequence + 1,
                          event |-> handles[h].event])
       /\ snapshot' \in IF saved = {} THEN {snapshot} ELSE saved
  /\ lease' = 0
  /\ handles' = [h \in Handles |-> Closed] /\ newest' = {}
  /\ UNCHANGED <<granted, events, receipts, faults>>

------------------------------------------------------------------------------
(* The RunJournal.                                                         *)

\* RunJournal.open: assertCurrent, the file is read and parsed
Read(h) ==
  /\ lease # 0
  /\ handles[h].at \in {"closed", "ready"}
  /\ Shared \/ \A g \in Handles : ~Busy(g)
  /\ Parses(lines)
  /\ Become(h, [at |-> "opening", found |-> Len(lines), torn |-> torn])
  /\ newest' = {h}
  /\ UNCHANGED <<file, lease, granted, events, receipts, faults>>

\* repairTornTail cuts the file after the complete lines that were read
Repair(h) ==
  /\ handles[h].at = "opening"
  /\ IF handles[h].torn
     THEN lines' = SubSeq(lines, 1, handles[h].found) /\ torn' = FALSE
     ELSE UNCHANGED <<lines, torn>>
  /\ Become(h, Count(handles[h].found))
  /\ UNCHANGED <<snapshot, lease, granted, newest, events, receipts, faults>>

\* append: assertCurrent; the sequence is the object's own count
BeginAppend(h) ==
  /\ lease # 0 /\ Ready(h)
  /\ Shared \/ h \in newest
  /\ events < MaxEvents
  /\ events' = events + 1
  /\ Become(h, [at |-> "appending", sequence |-> handles[h].sequence,
                event |-> events'])
  /\ UNCHANGED <<file, lease, granted, newest, receipts, faults>>

\* the line, at the end of whatever the file holds
Line(h) ==
  Append(lines, IF torn THEN Garbage
                ELSE [sequence |-> handles[h].sequence + 1,
                      event |-> handles[h].event])

EndAppend(h) ==
  /\ handles[h].at = "appending"
  /\ lines' = Line(h) /\ torn' = FALSE
  /\ receipts' = receipts \cup {handles[h].event}
  /\ Become(h, Count(handles[h].sequence + 1))
  /\ UNCHANGED <<snapshot, lease, granted, newest, events, faults>>

\* open, write or fsync rejects: the object keeps its count
AppendFails(h) ==
  /\ handles[h].at = "appending"
  /\ \/ "nothing" \in faults /\ UNCHANGED <<lines, torn>>
     \/ "partial" \in faults /\ torn' = TRUE /\ UNCHANGED lines
     \/ "unsynced" \in faults /\ lines' = Line(h) /\ torn' = FALSE
  /\ Become(h, Count(handles[h].sequence))
  /\ UNCHANGED <<snapshot, lease, granted, newest, events, receipts, faults>>

\* writeSnapshot: assertCurrent, then a temporary file renamed over the old
BeginSave(h) ==
  /\ lease # 0 /\ Ready(h)
  /\ Shared \/ h \in newest
  /\ Become(h, [at |-> "saving", sequence |-> handles[h].sequence])
  /\ UNCHANGED <<file, lease, granted, newest, events, receipts, faults>>

EndSave(h) ==
  /\ handles[h].at = "saving"
  /\ \/ snapshot' = handles[h].sequence
     \/ faults # {} /\ UNCHANGED snapshot
  /\ Become(h, Count(handles[h].sequence))
  /\ UNCHANGED <<lines, torn, lease, granted, newest, events, receipts, faults>>

Next ==
  \/ Grant
  \/ Release
  \/ Crash
  \/ \E h \in Handles :
       \/ Read(h)
       \/ Repair(h)
       \/ BeginAppend(h)
       \/ EndAppend(h)
       \/ AppendFails(h)
       \/ BeginSave(h)
       \/ EndSave(h)

Spec == Init /\ [][Next]_vars

------------------------------------------------------------------------------

(* Whatever writes and deaths leave behind, the file can be read again:    *)
(* every complete line is an event and carries the next sequence number    *)
(* (persistence.md: "Appends and snapshots use crash-safe                  *)
(* write/fsync/rename rules"), as long as a write that fails in a process  *)
(* that lives on has written nothing.                                      *)
JournalReadable == FailuresLeaveNothing => Parses(lines)

(* readSnapshot never refuses the snapshot of a file it can read: the      *)
(* snapshot claims no event that is not there, whatever failing writes     *)
(* left.                                                                   *)
SnapshotWithinJournal == snapshot <= Len(lines)

(* The file implements the log: no write, repair or death takes back an    *)
(* event a reader could see or an append has confirmed, as long as failing *)
(* writes leave nothing.                                                   *)
Log == INSTANCE EventLog
  WITH log <- [i \in DOMAIN lines |-> lines[i].event], covered <- snapshot
ImplementsLog ==
  Log!Init /\ [][Log!Next \/ ~FailuresLeaveNothing]_(Log!vars)

(* As JournalReadable, whatever failing writes left: JournalPartial.cfg    *)
(* refutes it.                                                             *)
ReadableWhateverFails == Parses(lines)
==============================================================================
