---------------------------- MODULE JournalProofs ----------------------------
(***************************************************************************)
(* The file of a run and the lease of those who write it, for any number   *)
(* of leases, events and journal objects, any set of seats and any bound   *)
(* on generations: the journal can be read whatever deaths leave, its      *)
(* snapshot claims nothing that is not there, and it implements the log of *)
(* EventLog; a holder of the lease keeps its authority until it lets go,   *)
(* generations order the side effects, and the lease implements the fenced *)
(* grant of FencedLease.                                                   *)
(*                                                                         *)
(* The journal is proved for operations that do not overlap under one      *)
(* lease (~Shared).  Inv then says that whatever is under way belongs to   *)
(* the object opened last (Alone), hence that nobody adds a line behind    *)
(* its back: what it found when it was opened is still so, it counts no    *)
(* more lines than there are (CountInv) and, where failing writes leave    *)
(* nothing, just those (CleanInv), so that the next line gets the next     *)
(* number.                                                                 *)
(***************************************************************************)
EXTENDS Journal, RunLease, SequenceTheorems, TLAPS

LineSet == [sequence : 1..MaxEvents, event : 1..MaxEvents] \cup {Garbage}
Counting(h) == handles[h].at \in {"ready", "saving", "appending"}

\* what is under way is an operation of the object opened last
Alone == \A h \in Handles : Busy(h) => newest = {h}

\* that object counts no line that is not there, and an append that began is
\* an event more than there are lines
CountInv ==
  /\ \A h \in newest :
       /\ handles[h].at = "opening" =>
            handles[h].found = Len(lines) /\ handles[h].torn = torn
       /\ Counting(h) => handles[h].sequence <= Len(lines)
  /\ snapshot <= Len(lines)
  /\ Len(lines) <= events
  /\ \A h \in Handles : handles[h].at = "appending" => Len(lines) < events

\* where failing writes leave nothing, it counts them all
CleanInv ==
  FailuresLeaveNothing =>
    /\ Parses(lines)
    /\ \A h \in newest :
         Counting(h) => handles[h].sequence = Len(lines) /\ ~torn

Inv == TypeOK /\ Alone /\ CountInv /\ CleanInv

(* The empty file that a run starts with.                                 *)
LEMMA InitInv == Init => Inv
<1> SUFFICES ASSUME Init PROVE Inv
  OBVIOUS
<1>2. handles \in [Handles -> {Closed}] /\ \A h \in Handles : handles[h].at = "closed"
  BY DEF Init, Closed
<1>3. lines \in Seq(LineSet) /\ Len(lines) = 0
  BY DEF Init
<1>4. TypeOK
  <2>1. /\ lines \in Seq(LineSet) /\ torn \in BOOLEAN /\ snapshot \in 0..MaxEvents
        /\ lease \in 0..granted /\ granted \in 0..MaxLease
        /\ newest = {} /\ events \in 0..MaxEvents
        /\ receipts \subseteq 1..MaxEvents /\ faults \subseteq Faults
    <3>1. 0 \in 0..MaxEvents /\ 0 \in 0..MaxLease /\ 0 \in 0..0
      BY JournalAssumption
    <3> QED BY <1>3, <3>1 DEF Init
  <2> QED BY <1>2, <2>1 DEF TypeOK, LineSet
<1>s. Alone /\ CountInv /\ CleanInv
  BY <1>2, <1>3 DEF Init, Alone, Busy, CountInv, CleanInv, Parses
<1> QED BY <1>4, <1>s DEF Inv
(* What the file is with one line more.                                    *)
LEMMA Appended ==
  ASSUME Inv, NEW line \in LineSet
  PROVE  /\ Append(lines, line) \in Seq(LineSet)
         /\ Len(Append(lines, line)) = Len(lines) + 1
         /\ Len(lines) \in Nat
         /\ Append(lines, line)[Len(lines) + 1] = line
         /\ \A i \in 1..Len(lines) : Append(lines, line)[i] = lines[i]
         /\ DOMAIN Append(lines, line) = 1..(Len(lines) + 1)
         /\ DOMAIN lines = 1..Len(lines)
<1>1. lines \in Seq(LineSet)
  BY DEF Inv, TypeOK, LineSet
<1> QED BY <1>1

(* What an append writes: its event under the number its object counts, or *)
(* garbage where an unfinished line was left.                              *)
LEMMA LineTyped ==
  ASSUME Inv, NEW h \in Handles, handles[h].at = "appending"
  PROVE  Line(h) = Append(lines, IF torn THEN Garbage
                      ELSE [sequence |-> handles[h].sequence + 1,
                            event |-> handles[h].event])
         /\ (IF torn THEN Garbage
                      ELSE [sequence |-> handles[h].sequence + 1,
                            event |-> handles[h].event]) \in LineSet
         /\ handles[h].sequence \in Nat /\ handles[h].event \in 1..MaxEvents
         /\ newest = {h}
<1>1. handles[h].sequence \in 0..MaxEvents /\ handles[h].event \in 1..MaxEvents
  BY DEF Inv, TypeOK, Closed
<1>2. newest = {h}
  BY DEF Inv, Alone, Busy
<1>3. handles[h].sequence <= Len(lines) /\ Len(lines) < events /\ events <= MaxEvents
      /\ Len(lines) \in Nat /\ events \in Nat /\ MaxEvents \in Nat
  BY <1>2, JournalAssumption DEF Inv, CountInv, Counting, TypeOK
<1>4. handles[h].sequence + 1 \in 1..MaxEvents
  BY <1>1, <1>3
<1> QED BY <1>1, <1>2, <1>4 DEF Line, LineSet

(* A step preserves the invariant.  <1>c is what a released or dead seat   *)
(* leaves, <1>s and <1>5 what an operation of the object opened last may   *)
(* do to its count, <1>8 what it may write.                                *)
LEMMA StepInv ==
  ASSUME ~Shared, Inv, [Next]_vars
  PROVE  Inv'
<1> USE DEF file
<1>n. MaxEvents \in Nat /\ MaxLease \in Nat /\ events \in Nat /\ Len(lines) \in Nat
  BY JournalAssumption DEF Inv, TypeOK
<1>1. CASE Grant
  <2>1. TypeOK'
    BY <1>1, <1>n DEF Grant, Inv, TypeOK
  <2> QED BY <1>1, <2>1
       DEF Grant, Inv, Alone, Busy, CountInv, Counting, CleanInv, FailuresLeaveNothing
<1>c. ASSUME newest' = {}, handles' = [h \in Handles |-> Closed], lease' = 0,
             UNCHANGED <<granted, events, receipts, faults>>,
             lines' \in Seq(LineSet), Len(lines') >= Len(lines), Len(lines') <= events,
             torn' \in BOOLEAN, snapshot' \in Nat, snapshot' <= Len(lines'),
             FailuresLeaveNothing => Parses(lines')
      PROVE  Inv'
  <2>1. \A h \in Handles : handles'[h].at = "closed" /\ handles'[h] = Closed
    BY <1>c DEF Closed
  <2>a. Len(lines') \in Nat /\ snapshot' \in 0..MaxEvents
    BY <1>c, <1>n DEF Inv, TypeOK
  <2>2. TypeOK'
    BY <1>c, <2>1, <2>a, <1>n DEF Inv, TypeOK, LineSet
  <2>3. Alone' /\ CountInv' /\ CleanInv'
    BY <1>c, <2>1 DEF Alone, Busy, CountInv, CleanInv, Counting, FailuresLeaveNothing
  <2> QED BY <2>2, <2>3 DEF Inv
<1>2. CASE Release
  <2>1. lines \in Seq(LineSet) /\ snapshot \in Nat /\ torn \in BOOLEAN
    BY DEF Inv, TypeOK, LineSet
  <2>2. UNCHANGED <<lines, torn, snapshot, granted, events, receipts, faults>> /\ lease' = 0
        /\ newest' = {} /\ handles' = [h \in Handles |-> Closed]
    BY <1>2 DEF Release
  <2> QED BY <1>c, <1>n, <2>1, <2>2 DEF Inv, CountInv, CleanInv, FailuresLeaveNothing
<1>3. CASE Crash
  <2>0. /\ newest' = {} /\ handles' = [h \in Handles |-> Closed] /\ lease' = 0
        /\ UNCHANGED <<granted, events, receipts, faults>>
    BY <1>3 DEF Crash
  <2>1. PICK done \in SUBSET {h \in Handles : Busy(h)} :
          LET of(place) == {h \in done : handles[h].at = place}
              cut == {handles[h].found : h \in {g \in of("opening") : handles[g].torn}}
              written == of("appending")
              saved == {handles[h].sequence : h \in of("saving")}
          IN
          /\ \/ /\ written = {} /\ cut = {} /\ UNCHANGED lines
                /\ torn' \in {torn} \cup {\E h \in Handles : handles[h].at = "appending"}
             \/ /\ cut # {} /\ torn' = FALSE
                /\ \E n \in cut : lines' = SubSeq(lines, 1, n)
             \/ /\ written # {} /\ torn' = FALSE
                /\ \E h \in written : lines' = Line(h)
          /\ snapshot' \in IF saved = {} THEN {snapshot} ELSE saved
    BY <1>3 DEF Crash, Line
  <2> DEFINE of(place) == {h \in done : handles[h].at = place}
             cut == {handles[h].found : h \in {g \in of("opening") : handles[g].torn}}
             written == of("appending")
             saved == {handles[h].sequence : h \in of("saving")}
  <2>l. lines \in Seq(LineSet) /\ snapshot \in Nat /\ torn \in BOOLEAN
    BY DEF Inv, TypeOK, LineSet
  <2>2. torn' \in BOOLEAN
    BY <2>1, <2>l
  <2>3. \A n \in cut : SubSeq(lines, 1, n) = lines
    <3>1. SUFFICES ASSUME NEW h \in Handles, handles[h].at = "opening"
                   PROVE  SubSeq(lines, 1, handles[h].found) = lines
      BY <2>1
    <3>2. handles[h].found = Len(lines)
      BY <3>1 DEF Inv, Alone, Busy, CountInv
    <3> QED BY <2>l, <3>2
  <2>4. snapshot' \in Nat /\ snapshot' <= Len(lines)
    <3>1. CASE snapshot' = snapshot
      BY <2>l, <3>1 DEF Inv, CountInv
    <3>2. ASSUME NEW h \in Handles, handles[h].at = "saving", snapshot' = handles[h].sequence
          PROVE  snapshot' \in Nat /\ snapshot' <= Len(lines)
      BY <3>2 DEF Inv, TypeOK, Closed, Alone, Busy, CountInv, Counting
    <3> QED BY <2>1, <3>1, <3>2
  <2>5. CASE UNCHANGED lines
    BY <1>c, <1>n, <2>0, <2>2, <2>4, <2>5, <2>l
       DEF Inv, CountInv, CleanInv, FailuresLeaveNothing
  <2>6. ASSUME NEW h \in Handles, handles[h].at = "appending", lines' = Line(h)
        PROVE  Inv'
    <3> DEFINE line == IF torn THEN Garbage
                      ELSE [sequence |-> handles[h].sequence + 1,
                            event |-> handles[h].event]
    <3>1. line \in LineSet /\ lines' = Append(lines, line) /\ newest = {h}
      BY <2>6, LineTyped
    <3>2. FailuresLeaveNothing => line.sequence = Len(lines) + 1
      BY <2>6, <3>1 DEF Inv, CleanInv, Counting
    <3> HIDE DEF line
    <3>3. /\ lines' \in Seq(LineSet) /\ Len(lines') = Len(lines) + 1
          /\ lines'[Len(lines) + 1] = line /\ DOMAIN lines' = 1..(Len(lines) + 1)
          /\ DOMAIN lines = 1..Len(lines)
          /\ \A i \in 1..Len(lines) : lines'[i] = lines[i]
      BY <3>1, Appended
    <3>4. FailuresLeaveNothing => Parses(lines')
      BY <1>n, <3>2, <3>3 DEF Inv, CleanInv, Parses
    <3>5. Len(lines) < events
      BY <2>6 DEF Inv, CountInv
    <3> QED BY <1>c, <1>n, <2>0, <2>2, <2>4, <3>3, <3>4, <3>5
  <2> QED BY <2>1, <2>3, <2>5, <2>6
<1>4. ASSUME NEW h \in Handles, Read(h)
      PROVE  Inv'
  <2>1. \A g \in Handles : ~Busy(g)
    BY <1>4 DEF Read
  <2>a. /\ newest' = {h}
        /\ handles' = [handles EXCEPT ![h] =
              [at |-> "opening", found |-> Len(lines), torn |-> torn]]
        /\ UNCHANGED <<lines, torn, snapshot, lease, granted, events, receipts, faults>>
    BY <1>4 DEF Read, Become
  <2>2. Len(lines) \in 0..MaxEvents
    BY <1>n DEF Inv, TypeOK, CountInv
  <2>b. handles'[h] = [at |-> "opening", found |-> Len(lines), torn |-> torn]
        /\ \A g \in Handles : g # h => handles'[g] = handles[g]
    BY <2>a DEF Inv, TypeOK
  <2>3. TypeOK'
    <3>1. handles' \in [Handles -> {Closed} \cup
       [at : {"opening"}, found : 0..MaxEvents, torn : BOOLEAN] \cup
       [at : {"ready", "saving"}, sequence : 0..MaxEvents] \cup
       [at : {"appending"}, sequence : 0..MaxEvents, event : 1..MaxEvents]]
      BY <2>a, <2>2 DEF Inv, TypeOK
    <3> QED BY <2>a, <3>1 DEF Inv, TypeOK
  <2>4. Alone' /\ CountInv' /\ CleanInv'
    BY <2>1, <2>a, <2>b
       DEF Inv, Alone, Busy, CountInv, CleanInv, Counting, FailuresLeaveNothing
  <2> QED BY <2>3, <2>4 DEF Inv
<1>s. ASSUME NEW h \in Handles, newest = {h}, NEW state,
             handles' = [handles EXCEPT ![h] = state],
             \/ /\ state \in [at : {"ready", "saving"}, sequence : 0..MaxEvents]
                /\ events' = events /\ Len(lines') <= events
             \/ /\ state \in [at : {"appending"}, sequence : 0..MaxEvents,
                              event : 1..MaxEvents]
                /\ events' = events + 1 /\ events < MaxEvents
                /\ Len(lines') <= events,
             UNCHANGED <<newest, lease, granted, faults>>,
             receipts' \subseteq 1..MaxEvents,
             lines' \in Seq(LineSet), torn' \in BOOLEAN, snapshot' \in Nat,
             snapshot' <= Len(lines'), state.sequence <= Len(lines'),
             FailuresLeaveNothing =>
               Parses(lines') /\ state.sequence = Len(lines') /\ ~torn'
      PROVE  Inv'
  <2>1. handles'[h] = state /\ \A g \in Handles : g # h => handles'[g] = handles[g]
    BY <1>s DEF Inv, TypeOK
  <2>2. \A g \in Handles : g # h => ~Busy(g)
    BY <1>s DEF Inv, Alone
  <2>3. TypeOK'
    <3>1. handles' \in [Handles -> {Closed} \cup
       [at : {"opening"}, found : 0..MaxEvents, torn : BOOLEAN] \cup
       [at : {"ready", "saving"}, sequence : 0..MaxEvents] \cup
       [at : {"appending"}, sequence : 0..MaxEvents, event : 1..MaxEvents]]
      BY <1>s DEF Inv, TypeOK
    <3>2. events' \in 0..MaxEvents /\ snapshot' \in 0..MaxEvents
      BY <1>s, <1>n DEF Inv, TypeOK
    <3> QED BY <1>s, <3>1, <3>2 DEF Inv, TypeOK, LineSet
  <2>4. Alone'
    BY <1>s, <2>1, <2>2 DEF Alone, Busy
  <2>5. CountInv'
    BY <1>s, <1>n, <2>1, <2>2 DEF CountInv, Counting, Busy
  <2>6. CleanInv'
    BY <1>s, <2>1 DEF CleanInv, Counting, FailuresLeaveNothing
  <2> QED BY <2>3, <2>4, <2>5, <2>6 DEF Inv
<1>5. ASSUME NEW h \in Handles, newest = {h}, NEW n \in 0..MaxEvents,
             handles' = [handles EXCEPT ![h] = Count(n)],
             UNCHANGED <<newest, lease, granted, faults, events>>,
             receipts' \subseteq 1..MaxEvents,
             lines' \in Seq(LineSet), torn' \in BOOLEAN, snapshot' \in Nat,
             Len(lines') <= events, snapshot' <= Len(lines'), n <= Len(lines'),
             FailuresLeaveNothing => Parses(lines') /\ n = Len(lines') /\ ~torn'
      PROVE  Inv'
  <2> DEFINE state == Count(n)
  <2>1. state \in [at : {"ready", "saving"}, sequence : 0..MaxEvents]
        /\ state.sequence = n
    BY DEF Count
  <2>2. handles' = [handles EXCEPT ![h] = state]
    BY <1>5
  <2> HIDE DEF state
  <2> QED BY <1>s, <1>5, <2>1, <2>2
<1>t. lines \in Seq(LineSet) /\ snapshot \in Nat /\ torn \in BOOLEAN
      /\ receipts \subseteq 1..MaxEvents /\ snapshot <= Len(lines) /\ Len(lines) <= events
      /\ (FailuresLeaveNothing => Parses(lines))
  BY DEF Inv, TypeOK, LineSet, CountInv, CleanInv
<1>6. ASSUME NEW h \in Handles, Repair(h)
      PROVE  Inv'
  <2>1. /\ newest = {h} /\ handles[h].found = Len(lines) /\ handles[h].torn = torn
        /\ Len(lines) \in 0..MaxEvents
    BY <1>6, <1>n DEF Repair, Inv, Alone, Busy, CountInv, TypeOK
  <2>2. SubSeq(lines, 1, Len(lines)) = lines
    BY <1>t
  <2>3. UNCHANGED lines /\ torn' = FALSE
    BY <1>6, <1>t, <2>1, <2>2 DEF Repair
  <2>4. handles' = [handles EXCEPT ![h] = Count(Len(lines))]
        /\ UNCHANGED <<snapshot, lease, granted, newest, events, receipts, faults>>
    BY <1>6, <2>1 DEF Repair, Become
  <2> DEFINE n == Len(lines)
  <2>5. /\ n \in 0..MaxEvents /\ n = Len(lines') /\ Len(lines') <= events
        /\ snapshot' \in Nat /\ snapshot' <= Len(lines') /\ lines' \in Seq(LineSet)
        /\ receipts' \subseteq 1..MaxEvents
        /\ FailuresLeaveNothing => Parses(lines')
    BY <1>t, <2>1, <2>3, <2>4
  <2> HIDE DEF n
  <2>6. handles' = [handles EXCEPT ![h] = Count(n)]
    BY <2>4 DEF n
  <2>7. torn' \in BOOLEAN /\ ~torn'
    BY <2>3, Zenon
  <2>8. n <= Len(lines')
    BY <1>n, <2>5
  <2>9. FailuresLeaveNothing => Parses(lines') /\ n = Len(lines') /\ ~torn'
    BY <2>5, <2>7
  <2> QED BY <1>5, <2>1, <2>4, <2>5, <2>6, <2>7, <2>8, <2>9
<1>r. ASSUME NEW h \in Handles, Ready(h), h \in newest
      PROVE  /\ newest = {h} /\ handles[h].sequence \in 0..MaxEvents
             /\ handles[h].sequence <= Len(lines)
             /\ FailuresLeaveNothing => handles[h].sequence = Len(lines) /\ ~torn
  <2>1. newest = {h}
    BY <1>r DEF Inv, TypeOK
  <2> QED BY <1>r, <2>1
       DEF Ready, Inv, TypeOK, Closed, CountInv, CleanInv, Counting
<1>7. ASSUME NEW h \in Handles, BeginAppend(h)
      PROVE  Inv'
  <2> DEFINE state == [at |-> "appending", sequence |-> handles[h].sequence,
                       event |-> events']
  <2>1. /\ h \in newest /\ Ready(h) /\ events < MaxEvents /\ events' = events + 1
        /\ handles' = [handles EXCEPT ![h] = state]
        /\ UNCHANGED <<lines, torn, snapshot, lease, granted, newest, receipts, faults>>
    BY <1>7 DEF BeginAppend, Become
  <2>2. /\ state \in [at : {"appending"}, sequence : 0..MaxEvents, event : 1..MaxEvents]
        /\ state.sequence = handles[h].sequence
    BY <1>n, <1>r, <2>1
  <2> HIDE DEF state
  <2> QED BY <1>s, <1>n, <1>r, <1>t, <2>1, <2>2
<1>a. ASSUME NEW h \in Handles, handles[h].at \in {"appending", "saving"}
      PROVE  /\ newest = {h} /\ handles[h].sequence \in 0..MaxEvents
             /\ handles[h].sequence <= Len(lines)
             /\ FailuresLeaveNothing => handles[h].sequence = Len(lines) /\ ~torn
  BY <1>a DEF Inv, Alone, Busy, TypeOK, Closed, CountInv, CleanInv, Counting
<1>8. ASSUME NEW h \in Handles, handles[h].at = "appending", lines' = Line(h)
      PROVE  /\ lines' \in Seq(LineSet) /\ Len(lines') = Len(lines) + 1
             /\ Len(lines') <= events
             /\ FailuresLeaveNothing => Parses(lines')
  <2> DEFINE line == IF torn THEN Garbage
                    ELSE [sequence |-> handles[h].sequence + 1,
                          event |-> handles[h].event]
  <2>1. line \in LineSet /\ lines' = Append(lines, line) /\ newest = {h}
    BY <1>8, LineTyped
  <2>2. FailuresLeaveNothing => line.sequence = Len(lines) + 1
    BY <1>8, <1>a
  <2> HIDE DEF line
  <2>3. /\ lines' \in Seq(LineSet) /\ Len(lines') = Len(lines) + 1
        /\ lines'[Len(lines) + 1] = line /\ DOMAIN lines' = 1..(Len(lines) + 1)
        /\ DOMAIN lines = 1..Len(lines)
        /\ \A i \in 1..Len(lines) : lines'[i] = lines[i]
    BY <2>1, Appended
  <2>4. FailuresLeaveNothing => Parses(lines')
    BY <1>n, <2>2, <2>3 DEF Inv, CleanInv, Parses
  <2>5. Len(lines) < events
    BY <1>8 DEF Inv, CountInv
  <2> QED BY <1>n, <2>3, <2>4, <2>5
<1>9. ASSUME NEW h \in Handles, EndAppend(h)
      PROVE  Inv'
  <2>1. /\ handles[h].at = "appending" /\ lines' = Line(h) /\ torn' = FALSE
        /\ receipts' = receipts \cup {handles[h].event}
        /\ handles' = [handles EXCEPT ![h] = Count(handles[h].sequence + 1)]
        /\ UNCHANGED <<snapshot, lease, granted, newest, events, faults>>
    BY <1>9 DEF EndAppend, Become
  <2>2. handles[h].event \in 1..MaxEvents
    BY <2>1, LineTyped
  <2>3. /\ lines' \in Seq(LineSet) /\ Len(lines') = Len(lines) + 1
        /\ Len(lines') <= events /\ (FailuresLeaveNothing => Parses(lines'))
    BY <1>8, <2>1
  <2> DEFINE n == handles[h].sequence + 1
  <2>4. /\ n \in 0..MaxEvents /\ n <= Len(lines')
        /\ FailuresLeaveNothing => n = Len(lines')
    BY <1>a, <1>n, <2>1, <2>3 DEF Inv, TypeOK
  <2>5. newest = {h} /\ snapshot' \in Nat /\ snapshot' <= Len(lines')
    BY <1>a, <1>n, <1>t, <2>1, <2>3
  <2> HIDE DEF n
  <2>6. handles' = [handles EXCEPT ![h] = Count(n)]
    BY <2>1 DEF n
  <2> QED BY <1>5, <1>t, <2>1, <2>2, <2>3, <2>4, <2>5, <2>6
<1>10. ASSUME NEW h \in Handles, AppendFails(h)
       PROVE  Inv'
  <2>1. /\ handles[h].at = "appending"
        /\ handles' = [handles EXCEPT ![h] = Count(handles[h].sequence)]
        /\ UNCHANGED <<snapshot, lease, granted, newest, events, receipts, faults>>
    BY <1>10 DEF AppendFails, Become
  <2>2. CASE UNCHANGED <<lines, torn>>
    BY <1>5, <1>a, <1>t, <2>1, <2>2
  <2>3. CASE ~FailuresLeaveNothing /\ torn' = TRUE /\ UNCHANGED lines
    BY <1>5, <1>a, <1>t, <2>1, <2>3
  <2>4. CASE ~FailuresLeaveNothing /\ lines' = Line(h) /\ torn' = FALSE
    <3>1. /\ lines' \in Seq(LineSet) /\ Len(lines') = Len(lines) + 1
          /\ Len(lines') <= events
      BY <1>8, <2>1, <2>4
    <3>2. /\ newest = {h} /\ handles[h].sequence \in 0..MaxEvents
          /\ handles[h].sequence <= Len(lines')
          /\ snapshot' \in Nat /\ snapshot' <= Len(lines')
      BY <1>a, <1>n, <1>t, <2>1, <3>1
    <3> QED BY <1>5, <1>t, <2>1, <2>4, <3>1, <3>2
  <2> QED BY <1>10, <2>2, <2>3, <2>4 DEF AppendFails, FailuresLeaveNothing
<1>11. ASSUME NEW h \in Handles, BeginSave(h)
       PROVE  Inv'
  <2> DEFINE state == [at |-> "saving", sequence |-> handles[h].sequence]
  <2>1. /\ h \in newest /\ Ready(h) /\ handles' = [handles EXCEPT ![h] = state]
        /\ UNCHANGED <<lines, torn, snapshot, lease, granted, newest, events, receipts,
                       faults>>
    BY <1>11 DEF BeginSave, Become
  <2>2. /\ state \in [at : {"ready", "saving"}, sequence : 0..MaxEvents]
        /\ state.sequence = handles[h].sequence
    BY <1>r, <2>1
  <2> HIDE DEF state
  <2> QED BY <1>s, <1>n, <1>r, <1>t, <2>1, <2>2
<1>12. ASSUME NEW h \in Handles, EndSave(h)
       PROVE  Inv'
  <2>1. /\ handles[h].at = "saving"
        /\ handles' = [handles EXCEPT ![h] = Count(handles[h].sequence)]
        /\ snapshot' \in {snapshot, handles[h].sequence}
        /\ UNCHANGED <<lines, torn, lease, granted, newest, events, receipts, faults>>
    BY <1>12 DEF EndSave, Become
  <2>2. /\ newest = {h} /\ handles[h].sequence \in 0..MaxEvents
        /\ handles[h].sequence <= Len(lines)
        /\ FailuresLeaveNothing => handles[h].sequence = Len(lines) /\ ~torn
    BY <1>a, <2>1
  <2>3. snapshot' \in Nat /\ snapshot' <= Len(lines)
    BY <1>t, <2>1, <2>2
  <2> QED BY <1>5, <1>t, <2>1, <2>2, <2>3
<1>13. CASE UNCHANGED vars
  BY <1>13 DEF vars, Inv, TypeOK, Alone, Busy, CountInv, CleanInv, Counting,
               FailuresLeaveNothing
<1> QED
  BY <1>1, <1>2, <1>3, <1>4, <1>6, <1>7, <1>9, <1>10, <1>11, <1>12, <1>13 DEF Next

(* Where operations under a lease do not overlap, the invariant holds.     *)
LEMMA Invariant == ASSUME ~Shared PROVE Spec => []Inv
<1>1. Inv /\ [Next]_vars => Inv'
  BY StepInv
<1> QED BY InitInv, <1>1, PTL DEF Spec

(* Where a write that fails in a process that lives on has written         *)
(* nothing, and operations under a lease do not overlap, every complete    *)
(* line is an event under the next number, so parseJournal accepts the     *)
(* file, whoever died in the middle of a write or of the repair of one.    *)
THEOREM ReadableAgain == ASSUME ~Shared PROVE Spec => []JournalReadable
<1>1. Inv => JournalReadable
  BY DEF Inv, CleanInv, JournalReadable
<1> QED BY <1>1, Invariant, PTL

(* Whatever failing writes leave, the snapshot claims no event that is not *)
(* in the file: an object counts no more lines than there are, and what it *)
(* saves is its count.                                                     *)
THEOREM SnapshotCovered == ASSUME ~Shared PROVE Spec => []SnapshotWithinJournal
<1>1. Inv => SnapshotWithinJournal
  BY DEF Inv, CountInv, SnapshotWithinJournal
<1> QED BY <1>1, Invariant, PTL

\* what a reader of the file sees
Events(s) == [i \in DOMAIN s |-> s[i].event]

(* They are as many as the lines, in their order.                          *)
LEMMA EventsOf ==
  ASSUME NEW q \in Seq(LineSet)
  PROVE  /\ Events(q) \in Seq(0..MaxEvents) /\ Len(Events(q)) = Len(q)
         /\ \A i \in 1..Len(q) : Events(q)[i] = q[i].event
<1>1. \A i \in 1..Len(q) : q[i].event \in 0..MaxEvents
  BY JournalAssumption DEF LineSet, Garbage
<1>2. Len(q) \in Nat /\ Events(q) = [i \in 1..Len(q) |-> q[i].event]
  BY DEF Events
<1> QED BY <1>1, <1>2

(* A sequence with one element more: what it was, and that element.        *)
LEMMA AllButLast ==
  ASSUME NEW S, NEW s \in Seq(S), NEW t \in Seq(S), Len(t) = Len(s) + 1,
         \A i \in 1..Len(s) : t[i] = s[i]
  PROVE  Front(t) = s /\ Last(t) = t[Len(s) + 1]
<1>1. Len(s) \in Nat /\ Len(t) - 1 = Len(s) /\ \A i \in 1..Len(s) : t[i] \in S
  OBVIOUS
<1>2. /\ SubSeq(t, 1, Len(s)) \in Seq(S) /\ Len(SubSeq(t, 1, Len(s))) = Len(s)
      /\ \A i \in 1..Len(s) : SubSeq(t, 1, Len(s))[i] = t[i]
  <2>1. /\ SubSeq(t, 1, Len(s)) \in Seq(S)
        /\ Len(SubSeq(t, 1, Len(s))) = IF 1 <= Len(s) THEN Len(s) - 1 + 1 ELSE 0
        /\ \A i \in 1..(Len(s) - 1 + 1) : SubSeq(t, 1, Len(s))[i] = t[1 + i - 1]
    BY <1>1, SubSeqProperties
  <2> QED BY <1>1, <2>1
<1>3. SubSeq(t, 1, Len(s)) = s
  BY <1>2, SeqEqual
<1> QED BY <1>1, <1>3 DEF Front, Last

(* A line more is an event more, and the others stay.                      *)
LEMMA EventsAdded ==
  ASSUME Inv, NEW line \in LineSet, lines' = Append(lines, line)
  PROVE  /\ Len(Events(lines')) = Len(Events(lines)) + 1
         /\ Events(lines) = Front(Events(lines'))
         /\ Last(Events(lines')) = line.event
<1>1. /\ Len(lines) \in Nat /\ lines \in Seq(LineSet) /\ lines' \in Seq(LineSet)
      /\ Len(lines') = Len(lines) + 1 /\ lines'[Len(lines) + 1] = line
      /\ \A i \in 1..Len(lines) : lines'[i] = lines[i]
  BY Appended DEF Inv, TypeOK, LineSet
<1>2. /\ Events(lines) \in Seq(0..MaxEvents) /\ Len(Events(lines)) = Len(lines)
      /\ \A i \in 1..Len(lines) : Events(lines)[i] = lines[i].event
  BY <1>1, EventsOf
<1>3. /\ Events(lines') \in Seq(0..MaxEvents) /\ Len(Events(lines')) = Len(lines')
      /\ \A i \in 1..Len(lines') : Events(lines')[i] = lines'[i].event
  BY <1>1, EventsOf
<1>4. /\ Events(lines')[Len(lines) + 1] = line.event
      /\ \A i \in 1..Len(lines) : Events(lines')[i] = Events(lines)[i]
  BY <1>1, <1>2, <1>3
<1> QED BY <1>1, <1>2, <1>3, <1>4, AllButLast

(* The file implements the log: no write, repair or death takes back an    *)
(* event a reader could see or an append has confirmed.  A repair cuts     *)
(* nothing but the unfinished line, for no line was added since its object *)
(* looked (CountInv); what a death leaves of an append is the next event   *)
(* (CleanInv).                                                             *)
THEOREM LogRefinement == ASSUME ~Shared PROVE Spec => ImplementsLog
<1>1. Init => Log!Init
  <2> SUFFICES ASSUME Init PROVE Log!Init
    OBVIOUS
  <2>1. lines = <<>> /\ receipts = {} /\ snapshot = 0
    BY DEF Init
  <2> QED BY <2>1 DEF Log!Init
<1>2. Inv /\ [Next]_vars => [Log!Next \/ ~FailuresLeaveNothing]_(Log!vars)
  <2> SUFFICES ASSUME Inv, [Next]_vars, FailuresLeaveNothing
               PROVE  Log!Next \/ UNCHANGED Log!vars
    OBVIOUS
  <2>a. UNCHANGED <<lines, receipts, snapshot>> => UNCHANGED Log!vars
    BY DEF Log!vars
  <2>b. Log!vars = <<Events(lines), receipts, snapshot>>
    BY DEF Log!vars, Events
  <2>c. ASSUME NEW h \in Handles, handles[h].at = "appending", lines' = Line(h),
               receipts' \in {receipts, receipts \cup {handles[h].event}},
               UNCHANGED snapshot
        PROVE  Log!Next
    <3>1. newest = {h} /\ ~torn
      BY <2>c DEF Inv, Alone, Busy, CleanInv, Counting
    <3> DEFINE line == [sequence |-> handles[h].sequence + 1,
                        event |-> handles[h].event]
    <3>2. line \in LineSet /\ lines' = Append(lines, line)
      BY <2>c, <3>1, LineTyped
    <3>3. line.event = handles[h].event
      OBVIOUS
    <3> HIDE DEF line
    <3>4. /\ Len(Events(lines')) = Len(Events(lines)) + 1
          /\ Events(lines) = Front(Events(lines'))
          /\ Last(Events(lines')) = handles[h].event
      BY <3>2, <3>3, EventsAdded
    <3>5. Log!Add
      BY <2>c, <3>4 DEF Log!Add, Log!Front, Log!Last, Front, Last, Events
    <3> QED BY <3>5 DEF Log!Next
  <2>d. ASSUME UNCHANGED <<lines, receipts>>, snapshot' \in 0..Len(lines)
        PROVE  Log!Next
    <3>1. Len(Events(lines)) = Len(lines)
      BY EventsOf DEF Inv, TypeOK, LineSet
    <3>2. Log!Cover
      BY <2>d, <3>1 DEF Log!Cover, Events
    <3> QED BY <3>2 DEF Log!Next
  <2>t. snapshot \in 0..Len(lines) /\ lines \in Seq(LineSet) /\ Len(lines) \in Nat
    BY DEF Inv, TypeOK, LineSet, CountInv
  <2>1. CASE Crash
    <3>1. PICK done \in SUBSET {h \in Handles : Busy(h)} :
            LET of(place) == {h \in done : handles[h].at = place}
                cut == {handles[h].found : h \in {g \in of("opening") : handles[g].torn}}
                written == of("appending")
                saved == {handles[h].sequence : h \in of("saving")}
            IN
            /\ \/ /\ written = {} /\ cut = {} /\ UNCHANGED lines
               \/ /\ cut # {}
                  /\ \E n \in cut : lines' = SubSeq(lines, 1, n)
               \/ /\ written # {}
                  /\ \E h \in written : lines' = Line(h)
            /\ snapshot' \in IF saved = {} THEN {snapshot} ELSE saved
      BY <2>1 DEF Crash, Line
    <3> DEFINE of(place) == {h \in done : handles[h].at = place}
               cut == {handles[h].found : h \in {g \in of("opening") : handles[g].torn}}
               written == of("appending")
               saved == {handles[h].sequence : h \in of("saving")}
    <3>2. \A n \in cut : SubSeq(lines, 1, n) = lines
      <4>1. SUFFICES ASSUME NEW h \in Handles, handles[h].at = "opening"
                     PROVE  SubSeq(lines, 1, handles[h].found) = lines
        BY <3>1
      <4>2. handles[h].found = Len(lines)
        BY <4>1 DEF Inv, Alone, Busy, CountInv
      <4> QED BY <2>t, <4>2
    <3>3. snapshot' \in 0..Len(lines)
      <4>1. ASSUME NEW h \in Handles, handles[h].at = "saving", snapshot' = handles[h].sequence
            PROVE  snapshot' \in 0..Len(lines)
        BY <4>1, <2>t DEF Inv, TypeOK, Closed, Alone, Busy, CountInv, Counting
      <4> QED BY <2>t, <3>1, <4>1
    <3>4. UNCHANGED receipts
      BY <2>1 DEF Crash
    <3>5. CASE UNCHANGED lines
      BY <2>d, <3>3, <3>4, <3>5
    <3>6. ASSUME NEW h \in written, lines' = Line(h)
          PROVE  Log!Next
      <4>1. newest = {h} /\ handles[h].at = "appending" /\ h \in Handles
        BY <3>6 DEF Inv, Alone, Busy
      <4>2. saved = {}
        BY <4>1 DEF Inv, Alone, Busy
      <4>3. UNCHANGED snapshot
        BY <3>1, <4>2
      <4> QED BY <2>c, <3>4, <3>6, <4>1, <4>3
    <3> QED BY <3>1, <3>2, <3>5, <3>6
  <2>2. ASSUME NEW h \in Handles, Repair(h)
        PROVE  UNCHANGED Log!vars
    <3>1. handles[h].found = Len(lines)
      BY <2>2 DEF Repair, Inv, Alone, Busy, CountInv
    <3>2. SubSeq(lines, 1, Len(lines)) = lines
      BY <2>t
    <3> QED BY <2>2, <2>a, <3>1, <3>2 DEF Repair
  <2>3. ASSUME NEW h \in Handles, EndAppend(h)
        PROVE  Log!Next
    BY <2>3, <2>c DEF EndAppend
  <2>4. ASSUME NEW h \in Handles, AppendFails(h)
        PROVE  UNCHANGED Log!vars
    BY <2>4, <2>a DEF AppendFails, FailuresLeaveNothing
  <2>5. ASSUME NEW h \in Handles, EndSave(h)
        PROVE  Log!Next
    <3>1. handles[h].sequence \in 0..Len(lines)
      BY <2>5, <2>t DEF EndSave, Inv, TypeOK, Closed, Alone, Busy, CountInv, Counting
    <3> QED BY <2>5, <2>d, <2>t, <3>1 DEF EndSave
  <2>6. ASSUME \/ Grant \/ Release \/ UNCHANGED vars
               \/ \E h \in Handles : Read(h) \/ BeginAppend(h) \/ BeginSave(h)
        PROVE  UNCHANGED Log!vars
    BY <2>6, <2>a DEF Grant, Release, vars, file, Read, BeginAppend, BeginSave
  <2> QED BY <2>1, <2>2, <2>3, <2>4, <2>5, <2>6 DEF Next
<1> QED BY <1>1, <1>2, Invariant, PTL DEF Spec, ImplementsLog

------------------------------------------------------------------------------
(* The lease (RunLease), whose state is apart from the above.              *)
(* The port is what makes it exclusive.  ExclusiveInv says that whoever is     *)
(* past bind owns the port (PortInv), hence nobody else writes the record, *)
(* hence what a seat read (ReadInv) or wrote (HeldInv) is still there;     *)
(* what is in flight belongs to that seat only if callers wait for it      *)
(* (FlightInv).                                                            *)

PortInv == \A s \in Seats : pc[s] # "idle" => port = s
ReadInv == \A s \in Seats : pc[s] = "read" => existing[s] = record.generation
HeldInv ==
  \A s \in Seats : pc[s] = "held" => record = leases[s] /\ record.seat = s
OrderInv == committed <= record.generation
FlightInv ==
  \A w \in inflight : w.seat \in Seats /\ pc[w.seat] = "held" /\ w = record

ExclusiveInv ==
  /\ PortInv
  /\ ReadInv
  /\ HeldInv
  /\ CallersAwait => OrderInv /\ FlightInv

(* Every variable keeps its type: no step invents a seat or a generation   *)
(* beyond the bound.                                                       *)
THEOREM LeaseTyped == LeaseSpec => []LeaseTypeOK
<1>1. LeaseInit => LeaseTypeOK
  BY BoundAssumption DEF LeaseInit, LeaseTypeOK, NoRecord, Records, Generations
<1>2. LeaseTypeOK /\ [LeaseNext]_leaseVars => LeaseTypeOK'
  <2> SUFFICES ASSUME LeaseTypeOK, [LeaseNext]_leaseVars PROVE LeaseTypeOK'
    OBVIOUS
  <2> USE DEF LeaseTypeOK
  <2>1. ASSUME NEW s \in Seats, Bind(s) PROVE LeaseTypeOK'
    BY <2>1 DEF Bind
  <2>2. ASSUME NEW s \in Seats, ReadRecord(s) PROVE LeaseTypeOK'
    BY <2>2 DEF ReadRecord, Records
  <2>3. ASSUME NEW s \in Seats, WriteRecord(s) PROVE LeaseTypeOK'
    <3>1. existing[s] + 1 \in Generations
      BY <2>3, BoundAssumption DEF WriteRecord, Generations
    <3>2. record' \in Records
      BY <2>3, <3>1 DEF WriteRecord, Records
    <3> QED
      BY <2>3, <3>2 DEF WriteRecord
  <2>4. ASSUME NEW s \in Seats, AcquireFails(s) PROVE LeaseTypeOK'
    BY <2>4 DEF AcquireFails
  <2>5. ASSUME NEW s \in Seats, Guard(s) PROVE LeaseTypeOK'
    BY <2>5 DEF Guard
  <2>6. ASSUME NEW s \in Seats, ReleaseLease(s) PROVE LeaseTypeOK'
    BY <2>6 DEF ReleaseLease
  <2>7. ASSUME NEW s \in Seats, Die(s) PROVE LeaseTypeOK'
    BY <2>7 DEF Die
  <2>8. ASSUME NEW w \in inflight, Commit(w) PROVE LeaseTypeOK'
    BY <2>8 DEF Commit, Records
  <2>9. CASE UNCHANGED leaseVars
    BY <2>9 DEF leaseVars
  <2> QED
    BY <2>1, <2>2, <2>3, <2>4, <2>5, <2>6, <2>7, <2>8, <2>9 DEF LeaseNext
<1> QED
  BY <1>1, <1>2, PTL DEF LeaseSpec

(* Nobody has the port when the store is new.                              *)
LEMMA InitExclusive == LeaseInit => ExclusiveInv
  BY DEF LeaseInit, ExclusiveInv, PortInv, ReadInv, HeldInv, OrderInv, FlightInv,
     NoRecord

(* A step preserves the invariant: only the owner of the port writes.      *)
LEMMA NextExclusive ==
  LeaseTypeOK /\ LeaseTypeOK' /\ ExclusiveInv /\ [LeaseNext]_leaseVars
    => ExclusiveInv'
<1> SUFFICES ASSUME LeaseTypeOK, LeaseTypeOK', ExclusiveInv,
                    [LeaseNext]_leaseVars
             PROVE  ExclusiveInv'
  OBVIOUS
<1> USE DEF ExclusiveInv, PortInv, ReadInv, HeldInv, OrderInv, FlightInv
<1>1. ASSUME NEW s \in Seats, Bind(s) PROVE ExclusiveInv'
  <2>1. \A t \in Seats : pc[t] = "idle"
    BY <1>1, SeatsAssumption DEF Bind
  <2>2. PortInv' /\ ReadInv' /\ HeldInv'
    BY <1>1, <2>1 DEF Bind, LeaseTypeOK
  <2>3. CallersAwait => OrderInv' /\ FlightInv'
    BY <1>1, <2>1 DEF Bind, LeaseTypeOK
  <2> QED
    BY <2>2, <2>3
<1>2. ASSUME NEW s \in Seats, ReadRecord(s) PROVE ExclusiveInv'
  BY <1>2 DEF ReadRecord, LeaseTypeOK
<1>3. ASSUME NEW s \in Seats, WriteRecord(s) PROVE ExclusiveInv'
  <2>1. \A t \in Seats : t # s => pc[t] = "idle"
    BY <1>3 DEF WriteRecord
  <2>2. PortInv' /\ ReadInv' /\ HeldInv'
    BY <1>3, <2>1 DEF WriteRecord, LeaseTypeOK
  <2>3. CallersAwait => inflight = {}
    BY <1>3, <2>1 DEF WriteRecord
  <2>4. CallersAwait => OrderInv' /\ FlightInv'
    BY <1>3, <2>3, BoundAssumption
      DEF WriteRecord, LeaseTypeOK, Records, Generations
  <2> QED
    BY <2>2, <2>4
<1>4. ASSUME NEW s \in Seats, AcquireFails(s) PROVE ExclusiveInv'
  BY <1>4 DEF AcquireFails, LeaseTypeOK
<1>5. ASSUME NEW s \in Seats, Guard(s) PROVE ExclusiveInv'
  <2>1. PortInv' /\ ReadInv' /\ HeldInv' /\ (CallersAwait => OrderInv')
    BY <1>5 DEF Guard
  <2>2. CallersAwait => FlightInv'
    BY <1>5 DEF Guard
  <2> QED
    BY <2>1, <2>2
<1>6. ASSUME NEW s \in Seats, ReleaseLease(s) PROVE ExclusiveInv'
  BY <1>6 DEF ReleaseLease, LeaseTypeOK
<1>7. ASSUME NEW s \in Seats, Die(s) PROVE ExclusiveInv'
  BY <1>7 DEF Die, LeaseTypeOK
<1>8. ASSUME NEW w \in inflight, Commit(w) PROVE ExclusiveInv'
  <2>1. PortInv' /\ ReadInv' /\ HeldInv'
    BY <1>8 DEF Commit
  <2>2. CallersAwait => OrderInv' /\ FlightInv'
    BY <1>8, BoundAssumption DEF Commit, LeaseTypeOK, Records, Generations
  <2> QED
    BY <2>1, <2>2
<1>9. CASE UNCHANGED leaseVars
  BY <1>9 DEF leaseVars
<1> QED
  BY <1>1, <1>2, <1>3, <1>4, <1>5, <1>6, <1>7, <1>8, <1>9 DEF LeaseNext

(* Hence it always holds.                                                  *)
LEMMA Exclusive == LeaseSpec => []ExclusiveInv
<1> QED
  BY InitExclusive, NextExclusive, LeaseTyped, PTL DEF LeaseSpec

(* A seat that has finished acquireRunLease passes assertCurrent until it  *)
(* releases the lease or dies.                                             *)
THEOREM HolderKeepsLease == LeaseSpec => []HolderStaysCurrent
<1>1. ExclusiveInv => HolderStaysCurrent
  BY DEF ExclusiveInv, PortInv, HeldInv, HolderStaysCurrent, Current
<1> QED
  BY <1>1, Exclusive, PTL

(* If callers wait for their guarded side effects before they release, no  *)
(* side effect in flight is older than the record (assertCurrent in every  *)
(* journal, artifact and worktree mutation).                               *)
THEOREM AwaitedWritersAreCurrent ==
  ASSUME CallersAwait PROVE LeaseSpec => []NoStaleWriter
<1>1. ExclusiveInv => NoStaleWriter
  BY CallersAwait DEF ExclusiveInv, FlightInv, NoStaleWriter
<1> QED
  BY <1>1, Exclusive, PTL

(* ... and side effects reach the disk in generation order.                *)
THEOREM AwaitedCommitsInOrder ==
  ASSUME CallersAwait PROVE LeaseSpec => CommitsInOrder
<1>1. LeaseTypeOK /\ ExclusiveInv /\ [LeaseNext]_leaseVars
        => [committed' >= committed]_leaseVars
  <2> SUFFICES ASSUME LeaseTypeOK, ExclusiveInv, LeaseNext
               PROVE  committed' >= committed
    OBVIOUS
  <2>1. committed' \in {committed, record.generation}
    BY CallersAwait
      DEF ExclusiveInv, FlightInv, LeaseNext, Bind, ReadRecord, WriteRecord,
          AcquireFails, Guard, ReleaseLease, Die, Commit
  <2> QED
    BY <2>1, CallersAwait, BoundAssumption
      DEF ExclusiveInv, OrderInv, LeaseTypeOK, Records, Generations
<1> QED
  BY <1>1, Exclusive, LeaseTyped, PTL DEF LeaseSpec, CommitsInOrder

(* The lease implements the fenced grant: a grant needs a free run and     *)
(* takes the next generation, whatever acquisitions failed or died half    *)
(* way, and only the holder commits.                                       *)
THEOREM LeaseRefinement ==
  ASSUME CallersAwait PROVE LeaseSpec => ImplementsFencedLease
<1> USE DEF Holder
<1>1. LeaseInit => Fenced!Init
  BY DEF LeaseInit, Fenced!Init, NoRecord
<1>2. LeaseTypeOK /\ ExclusiveInv /\ [LeaseNext]_leaseVars => [Fenced!Next]_Fenced!vars
  <2> SUFFICES ASSUME LeaseTypeOK, ExclusiveInv, [LeaseNext]_leaseVars
               PROVE  [Fenced!Next]_Fenced!vars
    OBVIOUS
  <2> USE DEF ExclusiveInv, PortInv, Fenced!vars
  <2>1. ASSUME NEW s \in Seats, Bind(s) PROVE UNCHANGED Fenced!vars
    BY <2>1, SeatsAssumption DEF Bind, LeaseTypeOK
  <2>2. ASSUME NEW s \in Seats, ReadRecord(s) PROVE UNCHANGED Fenced!vars
    BY <2>2 DEF ReadRecord, LeaseTypeOK
  <2>3. ASSUME NEW s \in Seats, WriteRecord(s) PROVE Fenced!Grant(s)
    BY <2>3, SeatsAssumption DEF WriteRecord, LeaseTypeOK, ReadInv, Fenced!Grant
  <2>4. ASSUME NEW s \in Seats, AcquireFails(s) PROVE UNCHANGED Fenced!vars
    BY <2>4 DEF AcquireFails, LeaseTypeOK
  <2>5. ASSUME NEW s \in Seats, Guard(s) PROVE UNCHANGED Fenced!vars
    BY <2>5 DEF Guard
  <2>6. ASSUME NEW s \in Seats, ReleaseLease(s) PROVE Fenced!Revoke
    BY <2>6, SeatsAssumption DEF ReleaseLease, LeaseTypeOK, Fenced!Revoke
  <2>7. ASSUME NEW s \in Seats, Die(s)
        PROVE  Fenced!Revoke \/ UNCHANGED Fenced!vars
    <3>1. CASE pc[s] = "held"
      BY <2>7, <3>1, SeatsAssumption DEF Die, LeaseTypeOK, Fenced!Revoke
    <3>2. CASE pc[s] # "held"
      BY <2>7, <3>2, SeatsAssumption DEF Die, LeaseTypeOK
    <3> QED
      BY <3>1, <3>2
  <2>8. ASSUME NEW w \in inflight, Commit(w) PROVE Fenced!Commit
    BY <2>8, CallersAwait, SeatsAssumption
      DEF Commit, FlightInv, Fenced!Commit, LeaseTypeOK
  <2>9. CASE UNCHANGED leaseVars
    BY <2>9 DEF leaseVars
  <2> QED
    BY <2>1, <2>2, <2>3, <2>4, <2>5, <2>6, <2>7, <2>8, <2>9
      DEF LeaseNext, Fenced!Next
<1> QED
  BY <1>1, <1>2, Exclusive, LeaseTyped, PTL
    DEF LeaseSpec, ImplementsFencedLease, Fenced!Spec
==============================================================================
