---------------------------- MODULE RequestsProofs ----------------------------
(***************************************************************************)
(* Theorems about Requests, for any callers, identifiers, texts and        *)
(* bounds: what one identifier stands for, what its receipts say, and that *)
(* an aborted tool call leaves no active run behind.                       *)
(*                                                                         *)
(* The control calls and the tool share only the index and the objects:    *)
(* Inv has one part for each, and a step of one leaves the other's alone.  *)
(* A receipt is kept for good because the one call that executes is the    *)
(* first of its object's tail, so nobody answers beside it.                *)
(***************************************************************************)
EXTENDS Requests, TLAPS

\* the call that executes is the first of its tail and nobody was answered
\* under its identifier
Heads ==
  \A c \in Controls : phase[c] \in Executing =>
    /\ tails[call[c].at] # <<>> /\ Head(tails[call[c].at]) = c
    /\ receipts[call[c].at][call[c].operation] = "none"

\* a call has an object; its text reaches a session when it executes
Reached ==
  /\ \A c \in Controls : phase[c] # "idle" => call[c].at \in Objects
  /\ \A c \in reached : phase[c] \in Executing \cup {"done", "rejected", "lost"}
  /\ \A c \in Controls : phase[c] = "accepting" => c \in reached

\* an answer is the receipt the object keeps
Kept ==
  \A c \in Controls : phase[c] = "done" =>
    /\ receipt[c] # "none"
    /\ receipts[call[c].at][call[c].operation] = receipt[c]

\* whoever got past the claim has the text of the index
Indexed ==
  \A c \in Controls : phase[c] \in {"joined", "done"} \cup Executing \/ c \in reached =>
    index[call[c].operation] = call[c].text

\* an accepted operation is in the journal and reached the session
Filed ==
  \A n \in Objects, o \in Operations : receipts[n][o] = "accepted-by-session" =>
    /\ <<n, o>> \in events
    /\ \E d \in reached : call[d].at = n /\ call[d].operation = o

ControlInv == Heads /\ Reached /\ Kept /\ Indexed /\ Filed /\ ReceiptsHold

\* only the last object is not over, and a retry starts when that one is too
Latest ==
  /\ \A n \in Objects : n # runs => object[n].status = "over"
  /\ exclusive = "launch" => runs = 0
  /\ exclusive = "retry" => runs \in Objects /\ object[runs].status = "over"
  /\ tool = "launched" => runs \in Objects
  /\ tool = "waiting" => waitsOn \in Objects /\ waitsOn <= runs

ToolInv == Latest /\ AbortedRunStops

Inv == TypeOK /\ ControlInv /\ ToolInv

USE DEF Objects, Requested, States, Executing, Pending, Waiting

------------------------------------------------------------------------------
(* Types.                                                                  *)

LEMMA TypeInit == Init => TypeOK
<1>1. Init => \A n \in Objects : tails[n] \in Seq(Controls)
  BY DEF Init
<1>2. Init => tails \in [Objects -> Seq(Controls)]
  BY <1>1 DEF Init
<1>3. Init => phase \in [Controls ->
       {"idle", "conflict", "done", "rejected", "lost"} \cup Pending]
  BY DEF Init
<1>4. Init => call \in [Controls -> [operation : Operations, text : Requested,
                            at : 0..MaxObjects]]
  BY OperationsAssumption, BoundsAssumption DEF Init, NoCall
<1>5. Init => object \in [Objects -> [status : {"active", "stopping", "over"},
                             stage : {"booting", "running", "ended"},
                             lease : BOOLEAN]]
  BY DEF Init, NoObject
<1>6. Init => receipts \in [Objects -> [Operations -> States \cup {"none"}]]
  BY DEF Init
<1>7. Init => index \in [Operations -> Requested \cup {None, Other}]
  BY DEF Init
<1>8. Init => /\ runs \in 0..MaxObjects /\ waitsOn \in 0..MaxObjects
              /\ faults \in 0..MaxFaults /\ crashes \in 0..MaxCrashes
  BY BoundsAssumption DEF Init
<1>9. Init => receipt \in [Controls -> States \cup {"none"}]
  BY DEF Init
<1> QED BY <1>2, <1>3, <1>4, <1>5, <1>6, <1>7, <1>8, <1>9 DEF Init, TypeOK

(* The tail of a queue with a first call is a queue.                       *)
LEMMA Popped ==
  ASSUME TypeOK, NEW n \in Objects, tails[n] # <<>>
  PROVE  [tails EXCEPT ![n] = Tail(@)] \in [Objects -> Seq(Controls)]
<1>1. tails[n] \in Seq(Controls)
  BY DEF TypeOK
<1>2. Tail(tails[n]) \in Seq(Controls)
  BY <1>1
<1> QED BY <1>2 DEF TypeOK

(* An answer is well-typed.                                                *)
LEMMA AnswerTyped ==
  ASSUME TypeOK, NEW c \in Controls, NEW s \in States, call[c].at \in Objects,
         tails[call[c].at] # <<>>, Answer(c, s)
  PROVE  /\ receipts' \in [Objects -> [Operations -> States \cup {"none"}]]
         /\ receipt' \in [Controls -> States \cup {"none"}]
         /\ phase' \in [Controls ->
              {"idle", "conflict", "done", "rejected", "lost"} \cup Pending]
         /\ tails' \in [Objects -> Seq(Controls)]
<1>1. call[c].operation \in Operations
  BY DEF TypeOK
<1>2. [receipts[call[c].at] EXCEPT ![call[c].operation] = s]
        \in [Operations -> States \cup {"none"}]
  BY <1>1 DEF TypeOK
<1>3. receipts' \in [Objects -> [Operations -> States \cup {"none"}]]
  BY <1>2 DEF Answer, TypeOK
<1>4. tails' \in [Objects -> Seq(Controls)]
  BY Popped DEF Answer
<1>5. receipt' \in [Controls -> States \cup {"none"}]
  BY DEF Answer, TypeOK
<1>6. phase' \in [Controls ->
       {"idle", "conflict", "done", "rejected", "lost"} \cup Pending]
  BY DEF Answer, TypeOK
<1> QED BY <1>3, <1>4, <1>5, <1>6

(* A step of a control call keeps the types.                               *)
LEMMA ControlTypes ==
  ASSUME TypeOK, Heads, Reached, NEW c \in Controls, Control(c)
  PROVE  TypeOK'
<1>1. ASSUME NEW ask \in Asks, Call(c, ask[1], ask[2]) PROVE TypeOK'
  <2>1. ask[1] \in Operations /\ ask[2] \in Texts
    BY AsksAssumption
  <2>2. call' \in [Controls -> [operation : Operations, text : Requested,
                               at : 0..MaxObjects]]
    BY <1>1, <2>1 DEF Call, TypeOK
  <2>3. phase' \in [Controls ->
          {"idle", "conflict", "done", "rejected", "lost"} \cup Pending]
    BY <1>1 DEF Call, TypeOK
  <2> QED BY <1>1, <2>2, <2>3 DEF Call, TypeOK, tooling, extension, bounds
<1>2. CASE Claim(c)
  <2>1. call[c].at \in Objects /\ call[c].operation \in Operations
        /\ call[c].text \in Requested
    BY <1>2 DEF Claim, Reached, TypeOK
  <2>2. tails[call[c].at] \in Seq(Controls)
    BY <2>1 DEF TypeOK
  <2>3. Append(tails[call[c].at], c) \in Seq(Controls)
    BY <2>2
  <2>4. tails' \in [Objects -> Seq(Controls)]
    BY <1>2, <2>1, <2>3 DEF Claim, TypeOK
  <2>5. phase' \in [Controls ->
          {"idle", "conflict", "done", "rejected", "lost"} \cup Pending]
    <3>1. phase \in [Controls ->
            {"idle", "conflict", "done", "rejected", "lost"} \cup Pending]
      BY DEF TypeOK
    <3>2. \/ phase' = [phase EXCEPT ![c] = "joined"]
          \/ phase' = [phase EXCEPT ![c] = "conflict"]
      BY <1>2 DEF Claim
    <3>3. "joined" \in Pending
      BY DEF Pending
    <3> QED BY <3>1, <3>2, <3>3
  <2>6. index' \in [Operations -> Requested \cup {None, Other}]
    BY <1>2, <2>1 DEF Claim, TypeOK
  <2> QED BY <1>2, <2>4, <2>5, <2>6 DEF Claim, TypeOK, tooling, extension, bounds
<1>3. CASE Replay(c)
  <2>1. call[c].at \in Objects /\ tails[call[c].at] # <<>>
        /\ call[c].operation \in Operations
    BY <1>3 DEF Replay, Turn, Reached, TypeOK
  <2>2. PICK s \in States : Answer(c, s)
    <3>1. Prior(c) \in States \cup {"none"}
      BY <2>1 DEF Prior, TypeOK
    <3> QED BY <1>3, <3>1 DEF Replay
  <2> QED BY <1>3, <2>1, <2>2, AnswerTyped DEF Replay, TypeOK, tooling, extension, bounds
<1>4. CASE Deliver(c)
  <2>1. phase' \in [Controls ->
          {"idle", "conflict", "done", "rejected", "lost"} \cup Pending]
    BY <1>4 DEF Deliver, TypeOK
  <2> QED BY <1>4, <2>1 DEF Deliver, TypeOK, tooling, extension, bounds
<1>5. CASE Accept(c) /\ tails[call[c].at] # <<>>
  <2>1. call[c].at \in Objects /\ call[c].operation \in Operations
    BY <1>5 DEF Accept, Reached, TypeOK
  <2>2. events' \subseteq Objects \X Operations
    BY <1>5, <2>1 DEF Accept, TypeOK
  <2>3. Answer(c, "accepted-by-session")
    BY <1>5 DEF Accept
  <2> QED BY <1>5, <2>1, <2>2, <2>3, AnswerTyped DEF Accept, TypeOK, tooling, extension,
             bounds
<1>6. CASE AcceptFails(c)
  <2>1. phase' \in [Controls ->
          {"idle", "conflict", "done", "rejected", "lost"} \cup Pending]
    BY <1>6 DEF AcceptFails, TypeOK
  <2>2. faults' \in 0..MaxFaults
    BY <1>6, BoundsAssumption DEF AcceptFails, AppendFails, Fault, TypeOK
  <2> QED BY <1>6, <2>1, <2>2 DEF AcceptFails, TypeOK, tooling, extension
<1>7. CASE Fail(c) /\ tails[call[c].at] # <<>>
  <2>1. call[c].at \in Objects
    BY <1>7 DEF Fail, Reached
  <2>2. Answer(c, "failed")
    BY <1>7 DEF Fail
  <2> QED BY <1>7, <2>1, <2>2, AnswerTyped DEF Fail, TypeOK, tooling, extension, bounds
<1>8. CASE Reject(c) /\ tails[call[c].at] # <<>>
  <2>1. call[c].at \in Objects
    BY <1>8 DEF Reject, Reached
  <2>2. tails' \in [Objects -> Seq(Controls)]
    BY <1>8, <2>1, Popped DEF Reject
  <2>3. phase' \in [Controls ->
          {"idle", "conflict", "done", "rejected", "lost"} \cup Pending]
    BY <1>8 DEF Reject, TypeOK
  <2>4. faults' \in 0..MaxFaults
    BY <1>8, BoundsAssumption DEF Reject, AppendFails, Fault, TypeOK
  <2> QED BY <1>8, <2>2, <2>3, <2>4 DEF Reject, TypeOK, tooling, extension
<1>9. phase[c] \in Executing => tails[call[c].at] # <<>>
  BY DEF Heads
<1>10. Accept(c) \/ Fail(c) \/ Reject(c) => tails[call[c].at] # <<>>
  BY <1>9 DEF Accept, Fail, Reject
<1> QED BY <1>1, <1>2, <1>3, <1>4, <1>5, <1>6, <1>7, <1>8, <1>10 DEF Control, Execute

ObjectType == [status : {"active", "stopping", "over"},
               stage : {"booting", "running", "ended"}, lease : BOOLEAN]

(* An interrupt changes one status.                                        *)
LEMMA InterruptTyped ==
  ASSUME TypeOK
  PROVE  Interrupted \in [Objects -> ObjectType]
<1>1. object \in [Objects -> ObjectType]
  BY DEF TypeOK, ObjectType
<1>2. CASE runs # 0 /\ object[runs].status = "active"
  <2>1. runs \in Objects
    BY <1>2 DEF TypeOK
  <2>2. [object[runs] EXCEPT !.status = "stopping"] \in ObjectType
    BY <1>1, <2>1 DEF ObjectType
  <2> QED BY <1>1, <1>2, <2>1, <2>2 DEF Interrupted
<1>3. CASE ~(runs # 0 /\ object[runs].status = "active")
  BY <1>1, <1>3 DEF Interrupted
<1> QED BY <1>2, <1>3

(* The tool's steps keep the types.                                        *)
LEMMA ToolTypes ==
  ASSUME TypeOK, Latest, ToolCall
  PROVE  TypeOK'
<1>1. CASE Ensure
  BY <1>1 DEF Ensure, TypeOK, controls, bounds
<1>2. CASE Created
  BY <1>2, BoundsAssumption DEF Created, Fault, TypeOK, controls
<1>3. CASE Prepare
  BY <1>3 DEF Prepare, TypeOK, controls, extension, bounds
<1>4. CASE ClaimLaunch
  <2>1. index' \in [Operations -> Requested \cup {None, Other}]
    BY <1>4, OperationsAssumption DEF ClaimLaunch, TypeOK
  <2> QED BY <1>4, <2>1 DEF ClaimLaunch, TypeOK, controls, extension, bounds
<1>5. CASE Await
  <2>1. object' \in [Objects -> ObjectType]
    BY <1>5, InterruptTyped DEF Await, TypeOK, ObjectType
  <2> QED BY <1>5, <2>1 DEF Await, TypeOK, ObjectType, controls, extension, bounds
<1>6. CASE Abort
  <2>1. object' \in [Objects -> ObjectType]
    BY <1>6, InterruptTyped DEF Abort, TypeOK, ObjectType
  <2> QED BY <1>6, <2>1 DEF Abort, TypeOK, ObjectType, controls, extension, bounds
<1>7. CASE Return
  <2>1. waitsOn' \in 0..MaxObjects
    BY <1>7, BoundsAssumption DEF Return
  <2> QED BY <1>7, <2>1 DEF Return, TypeOK, controls, extension, bounds
<1> QED BY <1>1, <1>2, <1>3, <1>4, <1>5, <1>6, <1>7 DEF ToolCall

(* So do the run's.                                                        *)
LEMMA RunTypes ==
  ASSUME TypeOK, Run
  PROVE  TypeOK'
<1>0. object \in [Objects -> ObjectType]
  BY DEF TypeOK, ObjectType
<1>1. CASE Retry
  BY <1>1 DEF Retry, TypeOK, controls, tooling, extension, bounds
<1>2. CASE Start
  <2>1. runs' \in 0..MaxObjects
    BY <1>2, BoundsAssumption DEF Start, TypeOK
  <2>2. object' \in [Objects -> ObjectType]
    BY <1>2, <1>0 DEF Start, ObjectType
  <2> QED BY <1>2, <2>1, <2>2 DEF Start, TypeOK, ObjectType, controls, extension, bounds
<1>3. CASE StartFails
  <2>1. faults' \in 0..MaxFaults
    BY <1>3, BoundsAssumption DEF StartFails, Fault, TypeOK
  <2> QED BY <1>3, <2>1 DEF StartFails, TypeOK, controls, extension
<1>4. CASE Reconcile
  <2>1. runs \in Objects
    BY <1>4 DEF Reconcile, TypeOK
  <2>2. [object[runs] EXCEPT !.lease = FALSE] \in ObjectType
    BY <1>0, <2>1 DEF ObjectType
  <2>3. object' \in [Objects -> ObjectType]
    BY <1>4, <1>0, <2>1, <2>2 DEF Reconcile
  <2> QED BY <1>4, <2>3 DEF Reconcile, TypeOK, ObjectType, controls, tooling, extension,
             bounds
<1>5. CASE Stop
  BY <1>5, InterruptTyped DEF Stop, TypeOK, ObjectType, controls, tooling, extension, bounds
<1>6. ASSUME NEW n \in Objects, Register(n) PROVE TypeOK'
  <2>1. object' \in [Objects -> ObjectType]
    BY <1>6, <1>0 DEF Register, ObjectType
  <2> QED BY <1>6, <2>1 DEF Register, TypeOK, ObjectType, controls, tooling, extension, bounds
<1>7. ASSUME NEW n \in Objects, Unregister(n) PROVE TypeOK'
  <2>1. object' \in [Objects -> ObjectType]
    BY <1>7, <1>0 DEF Unregister, ObjectType
  <2> QED BY <1>7, <2>1 DEF Unregister, TypeOK, ObjectType, controls, tooling, extension,
             bounds
<1>8. ASSUME NEW n \in Objects, Settle(n) PROVE TypeOK'
  <2>1. object' \in [Objects -> ObjectType]
    <3>1. PICK keeps \in BOOLEAN :
            object' = [object EXCEPT ![n].status = "over", ![n].lease = keeps]
      BY <1>8 DEF Settle
    <3>2. [object[n] EXCEPT !.status = "over", !.lease = keeps] \in ObjectType
      <4>1. object[n] \in ObjectType
        BY <1>0
      <4> QED BY <4>1 DEF ObjectType
    <3>3. object' = [object EXCEPT ![n] =
                       [object[n] EXCEPT !.status = "over", !.lease = keeps]]
      BY <1>0, <3>1
    <3> QED BY <1>0, <3>2, <3>3
  <2> QED BY <1>8, <2>1 DEF Settle, TypeOK, ObjectType, controls, tooling, extension, bounds
<1> QED BY <1>1, <1>2, <1>3, <1>4, <1>5, <1>6, <1>7, <1>8 DEF Run

(* And so do the ends of the session and of the process.                   *)
LEMMA EndTypes ==
  ASSUME TypeOK, ShutDown \/ Restart
  PROVE  TypeOK'
<1>1. CASE ShutDown
  <2>1. object' \in [Objects -> ObjectType]
    BY <1>1, InterruptTyped DEF ShutDown, TypeOK, ObjectType
  <2> QED BY <1>1, <2>1 DEF ShutDown, TypeOK, ObjectType, controls, tooling, bounds
<1>2. CASE Restart
  <2>1. tails' \in [Objects -> Seq(Controls)]
    BY <1>2 DEF Restart
  <2>2. object' \in [Objects -> ObjectType]
    BY <1>2 DEF Restart, NoObject, ObjectType
  <2>3. phase' \in [Controls ->
          {"idle", "conflict", "done", "rejected", "lost"} \cup Pending]
    BY <1>2 DEF Restart, TypeOK
  <2>4. runs' \in 0..MaxObjects /\ crashes' \in 0..MaxCrashes /\ waitsOn' \in 0..MaxObjects
    BY <1>2, BoundsAssumption DEF Restart, TypeOK
  <2> QED BY <1>2, <2>1, <2>2, <2>3, <2>4 DEF Restart, TypeOK, ObjectType
<1> QED BY <1>1, <1>2
------------------------------------------------------------------------------
(* The calls of controls.                                                  *)

(* An answer that is new, or the one the object already has, disturbs no   *)
(* other call: the answered one is the first of its tail.                  *)
LEMMA AnswerKeeps ==
  ASSUME TypeOK, ControlInv, NEW c \in Controls, NEW s \in States, Answer(c, s),
         phase[c] \in {"joined"} \cup Executing,
         tails[call[c].at] # <<>>, Head(tails[call[c].at]) = c,
         Prior(c) \in {"none", s},
         UNCHANGED <<index, call, reached>>, events \subseteq events',
         s = "accepted-by-session" =>
           /\ <<call[c].at, call[c].operation>> \in events'
           /\ \E d \in reached : Same(c, d)
  PROVE  ControlInv'
<1>1. call[c].at \in Objects /\ call[c].operation \in Operations
  BY DEF ControlInv, Reached, TypeOK
<1>2. phase' = [phase EXCEPT ![c] = "done"] /\ receipt' = [receipt EXCEPT ![c] = s]
  BY DEF Answer
<1>3. \A d \in Controls : d # c => phase'[d] = phase[d] /\ receipt'[d] = receipt[d]
  BY <1>2 DEF TypeOK
<1>4. phase'[c] = "done" /\ receipt'[c] = s
  BY <1>2 DEF TypeOK
<1>5. \A n \in Objects, o \in Operations :
        receipts'[n][o] = IF n = call[c].at /\ o = call[c].operation THEN s ELSE receipts[n][o]
  BY <1>1 DEF Answer, TypeOK
<1>6. Heads'
  <2> SUFFICES ASSUME NEW d \in Controls, phase'[d] \in Executing
               PROVE  /\ tails'[call[d].at] # <<>> /\ Head(tails'[call[d].at]) = d
                      /\ receipts'[call[d].at][call[d].operation] = "none"
    BY DEF Heads
  <2>1. d # c /\ phase[d] \in Executing
    BY <1>3, <1>4
  <2>2. /\ tails[call[d].at] # <<>> /\ Head(tails[call[d].at]) = d
        /\ receipts[call[d].at][call[d].operation] = "none"
    BY <2>1 DEF ControlInv, Heads
  <2>3. call[d].at \in Objects /\ call[d].operation \in Operations /\ call[d].at # call[c].at
    BY <2>1, <2>2 DEF ControlInv, Reached, TypeOK
  <2>4. tails'[call[d].at] = tails[call[d].at]
    BY <2>3 DEF Answer, TypeOK
  <2> QED BY <2>2, <2>3, <2>4, <1>5
<1>7. Kept'
  <2> SUFFICES ASSUME NEW d \in Controls, phase'[d] = "done"
               PROVE  /\ receipt'[d] # "none"
                      /\ receipts'[call[d].at][call[d].operation] = receipt'[d]
    BY DEF Kept
  <2>1. CASE d = c
    BY <2>1, <1>1, <1>4, <1>5
  <2>2. CASE d # c
    <3>1. /\ receipt[d] # "none" /\ call[d].at \in Objects /\ call[d].operation \in Operations
          /\ receipts[call[d].at][call[d].operation] = receipt[d]
      BY <2>2, <1>3 DEF ControlInv, Kept, Reached, TypeOK
    <3> QED BY <2>2, <3>1, <1>3, <1>5 DEF Prior
  <2> QED BY <2>1, <2>2
<1>8. Indexed'
  BY <1>2, <1>3 DEF ControlInv, Indexed, TypeOK
<1>9. Reached'
  BY <1>2, <1>3, <1>4 DEF ControlInv, Reached, TypeOK
<1>10. Filed'
  <2> SUFFICES ASSUME NEW n \in Objects, NEW o \in Operations,
                      receipts'[n][o] = "accepted-by-session"
               PROVE  /\ <<n, o>> \in events'
                      /\ \E d \in reached : call[d].at = n /\ call[d].operation = o
    BY DEF Filed
  <2>1. CASE n = call[c].at /\ o = call[c].operation
    BY <2>1, <1>5 DEF Same
  <2>2. CASE ~(n = call[c].at /\ o = call[c].operation)
    BY <2>2, <1>5 DEF ControlInv, Filed
  <2> QED BY <2>1, <2>2
<1>11. ReceiptsHold'
  <2> SUFFICES ASSUME NEW d \in Controls, NEW e \in Controls, d # e, Same(d, e)
               PROVE  /\ phase'[d] = "done" /\ phase'[e] = "done" => receipt'[d] = receipt'[e]
                      /\ d \in reached /\ e \in reached =>
                           \/ phase'[d] \in {"rejected", "lost"}
                           \/ phase'[e] \in {"rejected", "lost"}
    BY DEF ReceiptsHold, Same
  <2>1. phase'[d] = "done" /\ phase'[e] = "done" => receipt'[d] = receipt'[e]
    BY <1>7 DEF Kept, Same
  <2>2. ASSUME d \in reached, e \in reached
        PROVE  phase'[d] \in {"rejected", "lost"} \/ phase'[e] \in {"rejected", "lost"}
    BY <2>2, <1>3 DEF ControlInv, ReceiptsHold
  <2> QED BY <2>1, <2>2
<1> QED BY <1>6, <1>7, <1>8, <1>9, <1>10, <1>11 DEF ControlInv

(* Who executes is alone: no other call of the object does.                *)
LEMMA ExecutesAlone ==
  ASSUME ControlInv, NEW c \in Controls, NEW d \in Controls, c # d,
         tails[call[c].at] # <<>> /\ Head(tails[call[c].at]) = c,
         call[d].at = call[c].at
  PROVE  phase[d] \notin Executing
BY DEF ControlInv, Heads

LEMMA CallKeeps ==
  ASSUME TypeOK, ControlInv, NEW c \in Controls, NEW o \in Operations, NEW text \in Texts,
         Call(c, o, text)
  PROVE  ControlInv'
<1>1. /\ phase[c] = "idle" /\ phase' = [phase EXCEPT ![c] = "claiming"]
      /\ call' = [call EXCEPT ![c] = [operation |-> o, text |-> text, at |-> runs]]
      /\ UNCHANGED <<index, events, tails, receipts, receipt, reached>>
      /\ runs \in Objects
  BY DEF Call, TypeOK
<1>2. c \notin reached
  BY <1>1 DEF ControlInv, Reached
<1>3. \A d \in Controls : d # c => phase'[d] = phase[d] /\ call'[d] = call[d]
  BY <1>1 DEF TypeOK
<1>4. phase'[c] = "claiming" /\ call'[c].at \in Objects
  BY <1>1 DEF TypeOK
<1>5. Heads'
  BY <1>1, <1>3, <1>4 DEF ControlInv, Heads
<1>6. Reached'
  BY <1>1, <1>2, <1>3, <1>4 DEF ControlInv, Reached, TypeOK
<1>7. Kept'
  BY <1>1, <1>3, <1>4 DEF ControlInv, Kept
<1>8. Indexed'
  <2> SUFFICES ASSUME NEW d \in Controls,
                      phase'[d] \in {"joined", "done"} \cup Executing \/ d \in reached
               PROVE  index[call'[d].operation] = call'[d].text
    BY <1>1 DEF Indexed
  <2>1. d # c
    BY <1>2, <1>4
  <2> QED BY <2>1, <1>3 DEF ControlInv, Indexed
<1>9. Filed'
  BY <1>1, <1>2, <1>3 DEF ControlInv, Filed, TypeOK
<1>10. ReceiptsHold'
  BY <1>1, <1>2, <1>3, <1>4 DEF ControlInv, ReceiptsHold, Same
<1> QED BY <1>5, <1>6, <1>7, <1>8, <1>9, <1>10 DEF ControlInv

LEMMA ClaimKeeps ==
  ASSUME TypeOK, ControlInv, NEW c \in Controls, Claim(c)
  PROVE  ControlInv'
<1> DEFINE op == call[c].operation  text == call[c].text  at == call[c].at
<1>1. at \in Objects /\ op \in Operations /\ text \in Requested
      /\ phase[c] = "claiming" /\ UNCHANGED <<events, receipts, call, receipt, reached>>
  BY DEF Claim, ControlInv, Reached, TypeOK
<1>2. c \notin reached
  BY <1>1 DEF ControlInv, Reached
<1>3. \A d \in Controls : d # c => phase'[d] = phase[d]
  BY DEF Claim, TypeOK
<1>4. phase'[c] \in {"joined", "conflict"}
  BY DEF Claim, TypeOK
<1>5. \A o \in Operations : index[o] # None => index'[o] = index[o]
  BY <1>1 DEF Claim, TypeOK
<1>6. phase'[c] = "joined" => index'[op] = text
  <2>1. phase'[c] = "joined" => MayClaim(op, text)
    BY DEF Claim, TypeOK
  <2> QED BY <2>1, <1>1 DEF Claim, MayClaim, TypeOK
<1>7. Heads'
  <2> SUFFICES ASSUME NEW d \in Controls, phase'[d] \in Executing
               PROVE  /\ tails'[call[d].at] # <<>> /\ Head(tails'[call[d].at]) = d
                      /\ receipts[call[d].at][call[d].operation] = "none"
    BY <1>1 DEF Heads
  <2>1. d # c /\ phase[d] \in Executing
    BY <1>3, <1>4
  <2>2. /\ tails[call[d].at] # <<>> /\ Head(tails[call[d].at]) = d
        /\ receipts[call[d].at][call[d].operation] = "none"
        /\ call[d].at \in Objects
    BY <2>1 DEF ControlInv, Heads, Reached
  <2>3. tails[call[d].at] \in Seq(Controls)
    BY <2>2 DEF TypeOK
  <2>4. /\ Append(tails[call[d].at], c) # <<>>
        /\ Head(Append(tails[call[d].at], c)) = d
    BY <2>2, <2>3
  <2>5. tails'[call[d].at] \in {tails[call[d].at], Append(tails[call[d].at], c)}
    <3>1. tails' = tails \/ tails' = [tails EXCEPT ![call[c].at] = Append(@, c)]
      BY DEF Claim
    <3>2. CASE tails' = [tails EXCEPT ![call[c].at] = Append(@, c)]
      <4>1. CASE call[d].at = call[c].at
        BY <3>2, <4>1, <2>2 DEF TypeOK
      <4>2. CASE call[d].at # call[c].at
        BY <3>2, <4>2, <2>2 DEF TypeOK
      <4> QED BY <4>1, <4>2
    <3> QED BY <3>1, <3>2
  <2> QED BY <2>2, <2>4, <2>5
<1>8. Reached'
  BY <1>1, <1>2, <1>3, <1>4 DEF ControlInv, Reached, TypeOK
<1>9. Kept'
  BY <1>1, <1>3, <1>4 DEF ControlInv, Kept
<1>10. Indexed'
  <2> SUFFICES ASSUME NEW d \in Controls,
                      phase'[d] \in {"joined", "done"} \cup Executing \/ d \in reached
               PROVE  index'[call[d].operation] = call[d].text
    BY <1>1 DEF Indexed
  <2>1. CASE d = c
    BY <2>1, <1>2, <1>4, <1>6
  <2>2. CASE d # c
    <3>1. index[call[d].operation] = call[d].text /\ call[d].operation \in Operations
          /\ call[d].text \in Requested
      BY <2>2, <1>3 DEF ControlInv, Indexed, TypeOK
    <3> QED BY <3>1, <1>5, TextsAssumption
  <2> QED BY <2>1, <2>2
<1>11. Filed'
  BY <1>1 DEF ControlInv, Filed
<1>12. ReceiptsHold'
  BY <1>1, <1>2, <1>3, <1>4 DEF ControlInv, ReceiptsHold, Same
<1> QED BY <1>7, <1>8, <1>9, <1>10, <1>11, <1>12 DEF ControlInv

LEMMA DeliverKeeps ==
  ASSUME TypeOK, ControlInv, NEW c \in Controls, Deliver(c)
  PROVE  ControlInv'
<1>1. /\ phase[c] = "joined" /\ Prior(c) = "none"
      /\ tails[call[c].at] # <<>> /\ Head(tails[call[c].at]) = c
      /\ UNCHANGED <<index, events, tails, receipts, call, receipt>>
  BY DEF Deliver, Turn
<1>2. /\ phase'[c] \in Executing /\ reached \subseteq reached' /\ reached' \subseteq reached \cup {c}
      /\ phase'[c] = "accepting" => c \in reached'
  BY DEF Deliver, TypeOK
<1>3. \A d \in Controls : d # c => phase'[d] = phase[d]
  BY DEF Deliver, TypeOK
<1>4. Heads'
  BY <1>1, <1>3 DEF ControlInv, Heads, Prior
<1>5. Reached'
  BY <1>1, <1>2, <1>3 DEF ControlInv, Reached, TypeOK
<1>6. Kept'
  BY <1>1, <1>2, <1>3 DEF ControlInv, Kept
<1>7. Indexed'
  BY <1>1, <1>2, <1>3 DEF ControlInv, Indexed
<1>8. Filed'
  BY <1>1, <1>2 DEF ControlInv, Filed
<1>9. ReceiptsHold'
  <2> SUFFICES ASSUME NEW d \in Controls, NEW e \in Controls, d # e, Same(d, e)
               PROVE  /\ phase'[d] = "done" /\ phase'[e] = "done" => receipt'[d] = receipt'[e]
                      /\ d \in reached' /\ e \in reached' =>
                           \/ phase'[d] \in {"rejected", "lost"}
                           \/ phase'[e] \in {"rejected", "lost"}
    BY <1>1 DEF ReceiptsHold, Same
  <2>1. phase'[d] = "done" /\ phase'[e] = "done" => receipt'[d] = receipt'[e]
    BY <1>6, <1>1 DEF Kept, Same
  <2>2. ASSUME NEW f \in Controls, f # c, Same(f, c), f \in reached
        PROVE  phase'[f] \in {"rejected", "lost"}
    <3>1. phase[f] \notin Executing
      BY <2>2, <1>1, ExecutesAlone DEF Same
    <3>2. phase[f] # "done"
      BY <2>2, <1>1 DEF ControlInv, Kept, Prior, Same
    <3> QED BY <2>2, <3>1, <3>2, <1>3 DEF ControlInv, Reached
  <2>3. ASSUME d \in reached', e \in reached'
        PROVE  phase'[d] \in {"rejected", "lost"} \/ phase'[e] \in {"rejected", "lost"}
    <3>1. CASE d = c
      BY <3>1, <2>2, <2>3, <1>2 DEF Same
    <3>2. CASE e = c
      BY <3>2, <2>2, <2>3, <1>2
    <3>3. CASE d # c /\ e # c
      BY <3>3, <2>3, <1>2, <1>3 DEF ControlInv, ReceiptsHold
    <3> QED BY <3>1, <3>2, <3>3
  <2> QED BY <2>1, <2>3
<1> QED BY <1>4, <1>5, <1>6, <1>7, <1>8, <1>9 DEF ControlInv

LEMMA RejectKeeps ==
  ASSUME TypeOK, ControlInv, NEW c \in Controls, Reject(c)
  PROVE  ControlInv'
<1>1. /\ phase[c] = "failing" /\ phase' = [phase EXCEPT ![c] = "rejected"]
      /\ tails' = [tails EXCEPT ![call[c].at] = Tail(@)]
      /\ UNCHANGED <<index, events, receipts, call, receipt, reached>>
  BY DEF Reject
<1>2. tails[call[c].at] # <<>> /\ Head(tails[call[c].at]) = c
  BY <1>1 DEF ControlInv, Heads
<1>3. phase'[c] = "rejected" /\ \A d \in Controls : d # c => phase'[d] = phase[d]
  BY <1>1 DEF TypeOK
<1>4. Heads'
  <2> SUFFICES ASSUME NEW d \in Controls, phase'[d] \in Executing
               PROVE  /\ tails'[call[d].at] # <<>> /\ Head(tails'[call[d].at]) = d
                      /\ receipts[call[d].at][call[d].operation] = "none"
    BY <1>1 DEF Heads
  <2>1. d # c /\ phase[d] \in Executing
    BY <1>3
  <2>2. call[d].at # call[c].at /\ call[d].at \in Objects
    BY <2>1, <1>2, ExecutesAlone DEF ControlInv, Reached
  <2>3. tails'[call[d].at] = tails[call[d].at]
    BY <2>2, <1>1 DEF TypeOK
  <2> QED BY <2>1, <2>3 DEF ControlInv, Heads
<1>5. Reached'
  BY <1>1, <1>3 DEF ControlInv, Reached
<1>6. Kept' /\ Indexed' /\ Filed'
  BY <1>1, <1>3 DEF ControlInv, Kept, Indexed, Filed
<1>7. ReceiptsHold'
  BY <1>1, <1>3 DEF ControlInv, ReceiptsHold, Same
<1> QED BY <1>4, <1>5, <1>6, <1>7 DEF ControlInv

LEMMA AcceptFailsKeeps ==
  ASSUME TypeOK, ControlInv, NEW c \in Controls, AcceptFails(c)
  PROVE  ControlInv'
<1>1. /\ phase[c] = "accepting" /\ phase' = [phase EXCEPT ![c] = "failing"]
      /\ UNCHANGED <<index, events, tails, receipts, call, receipt, reached>>
  BY DEF AcceptFails
<1>2. phase'[c] = "failing" /\ \A d \in Controls : d # c => phase'[d] = phase[d]
  BY <1>1 DEF TypeOK
<1>3. Heads' /\ Reached'
  BY <1>1, <1>2 DEF ControlInv, Heads, Reached, TypeOK
<1>4. Kept' /\ Indexed' /\ Filed'
  BY <1>1, <1>2 DEF ControlInv, Kept, Indexed, Filed
<1>5. ReceiptsHold'
  BY <1>1, <1>2 DEF ControlInv, ReceiptsHold, Same
<1> QED BY <1>3, <1>4, <1>5 DEF ControlInv

(* A step of a call keeps the calls' part.                                 *)
LEMMA ControlKeeps ==
  ASSUME TypeOK, ControlInv, NEW c \in Controls, Control(c)
  PROVE  ControlInv'
<1>1. ASSUME NEW ask \in Asks, Call(c, ask[1], ask[2]) PROVE ControlInv'
  <2>1. ask[1] \in Operations /\ ask[2] \in Texts
    BY AsksAssumption
  <2> QED BY <1>1, <2>1, CallKeeps
<1>2. CASE Claim(c)
  BY <1>2, ClaimKeeps
<1>3. CASE Replay(c)
  <2>1. /\ phase[c] = "joined" /\ tails[call[c].at] # <<>> /\ Head(tails[call[c].at]) = c
        /\ UNCHANGED <<index, call, reached, events>>
    BY <1>3 DEF Replay, Turn
  <2>2. call[c].at \in Objects /\ call[c].operation \in Operations
    BY <2>1 DEF ControlInv, Reached, TypeOK
  <2>3. Prior(c) \in States \cup {"none"}
    BY <2>2 DEF Prior, TypeOK
  <2>4. CASE Prior(c) # "none" /\ Answer(c, Prior(c))
    <3>1. Prior(c) = "accepted-by-session" =>
            /\ <<call[c].at, call[c].operation>> \in events'
            /\ \E d \in reached : Same(c, d)
      BY <2>1, <2>2 DEF ControlInv, Filed, Prior, Same
    <3> HIDE DEF States
    <3>2. Prior(c) \in States
      BY <2>3, <2>4
    <3>3. events \subseteq events'
      BY <2>1
    <3>4. phase[c] \in {"joined"} \cup Executing
      BY <2>1
    <3> QED BY <2>1, <2>4, <3>1, <3>2, <3>3, <3>4, AnswerKeeps
  <2>5. CASE Prior(c) = "none" /\ Answer(c, "missed")
    BY <2>1, <2>5, AnswerKeeps
  <2> QED BY <1>3, <2>4, <2>5 DEF Replay
<1>4. CASE Deliver(c)
  BY <1>4, DeliverKeeps
<1>5. CASE Accept(c)
  <2>1. /\ phase[c] = "accepting" /\ Answer(c, "accepted-by-session")
        /\ events' = events \cup {<<call[c].at, call[c].operation>>}
        /\ UNCHANGED <<index, call, reached>>
    BY <1>5 DEF Accept
  <2>2. /\ tails[call[c].at] # <<>> /\ Head(tails[call[c].at]) = c /\ Prior(c) = "none"
        /\ c \in reached
    BY <2>1 DEF ControlInv, Heads, Reached, Prior
  <2>3. \E d \in reached : Same(c, d)
    BY <2>2 DEF Same
  <2> QED BY <2>1, <2>2, <2>3, AnswerKeeps
<1>6. CASE AcceptFails(c)
  BY <1>6, AcceptFailsKeeps
<1>7. CASE Fail(c)
  <2>1. /\ phase[c] = "failing" /\ Answer(c, "failed")
        /\ UNCHANGED <<index, call, reached, events>>
    BY <1>7 DEF Fail
  <2>2. /\ tails[call[c].at] # <<>> /\ Head(tails[call[c].at]) = c /\ Prior(c) = "none"
    BY <2>1 DEF ControlInv, Heads, Prior
  <2> QED BY <2>1, <2>2, AnswerKeeps
<1>8. CASE Reject(c)
  BY <1>8, RejectKeeps
<1> QED BY <1>1, <1>2, <1>3, <1>4, <1>5, <1>6, <1>7, <1>8 DEF Control, Execute

(* The other steps: only the launch's claim and a death concern the calls. *)
LEMMA OthersKeepControls ==
  ASSUME TypeOK, ControlInv, ToolCall \/ Run \/ ShutDown \/ Restart
  PROVE  ControlInv'
<1>1. CASE UNCHANGED <<index, controls>>
  BY <1>1 DEF controls, ControlInv, Heads, Reached, Kept, Indexed, Filed, ReceiptsHold, Same
<1>2. CASE ClaimLaunch
  <2>1. UNCHANGED controls /\ \A o \in Operations : index[o] # None => index'[o] = index[o]
    BY <1>2 DEF ClaimLaunch, TypeOK
  <2>2. Indexed'
    BY <2>1, TextsAssumption DEF ControlInv, Indexed, TypeOK, controls
  <2> QED BY <2>1, <2>2 DEF controls, ControlInv, Heads, Reached, Kept, Filed, ReceiptsHold,
             Same
<1>3. CASE Restart
  <2>1. /\ \A c \in Controls : phase'[c] = IF phase[c] \in Pending THEN "lost" ELSE phase[c]
        /\ UNCHANGED <<index, events, receipts, call, receipt, reached>>
    BY <1>3 DEF Restart
  <2>2. Heads'
    BY <2>1 DEF Heads
  <2>3. Kept' /\ Indexed' /\ Filed'
    BY <2>1 DEF ControlInv, Kept, Indexed, Filed
  <2>5. \A c \in Controls : phase'[c] # "idle" => call[c].at \in Objects
    BY <2>1 DEF ControlInv, Reached
  <2>6. \A c \in reached : phase'[c] \in Executing \cup {"done", "rejected", "lost"}
    BY <2>1 DEF ControlInv, Reached, TypeOK
  <2>7. Reached'
    BY <2>1, <2>5, <2>6 DEF Reached
  <2>4. ReceiptsHold'
    BY <2>1 DEF ControlInv, ReceiptsHold, Same
  <2> QED BY <2>2, <2>3, <2>4, <2>7 DEF ControlInv
<1>4. ToolCall /\ ~ClaimLaunch => UNCHANGED <<index, controls>>
  BY DEF ToolCall, Ensure, Created, Prepare, Await, Abort, Return
<1>5. Run \/ ShutDown => UNCHANGED <<index, controls>>
  BY DEF Run, Retry, Start, StartFails, Reconcile, Stop, Register, Unregister, Settle, ShutDown
<1> QED BY <1>1, <1>2, <1>3, <1>4, <1>5
------------------------------------------------------------------------------
(* The tool and the run.                                                   *)

(* An interrupt stops the last object if that is active, and no other one. *)
LEMMA InterruptStops ==
  ASSUME TypeOK, Latest
  PROVE  /\ \A n \in Objects : Interrupted[n].status # "active"
         /\ \A n \in Objects : n # runs => Interrupted[n].status = "over"
         /\ \A n \in Objects : object[n].status = "over" => Interrupted[n].status = "over"
<1>1. CASE runs # 0 /\ object[runs].status = "active"
  <2>1. runs \in Objects
    BY <1>1 DEF TypeOK
  <2>2. Interrupted[runs].status = "stopping"
    BY <1>1, <2>1 DEF Interrupted, TypeOK
  <2>3. \A n \in Objects : n # runs => Interrupted[n] = object[n]
    BY <1>1 DEF Interrupted, TypeOK
  <2> QED BY <1>1, <2>2, <2>3 DEF Latest
<1>2. CASE ~(runs # 0 /\ object[runs].status = "active")
  <2>1. Interrupted = object
    BY <1>2 DEF Interrupted
  <2> QED BY <1>2, <2>1, BoundsAssumption DEF Latest, TypeOK
<1> QED BY <1>1, <1>2

LEMMA ToolKeeps ==
  ASSUME TypeOK, ToolInv, ToolCall
  PROVE  ToolInv'
<1>1. CASE Ensure \/ Created \/ Prepare
  BY <1>1 DEF Ensure, Created, Prepare, ToolInv, Latest, AbortedRunStops
<1>2. CASE ClaimLaunch
  BY <1>2 DEF ClaimLaunch, ToolInv, Latest, AbortedRunStops, TypeOK
<1>3. CASE Await
  <2>1. runs \in Objects /\ waitsOn' = runs /\ tool' = "waiting"
        /\ UNCHANGED <<runs, exclusive, signal>>
    BY <1>3 DEF Await, ToolInv, Latest
  <2>2. object' = object \/ object' = Interrupted
    BY <1>3 DEF Await
  <2>3. Latest'
    BY <2>1, <2>2, InterruptStops DEF ToolInv, Latest
  <2>4. signal => object' = Interrupted
    BY <1>3 DEF Await, MissedSignal
  <2>5. AbortedRunStops'
    BY <2>1, <2>4, InterruptStops DEF ToolInv, AbortedRunStops
  <2> QED BY <2>3, <2>5 DEF ToolInv
<1>4. CASE Abort
  <2>1. UNCHANGED <<runs, exclusive, tool, waitsOn>>
    BY <1>4 DEF Abort
  <2>2. object' = object \/ object' = Interrupted
    BY <1>4 DEF Abort
  <2>3. Latest'
    BY <2>1, <2>2, InterruptStops DEF ToolInv, Latest
  <2>4. tool = "waiting" => object' = Interrupted
    BY <1>4 DEF Abort
  <2>5. AbortedRunStops'
    BY <2>1, <2>4, InterruptStops DEF ToolInv, Latest, AbortedRunStops
  <2> QED BY <2>3, <2>5 DEF ToolInv
<1>5. CASE Return
  BY <1>5 DEF Return, ToolInv, Latest, AbortedRunStops
<1> QED BY <1>1, <1>2, <1>3, <1>4, <1>5 DEF ToolCall

LEMMA RunKeeps ==
  ASSUME TypeOK, ToolInv, Run
  PROVE  ToolInv'
<1>1. CASE Retry
  <2>1. /\ runs \in Objects /\ object[runs].status = "over" /\ exclusive' = "retry"
        /\ UNCHANGED <<runs, object, tooling>>
    BY <1>1, BoundsAssumption DEF Retry, TypeOK
  <2> QED BY <2>1 DEF ToolInv, Latest, AbortedRunStops, tooling
<1>2. CASE Start
  <2>1. runs + 1 \in Objects /\ runs' = runs + 1 /\ exclusive' = "none"
        /\ UNCHANGED <<waitsOn, signal>>
    BY <1>2, BoundsAssumption DEF Start, TypeOK
  <2>2. \A n \in Objects : n # runs + 1 => object'[n] = object[n]
    BY <1>2 DEF Start, TypeOK
  <2>3. \A n \in Objects : object[n].status = "over"
    BY <1>2, BoundsAssumption DEF Start, ToolInv, Latest, TypeOK
  <2>4. tool' = tool \/ tool' = "launched"
    BY <1>2 DEF Start
  <2>5. Latest'
    BY <2>1, <2>2, <2>3, <2>4 DEF ToolInv, Latest, TypeOK
  <2>6. tool' = "waiting" => waitsOn \in Objects /\ waitsOn # runs + 1
    BY <2>1, <2>4 DEF ToolInv, Latest, TypeOK
  <2> QED BY <2>1, <2>2, <2>3, <2>5, <2>6 DEF ToolInv, AbortedRunStops
<1>3. CASE StartFails
  BY <1>3 DEF StartFails, ToolInv, Latest, AbortedRunStops
<1>4. ASSUME NEW n \in Objects, NEW o,
             object' = [object EXCEPT ![n] = o], o.status \in {object[n].status, "over"},
             UNCHANGED <<runs, exclusive, tooling>>
      PROVE  ToolInv'
  <2>1. \A m \in Objects : object'[m].status \in {object[m].status, "over"}
    BY <1>4 DEF TypeOK
  <2> QED BY <1>4, <2>1 DEF ToolInv, Latest, AbortedRunStops, tooling
<1>5. CASE Reconcile
  <2>1. runs \in Objects
    BY <1>5 DEF Reconcile, TypeOK
  <2>2. object' = [object EXCEPT ![runs] = [object[runs] EXCEPT !.lease = FALSE]]
    BY <1>5 DEF Reconcile
  <2>3. [object[runs] EXCEPT !.lease = FALSE].status = object[runs].status
    BY <2>1 DEF TypeOK
  <2> QED BY <1>5, <2>1, <2>2, <2>3, <1>4 DEF Reconcile
<1>6. CASE Stop
  <2>1. object' = Interrupted /\ UNCHANGED <<runs, exclusive, tooling>>
    BY <1>6 DEF Stop
  <2> QED BY <2>1, InterruptStops DEF ToolInv, Latest, AbortedRunStops, tooling
<1>7. ASSUME NEW n \in Objects, Register(n) \/ Unregister(n) PROVE ToolInv'
  <2>1. PICK st : object' = [object EXCEPT ![n] = [object[n] EXCEPT !.stage = st]]
    BY <1>7 DEF Register, Unregister
  <2>2. [object[n] EXCEPT !.stage = st].status = object[n].status
    BY DEF TypeOK
  <2> QED BY <1>7, <2>1, <2>2, <1>4 DEF Register, Unregister
<1>8. ASSUME NEW n \in Objects, Settle(n) PROVE ToolInv'
  <2>1. PICK keeps \in BOOLEAN :
          object' = [object EXCEPT ![n].status = "over", ![n].lease = keeps]
    BY <1>8 DEF Settle
  <2>2. \A m \in Objects : object'[m].status \in {object[m].status, "over"}
    BY <2>1 DEF TypeOK
  <2> QED BY <1>8, <2>2 DEF Settle, ToolInv, Latest, AbortedRunStops, tooling
<1> QED BY <1>1, <1>2, <1>3, <1>5, <1>6, <1>7, <1>8 DEF Run

(* The ends, and the control calls.                                        *)
LEMMA OthersKeepTool ==
  ASSUME TypeOK, ToolInv, ShutDown \/ Restart \/ \E c \in Controls : Control(c)
  PROVE  ToolInv'
<1>1. CASE ShutDown
  <2>1. object' \in {object, Interrupted} /\ UNCHANGED <<runs, exclusive, tooling>>
    BY <1>1 DEF ShutDown
  <2> QED BY <2>1, InterruptStops DEF ToolInv, Latest, AbortedRunStops, tooling
<1>2. CASE Restart
  <2>1. /\ object' = [n \in Objects |-> NoObject] /\ exclusive' = "none"
        /\ tool' \notin Waiting
    BY <1>2 DEF Restart, TypeOK
  <2> QED BY <2>1 DEF ToolInv, Latest, AbortedRunStops, NoObject
<1>3. ASSUME NEW c \in Controls, Control(c) PROVE ToolInv'
  <2>1. UNCHANGED <<runs, object, exclusive, tooling>>
    BY <1>3 DEF Control, Execute, Call, Claim, Replay, Deliver, Accept, AcceptFails, Fail,
                Reject
  <2> QED BY <2>1 DEF ToolInv, Latest, AbortedRunStops, tooling
<1> QED BY <1>1, <1>2, <1>3
------------------------------------------------------------------------------
(* The invariant, and the theorems.                                        *)

LEMMA Holds == Init => Inv
<1> SUFFICES ASSUME Init PROVE Inv
  OBVIOUS
<1>1. TypeOK
  BY TypeInit
<1>2. ControlInv
  BY OperationsAssumption, BoundsAssumption
     DEF Init, ControlInv, Heads, Reached, Kept, Indexed, Filed, ReceiptsHold
<1>3. ToolInv
  BY DEF Init, NoObject, ToolInv, Latest, AbortedRunStops
<1> QED BY <1>1, <1>2, <1>3 DEF Inv

LEMMA Preserved == Inv /\ [Next]_vars => Inv'
<1> SUFFICES ASSUME Inv, [Next]_vars PROVE Inv'
  OBVIOUS
<1>0. TypeOK /\ ControlInv /\ ToolInv /\ Latest /\ Heads /\ Reached
  BY DEF Inv, ControlInv, ToolInv
<1>1. CASE ToolCall
  BY <1>0, <1>1, ToolTypes, OthersKeepControls, ToolKeeps DEF Inv
<1>2. CASE Run
  BY <1>0, <1>2, RunTypes, OthersKeepControls, RunKeeps DEF Inv
<1>3. CASE ShutDown \/ Restart
  BY <1>0, <1>3, EndTypes, OthersKeepControls, OthersKeepTool DEF Inv
<1>4. ASSUME NEW c \in Controls, Control(c) PROVE Inv'
  BY <1>0, <1>4, ControlTypes, ControlKeeps, OthersKeepTool DEF Inv
<1>5. CASE UNCHANGED vars
  <2>1. TypeOK'
    BY <1>0, <1>5 DEF vars, controls, tooling, extension, bounds, TypeOK
  <2>2. ControlInv'
    BY <1>0, <1>5 DEF vars, controls, ControlInv, Heads, Reached, Kept, Indexed, Filed,
                      ReceiptsHold, Same
  <2>3. ToolInv'
    BY <1>0, <1>5 DEF vars, tooling, ToolInv, Latest, AbortedRunStops
  <2> QED BY <2>1, <2>2, <2>3 DEF Inv
<1> QED BY <1>1, <1>2, <1>3, <1>4, <1>5 DEF Next

LEMMA Invariant == Spec => []Inv
<1> QED BY Holds, Preserved, PTL DEF Spec

(* The state of the calls, the tool and the objects keeps its types, for   *)
(* any callers and bounds (service.ts ActiveRun, extension.ts execute).    *)
THEOREM RequestsTyped == Spec => []TypeOK
<1>1. Inv => TypeOK
  BY DEF Inv
<1> QED BY Invariant, <1>1, PTL

(* However many calls with one identifier interleave on an attempt, they   *)
(* get one receipt, and one of them reaches the session (deliverControl).  *)
THEOREM ReceiptsAlwaysHold == Spec => []ReceiptsHold
<1>1. Inv => ReceiptsHold
  BY DEF Inv, ControlInv
<1> QED BY Invariant, <1>1, PTL

(* An identifier is one text's for good, over attempts, deaths and seats   *)
(* (OperationIndex.claim).                                                 *)
THEOREM OperationsKeepTheirText == Spec => []OneTextPerOperation
<1>1. Inv => OneTextPerOperation
  BY DEF Inv, ControlInv, Indexed, OneTextPerOperation, TypeOK
<1> QED BY Invariant, <1>1, PTL

(* Who is told that the session accepted a message finds it on file and    *)
(* queued (deliverControl, control-accepted).                              *)
THEOREM AcceptedIsQueued == Spec => []AcceptedWasQueued
<1>1. ASSUME TypeOK, ControlInv PROVE AcceptedWasQueued
  <2> SUFFICES ASSUME NEW c \in Controls, phase[c] = "done",
                      receipt[c] = "accepted-by-session"
               PROVE  /\ <<call[c].at, call[c].operation>> \in events
                      /\ \E d \in reached : Same(c, d) /\ call[d].text = call[c].text
    BY DEF AcceptedWasQueued
  <2>1. call[c].at \in Objects /\ call[c].operation \in Operations
    BY <1>1 DEF ControlInv, Reached, TypeOK
  <2>2. receipts[call[c].at][call[c].operation] = "accepted-by-session"
    BY <1>1 DEF ControlInv, Kept
  <2>3. PICK d \in reached : call[d].at = call[c].at /\ call[d].operation = call[c].operation
    BY <1>1, <2>1, <2>2 DEF ControlInv, Filed
  <2>4. call[d].text = call[c].text
    BY <1>1, <2>3 DEF ControlInv, Indexed, TypeOK
  <2> QED BY <1>1, <2>1, <2>2, <2>3, <2>4 DEF ControlInv, Filed, Same
<1>2. Inv => AcceptedWasQueued
  BY <1>1 DEF Inv
<1> QED BY Invariant, <1>2, PTL

(* Once the tool waits, the run of a call its caller aborted is stopping   *)
(* or over (extension.ts onAbort and the look at the signal before it).    *)
THEOREM AbortedRunsStop == Spec => []AbortedRunStops
<1>1. Inv => AbortedRunStops
  BY DEF Inv, ToolInv
<1> QED BY Invariant, <1>1, PTL
==============================================================================
