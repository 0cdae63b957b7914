-------------------------- MODULE AgentLoopDelivery --------------------------
(***************************************************************************)
(* What becomes of messages: the theorems that none is delivered twice and *)
(* that follow-ups wait for steering messages, whatever fails, and, while  *)
(* nothing throws and no epoch goes stale, that none is lost, that queues  *)
(* keep their order and that the agent implements MessageDelivery.         *)
(***************************************************************************)
EXTENDS AgentLoopProofs, SequenceTheorems

(* Queues as sets                                                          *)

LEMMA AppendSet ==
  ASSUME NEW q \in Seq(Messages), NEW m \in Messages
  PROVE  /\ ToSet(Append(q, m)) = ToSet(q) \union {m}
         /\ IsInjective(q) /\ m \notin ToSet(q) => IsInjective(Append(q, m))
<1>1. Len(Append(q, m)) = Len(q) + 1 /\ Append(q, m)[Len(q) + 1] = m
      /\ \A i \in 1..Len(q) : Append(q, m)[i] = q[i]
  OBVIOUS
<1>2. ToSet(Append(q, m)) = ToSet(q) \union {m}
  BY <1>1 DEF ToSet
<1>3. ASSUME IsInjective(q), m \notin ToSet(q) PROVE IsInjective(Append(q, m))
  BY <1>1, <1>3 DEF IsInjective, ToSet
<1> QED  BY <1>2, <1>3

LEMMA TailSet ==
  ASSUME NEW q \in Seq(Messages), q # <<>>
  PROVE  /\ ToSet(q) = {Head(q)} \union ToSet(Tail(q))
         /\ IsInjective(q) => IsInjective(Tail(q)) /\ Head(q) \notin ToSet(Tail(q))
<1>1. /\ Len(q) \in Nat /\ Len(q) > 0 /\ Head(q) = q[1] /\ Tail(q) \in Seq(Messages)
      /\ Len(Tail(q)) = Len(q) - 1
      /\ \A i \in 1..(Len(q) - 1) : Tail(q)[i] = q[i + 1]
  OBVIOUS
<1>2. ToSet(q) = {Head(q)} \union ToSet(Tail(q))
  <2>1. ASSUME NEW i \in 1..Len(q) PROVE q[i] \in {Head(q)} \union ToSet(Tail(q))
    <3>1. CASE i = 1
      BY <1>1, <3>1
    <3>2. CASE i # 1
      <4>1. i - 1 \in 1..(Len(q) - 1) /\ Tail(q)[i - 1] = q[i]
        BY <1>1, <3>2
      <4>1a. DOMAIN Tail(q) = 1..Len(Tail(q))
        BY <1>1
      <4>1b. i - 1 \in DOMAIN Tail(q)
        BY <1>1, <4>1, <4>1a
      <4>2. Tail(q)[i - 1] \in ToSet(Tail(q))
        BY <4>1b DEF ToSet
      <4> QED  BY <4>1, <4>2
    <3> QED  BY <3>1, <3>2
  <2>2. ASSUME NEW i \in 1..(Len(q) - 1) PROVE Tail(q)[i] \in ToSet(q)
    BY <1>1 DEF ToSet
  <2> QED  BY <1>1, <2>1, <2>2 DEF ToSet
<1>3. ASSUME IsInjective(q)
      PROVE  IsInjective(Tail(q)) /\ Head(q) \notin ToSet(Tail(q))
  BY <1>1, <1>3 DEF IsInjective, ToSet
<1> QED  BY <1>2, <1>3

(* A drain and what it leaves partition the queue.                         *)
LEMMA DrainSet ==
  ASSUME NEW q \in Seq(Messages), NEW mode
  PROVE  /\ ToSet(q) = ToSet(Drained(q, mode)) \union ToSet(Left(q, mode))
         /\ IsInjective(q) =>
              /\ IsInjective(Drained(q, mode)) /\ IsInjective(Left(q, mode))
              /\ ToSet(Drained(q, mode)) \intersect ToSet(Left(q, mode)) = {}
<1>1. ToSet(<<>>) = {} /\ IsInjective(<<>>)
  BY DEF ToSet, IsInjective
<1>2. CASE mode = "all" \/ q = <<>>
  BY <1>1, <1>2 DEF Drained, Left
<1>3. CASE mode # "all" /\ q # <<>>
  <2>1. Drained(q, mode) = <<Head(q)>> /\ Left(q, mode) = Tail(q)
    BY <1>3 DEF Drained, Left
  <2>2. ToSet(<<Head(q)>>) = {Head(q)} /\ IsInjective(<<Head(q)>>)
    BY DEF ToSet, IsInjective
  <2> QED  BY <1>3, <2>1, <2>2, TailSet
<1> QED  BY <1>2, <1>3
-----------------------------------------------------------------------------
(* Steps that touch no message                                             *)

NonUser(e) == e \in Entries /\ e.role # "user"

Untouched ==
  /\ UNCHANGED <<steeringQueue, followUpQueue, pending, prompted, steered,
                 followed, withdrawn>>
  /\ transcript' = transcript \/ \E e : NonUser(e) /\ transcript' = Append(transcript, e)

LEMMA UntouchedDelivery ==
  ASSUME TypeOK, Untouched
  PROVE  /\ Delivered' = Delivered /\ Waiting' = Waiting /\ Sent' = Sent
         /\ DeliveredOnce => DeliveredOnce'
<1>1. Waiting' = Waiting /\ Sent' = Sent
  BY DEF Untouched, Waiting, Sent, ToSet
<1>2. CASE transcript' = transcript
  <2>1. Delivered' = Delivered
    BY <1>2 DEF Delivered, User
  <2> QED  BY <1>1, <1>2, <2>1 DEF Untouched, DeliveredOnce, IsInjective, ToSet
<1>3. ASSUME NEW e, NonUser(e), transcript' = Append(transcript, e)
      PROVE  /\ Delivered' = Delivered
             /\ DeliveredOnce => DeliveredOnce'
  <2>1. /\ transcript \in Seq(Entries) /\ Len(transcript') = Len(transcript) + 1
        /\ transcript'[Len(transcript) + 1] = e
        /\ \A i \in 1..Len(transcript) : transcript'[i] = transcript[i]
    BY <1>3 DEF TypeOK, NonUser
  <2>2. e.role # "user" /\ \A m : e # User(m)
    BY <1>3 DEF NonUser, User
  <2>3. Delivered' = Delivered
    BY <2>1, <2>2 DEF Delivered, User
  <2>4. ASSUME DeliveredOnce,
               NEW i \in 1..Len(transcript'), NEW j \in 1..Len(transcript'),
               transcript'[i].role = "user", transcript'[i] = transcript'[j]
        PROVE  i = j
    BY <2>1, <2>2, <2>4 DEF DeliveredOnce
  <2>5. ASSUME DeliveredOnce PROVE DeliveredOnce'
    <3>1. \A i, j \in 1..Len(transcript') :
            transcript'[i].role = "user" /\ transcript'[i] = transcript'[j] => i = j
      BY <2>4, <2>5
    <3>2. /\ steeringQueue' = steeringQueue /\ followUpQueue' = followUpQueue
          /\ pending' = pending
      BY DEF Untouched
    <3> HIDE DEF Untouched
    <3> QED  BY <1>1, <2>3, <2>5, <3>1, <3>2 DEF DeliveredOnce, IsInjective, ToSet
  <2> QED  BY <2>3, <2>5
<1> QED  BY <1>1, <1>2, <1>3 DEF Untouched

LEMMA ToolsUntouched == TypeOK /\ Tools => Untouched
<1> SUFFICES ASSUME TypeOK, Tools PROVE Untouched
  OBVIOUS
<1> USE DEF queueVars, toolVars, loopVars, callVars, ghostVars
<1>1. \A t \in Nat, i \in Nat : NonUser(Result(t, i))
  <2> TAKE t \in Nat, i \in Nat
  <2>1. Result(t, i) \in Entries
    BY EntryTypes
  <2> QED  BY <2>1 DEF NonUser, Result
<1>2. reply.turn \in Nat /\ batch.next \in Nat /\ Len(batch.results) + 1 \in Nat
  BY DEF TypeOK, AssistantEntries, Batches
<1>3. CASE FailTruncatedCall
  BY <1>1, <1>2, <1>3 DEF FailTruncatedCall, Untouched
<1>4. CASE BeginCall \/ AcceptCall \/ CheckAbort \/ BatchPrepared \/ ToolsSettled \/ BatchEnds
  BY <1>4 DEF BeginCall, AcceptCall, CheckAbort, BatchPrepared, ToolsSettled,
              BatchEnds, Untouched
<1>5. CASE RejectCall
  <2>1. transcript' = transcript \/ transcript' = Append(transcript, Result(reply.turn, batch.next))
    BY <1>5 DEF RejectCall
  <2> QED  BY <1>1, <1>2, <1>5, <2>1 DEF RejectCall, Untouched
<1>6. CASE SequentialToolEnds
  BY <1>1, <1>2, <1>6 DEF SequentialToolEnds, Untouched
<1>7. ASSUME NEW k \in 1..MaxCalls, ParallelToolEnds(k) PROVE Untouched
  BY <1>7 DEF ParallelToolEnds, Untouched
<1>8. CASE EmitResult
  <2>1. transcript' = transcript
        \/ transcript' = Append(transcript, Result(reply.turn, Len(batch.results) + 1))
    BY <1>8 DEF EmitResult
  <2> QED  BY <1>1, <1>2, <1>8, <2>1 DEF EmitResult, Untouched
<1>9. ASSUME NEW c \in executing, StrayToolEnds(c) PROVE Untouched
  BY <1>9 DEF StrayToolEnds, Untouched
<1> QED
  BY <1>3, <1>4, <1>5, <1>6, <1>7, <1>8, <1>9 DEF Tools

LEMMA FaultUntouched == Fault => Untouched
BY DEF Fault, Throw, ThrowFromTool, Untouched, queueVars, callVars, ghostVars

(* The steps of a turn that touch no message.                              *)
LEMMA TurnsUntouched ==
  TypeOK /\ (OpenStream \/ StreamEnds \/ Decide \/ EndTurn \/ HandleRunFailure) => Untouched
<1> SUFFICES ASSUME TypeOK, OpenStream \/ StreamEnds \/ Decide \/ EndTurn \/ HandleRunFailure
             PROVE  Untouched
  OBVIOUS
<1> USE DEF queueVars, toolVars, loopVars, callVars, ghostVars, Untouched
<1>1. CASE OpenStream \/ Decide \/ EndTurn
  BY <1>1 DEF OpenStream, Decide, EndTurn
<1>2. CASE StreamEnds
  <2>1. PICK raw \in Replies(requests + 1) :
          transcript' = IF stale THEN transcript ELSE Append(transcript, raw)
    BY <1>2 DEF StreamEnds
  <2>2. NonUser(raw)
    <3>1. requests + 1 \in Nat
      BY DEF TypeOK
    <3>3. raw \in AssistantEntries
      BY <3>1, ReplyTypes
    <3>4. raw \in Entries
      BY <3>3, EntryTypes
    <3> QED  BY <3>3, <3>4 DEF NonUser, AssistantEntries
  <2> QED  BY <1>2, <2>1, <2>2 DEF StreamEnds
<1>3. CASE HandleRunFailure
  <2> DEFINE failure == Assistant(IF aborted THEN "aborted" ELSE "error", 0, 0)
  <2>1. failure \in AssistantEntries
    BY EntryTypes DEF StopReasons
  <2>2. NonUser(failure)
    <3>1. failure \in Entries
      BY <2>1, EntryTypes
    <3> QED  BY <2>1, <3>1 DEF NonUser, AssistantEntries
  <2>3. transcript' = Append(transcript, failure)
    BY <1>3 DEF HandleRunFailure
  <2> QED  BY <1>3, <2>2, <2>3 DEF HandleRunFailure
<1> QED  BY <1>1, <1>2, <1>3
-----------------------------------------------------------------------------
(* Steps that deliver                                                      *)

LEMMA DeliverOne ==
  ASSUME TypeOK, NEW m \in Messages, transcript' = Append(transcript, User(m))
  PROVE  Delivered' = Delivered \union {m}
<1>1. /\ transcript \in Seq(Entries) /\ User(m) \in Entries
      /\ Len(transcript') = Len(transcript) + 1
      /\ transcript'[Len(transcript) + 1] = User(m)
      /\ \A i \in 1..Len(transcript) : transcript'[i] = transcript[i]
  BY EntryTypes DEF TypeOK
<1>2. \A k : User(k) = User(m) => k = m
  BY DEF User
<1>3. \A k \in Messages : (k \in Delivered)' <=> k \in Delivered \/ k = m
  <2> TAKE k \in Messages
  <2>1. (k \in Delivered)' <=> \E i \in 1..Len(transcript') : transcript'[i] = User(k)
    BY DEF Delivered, User
  <2>2. k \in Delivered <=> \E i \in 1..Len(transcript) : transcript[i] = User(k)
    BY DEF Delivered
  <2> QED  BY <1>1, <1>2, <2>1, <2>2
<1> QED  BY <1>3 DEF Delivered

(* A message in hand is taken up: EmitPrompt and InjectPending.            *)
Delivers ==
  /\ pending # <<>>
  /\ transcript' = Append(transcript, User(Head(pending)))
  /\ pending' = Tail(pending)
  /\ UNCHANGED <<steeringQueue, followUpQueue, prompted, steered, followed, withdrawn>>

LEMMA DeliversSets ==
  ASSUME TypeOK, Delivers
  PROVE  /\ Head(pending) \in Messages
         /\ Delivered' = Delivered \union {Head(pending)}
         /\ ToSet(pending) = {Head(pending)} \union ToSet(pending')
         /\ Waiting' = Waiting /\ Sent' = Sent
<1>1. Head(pending) \in Messages /\ pending \in Seq(Messages)
  BY DEF TypeOK, Delivers
<1>2. Delivered' = Delivered \union {Head(pending)}
  BY <1>1, DeliverOne DEF Delivers
<1>3. ToSet(pending) = {Head(pending)} \union ToSet(Tail(pending))
  BY <1>1, TailSet DEF Delivers
<1>4. Waiting' = Waiting /\ Sent' = Sent
  BY DEF Delivers, Waiting, Sent, ToSet
<1> QED  BY <1>1, <1>2, <1>3, <1>4 DEF Delivers

LEMMA DeliversOnce ==
  ASSUME TypeOK, DeliveryInvariant, Delivers
  PROVE  DeliveryInvariant'
<1> DEFINE m == Head(pending)
<1>1. /\ m \in Messages /\ Delivered' = Delivered \union {m}
      /\ ToSet(pending) = {m} \union ToSet(pending')
      /\ Waiting' = Waiting /\ Sent' = Sent
  BY DeliversSets
<1>2. IsInjective(pending') /\ m \notin ToSet(pending')
  BY TailSet DEF TypeOK, DeliveryInvariant, DeliveredOnce, Delivers
<1>3. m \notin Delivered
  BY <1>1 DEF DeliveryInvariant, DeliveredOnce
<1>4. ASSUME NEW i \in 1..Len(transcript'), NEW j \in 1..Len(transcript'),
             transcript'[i].role = "user", transcript'[i] = transcript'[j]
      PROVE  i = j
  <2>1. /\ transcript \in Seq(Entries) /\ transcript' = Append(transcript, User(m))
        /\ User(m) \in Entries
    BY <1>1, EntryTypes DEF TypeOK, Delivers
  <2>2. /\ Len(transcript') = Len(transcript) + 1
        /\ transcript'[Len(transcript) + 1] = User(m)
        /\ \A k \in 1..Len(transcript) : transcript'[k] = transcript[k]
    BY <2>1
  <2>3. \A k \in 1..Len(transcript) : transcript[k] # User(m)
    BY <1>1, <1>3 DEF Delivered
  <2> QED  BY <1>4, <2>1, <2>2, <2>3 DEF DeliveryInvariant, DeliveredOnce
<1>5. UNCHANGED <<steeringQueue, followUpQueue>>
  BY DEF Delivers
<1>6. DeliveredOnce'
  <2>1. /\ \A q \in {steeringQueue, followUpQueue, pending} : IsInjective(q)
        /\ ToSet(steeringQueue) \intersect ToSet(followUpQueue) = {}
        /\ Waiting \intersect (ToSet(pending) \union Delivered) = {}
        /\ ToSet(pending) \intersect Delivered = {}
    BY DEF DeliveryInvariant, DeliveredOnce
  <2>2. (\A q \in {steeringQueue, followUpQueue, pending} : IsInjective(q))'
    BY <1>2, <1>5, <2>1 DEF IsInjective
  <2>3. (ToSet(steeringQueue) \intersect ToSet(followUpQueue) = {})'
    BY <1>5, <2>1 DEF ToSet
  <2>4. (Waiting \intersect (ToSet(pending) \union Delivered) = {})'
    BY <1>1, <2>1
  <2>5. (ToSet(pending) \intersect Delivered = {})'
    BY <1>1, <1>2, <2>1
  <2> QED  BY <1>4, <2>2, <2>3, <2>4, <2>5 DEF DeliveredOnce
<1> QED  BY <1>1, <1>6 DEF DeliveryInvariant
-----------------------------------------------------------------------------
(* Steps that change hands                                                 *)

\* A queue is drained into the hand of the run.
Takes ==
  /\ \/ /\ pending' = Drained(steeringQueue, SteeringMode)
        /\ steeringQueue' = Left(steeringQueue, SteeringMode)
        /\ followUpQueue' = followUpQueue
     \/ /\ pending' = Drained(followUpQueue, FollowUpMode)
        /\ followUpQueue' = Left(followUpQueue, FollowUpMode)
        /\ steeringQueue' = steeringQueue
  /\ UNCHANGED <<transcript, prompted, steered, followed, withdrawn>>

LEMMA TakesSets ==
  ASSUME TypeOK, Takes
  PROVE  /\ Delivered' = Delivered /\ Sent' = Sent
         /\ Waiting = Waiting' \union ToSet(pending')
         /\ DeliveryInvariant => DeliveryInvariant'
<1>1. Delivered' = Delivered
  BY DEF Takes, Delivered, User
<1>2. Sent' = Sent
  BY DEF Takes, Sent, ToSet
<1>3. ASSUME NEW q, NEW mode, q \in Seq(Messages)
      PROVE  /\ ToSet(q) = ToSet(Drained(q, mode)) \union ToSet(Left(q, mode))
             /\ IsInjective(q) =>
                  /\ IsInjective(Drained(q, mode)) /\ IsInjective(Left(q, mode))
                  /\ ToSet(Drained(q, mode)) \intersect ToSet(Left(q, mode)) = {}
  BY <1>3, DrainSet
<1>4. steeringQueue \in Seq(Messages) /\ followUpQueue \in Seq(Messages)
  BY DEF TypeOK
<1>5. Waiting = ToSet(steeringQueue) \union ToSet(followUpQueue)
      /\ Waiting' = ToSet(steeringQueue') \union ToSet(followUpQueue')
  BY DEF Waiting, ToSet
<1>6. Waiting = Waiting' \union ToSet(pending')
  BY <1>3, <1>4, <1>5 DEF Takes
<1>7. ASSUME DeliveryInvariant PROVE DeliveryInvariant'
  <2>1. /\ IsInjective(steeringQueue) /\ IsInjective(followUpQueue)
        /\ ToSet(steeringQueue) \intersect ToSet(followUpQueue) = {}
        /\ Waiting \intersect Delivered = {}
        /\ Waiting \union Delivered \subseteq Sent
    BY <1>7 DEF DeliveryInvariant, DeliveredOnce
  <2>2. /\ IsInjective(steeringQueue') /\ IsInjective(followUpQueue')
        /\ IsInjective(pending')
    BY <1>3, <1>4, <2>1 DEF Takes
  <2>3. /\ ToSet(steeringQueue') \intersect ToSet(followUpQueue') = {}
        /\ Waiting' \intersect ToSet(pending') = {}
    BY <1>3, <1>4, <1>5, <2>1 DEF Takes
  <2>4. Waiting' \intersect Delivered' = {} /\ ToSet(pending') \intersect Delivered' = {}
    BY <1>1, <1>6, <2>1
  <2>5. \A i, j \in 1..Len(transcript') :
          transcript'[i].role = "user" /\ transcript'[i] = transcript'[j] => i = j
    BY <1>7 DEF DeliveryInvariant, DeliveredOnce, Takes
  <2>6. (\A q \in {steeringQueue, followUpQueue, pending} : IsInjective(q))'
    BY <2>2 DEF IsInjective
  <2>7. (ToSet(steeringQueue) \intersect ToSet(followUpQueue) = {})'
        /\ (Waiting \intersect (ToSet(pending) \union Delivered) = {})'
        /\ (ToSet(pending) \intersect Delivered = {})'
    BY <2>3, <2>4 DEF ToSet
  <2>8. (Waiting \union ToSet(pending) \union Delivered \subseteq Sent)'
    BY <1>1, <1>2, <1>6, <2>1
  <2> QED  BY <2>5, <2>6, <2>7, <2>8 DEF DeliveryInvariant, DeliveredOnce
<1> QED  BY <1>1, <1>2, <1>6, <1>7

\* The hand is emptied: the end of a run, or a run without prompts.
Empties ==
  /\ pending' = <<>>
  /\ UNCHANGED <<steeringQueue, followUpQueue, transcript, prompted, steered,
                 followed, withdrawn>>

LEMMA EmptiesSets ==
  ASSUME TypeOK, Empties
  PROVE  /\ Delivered' = Delivered /\ Sent' = Sent /\ Waiting' = Waiting
         /\ ToSet(pending') = {}
         /\ DeliveryInvariant => DeliveryInvariant'
<1>1. Delivered' = Delivered /\ Sent' = Sent /\ Waiting' = Waiting
  BY DEF Empties, Delivered, User, Sent, Waiting, ToSet
<1>2. ToSet(pending') = {} /\ IsInjective(pending')
  BY DEF Empties, ToSet, IsInjective
<1>3. ASSUME DeliveryInvariant PROVE DeliveryInvariant'
  <2>1. (\A q \in {steeringQueue, followUpQueue, pending} : IsInjective(q))'
    BY <1>2, <1>3 DEF Empties, DeliveryInvariant, DeliveredOnce, IsInjective
  <2>2. (ToSet(steeringQueue) \intersect ToSet(followUpQueue) = {})'
    BY <1>3 DEF Empties, DeliveryInvariant, DeliveredOnce, ToSet
  <2>3. (Waiting \intersect (ToSet(pending) \union Delivered) = {})'
        /\ (ToSet(pending) \intersect Delivered = {})'
        /\ (Waiting \union ToSet(pending) \union Delivered \subseteq Sent)'
    BY <1>1, <1>2, <1>3 DEF DeliveryInvariant, DeliveredOnce
  <2>4. (\A i, j \in 1..Len(transcript) :
           transcript[i].role = "user" /\ transcript[i] = transcript[j] => i = j)'
    BY <1>3 DEF Empties, DeliveryInvariant, DeliveredOnce
  <2> QED  BY <2>1, <2>2, <2>3, <2>4 DEF DeliveryInvariant, DeliveredOnce
<1> QED  BY <1>1, <1>2, <1>3

(* Every step of a turn is of one of these kinds.                          *)
LEMMA TurnKinds == TypeOK /\ Turns => Untouched \/ Delivers \/ Takes \/ Empties
<1> SUFFICES ASSUME TypeOK, Turns PROVE Untouched \/ Delivers \/ Takes \/ Empties
  OBVIOUS
<1> USE DEF queueVars, toolVars, loopVars, callVars, ghostVars
<1>1. CASE EmitPrompt \/ InjectPending
  BY <1>1 DEF EmitPrompt, InjectPending, Delivers
<1>2. CASE InitialPoll
  BY <1>2 DEF InitialPoll, Takes, Untouched
<1>3. CASE OpenStream \/ StreamEnds \/ Decide \/ EndTurn \/ HandleRunFailure
  BY <1>3, TurnsUntouched
<1>4. CASE DrainSteering \/ OuterFollowUp
  BY <1>4 DEF DrainSteering, OuterFollowUp, Takes
<1>5. CASE OuterSteering
  BY <1>5 DEF OuterSteering, Takes, Untouched
<1>6. CASE FinishRun
  BY <1>6 DEF FinishRun, Empties
<1> QED  BY <1>1, <1>2, <1>3, <1>4, <1>5, <1>6 DEF Turns
-----------------------------------------------------------------------------
(* What callers do                                                         *)

\* A new message in a queue, all else as it was.
LEMMA EnqueueOnce ==
  ASSUME TypeOK, DeliveryInvariant, NEW m \in Messages, m \notin Sent,
         \/ /\ steeringQueue' = Append(steeringQueue, m)
            /\ steered' = Append(steered, m)
            /\ UNCHANGED <<followUpQueue, followed>>
         \/ /\ followUpQueue' = Append(followUpQueue, m)
            /\ followed' = Append(followed, m)
            /\ UNCHANGED <<steeringQueue, steered>>,
         UNCHANGED <<transcript, pending, prompted, withdrawn>>
  PROVE  DeliveryInvariant'
<1>1. /\ steeringQueue \in Seq(Messages) /\ followUpQueue \in Seq(Messages)
      /\ steered \in Seq(Messages) /\ followed \in Seq(Messages)
  BY DEF TypeOK
<1>2. /\ m \notin Waiting /\ m \notin ToSet(pending) /\ m \notin Delivered
      /\ m \notin ToSet(steeringQueue) /\ m \notin ToSet(followUpQueue)
  BY DEF DeliveryInvariant, Waiting
<1>2a. \A q \in Seq(Messages) :
         /\ ToSet(Append(q, m)) = ToSet(q) \union {m}
         /\ IsInjective(q) /\ m \notin ToSet(q) => IsInjective(Append(q, m))
  BY AppendSet
<1>3. Sent' = Sent \union {m}
  <2>1. /\ Sent = prompted \union ToSet(steered) \union ToSet(followed)
        /\ Sent' = prompted' \union ToSet(steered') \union ToSet(followed')
    BY DEF Sent, ToSet
  <2> QED  BY <1>1, <1>2a, <2>1
<1>4. Waiting' = Waiting \union {m}
  <2>1. /\ Waiting = ToSet(steeringQueue) \union ToSet(followUpQueue)
        /\ Waiting' = ToSet(steeringQueue') \union ToSet(followUpQueue')
    BY DEF Waiting, ToSet
  <2> QED  BY <1>1, <1>2a, <2>1
<1>5. Delivered' = Delivered
  BY DEF Delivered, User
<1>6. IsInjective(steeringQueue') /\ IsInjective(followUpQueue') /\ IsInjective(pending')
  <2>1. IsInjective(steeringQueue) /\ IsInjective(followUpQueue) /\ IsInjective(pending)
    BY DEF DeliveryInvariant, DeliveredOnce
  <2> QED  BY <1>1, <1>2, <1>2a, <2>1
<1>7. ToSet(steeringQueue') \intersect ToSet(followUpQueue') = {}
  <2>1. ToSet(steeringQueue) \intersect ToSet(followUpQueue) = {}
    BY DEF DeliveryInvariant, DeliveredOnce
  <2> QED  BY <1>1, <1>2, <1>2a, <2>1
<1>8. (\A q \in {steeringQueue, followUpQueue, pending} : IsInjective(q))'
  BY <1>6 DEF IsInjective
<1>9. (ToSet(steeringQueue) \intersect ToSet(followUpQueue) = {})'
  BY <1>7 DEF ToSet
<1>10. ToSet(pending)' = ToSet(pending)
  BY DEF ToSet
<1>11. (Waiting \intersect (ToSet(pending) \union Delivered) = {})'
       /\ (ToSet(pending) \intersect Delivered = {})'
       /\ (Waiting \union ToSet(pending) \union Delivered \subseteq Sent)'
  BY <1>2, <1>3, <1>4, <1>5, <1>10 DEF DeliveryInvariant, DeliveredOnce
<1>12. (\A i, j \in 1..Len(transcript) :
          transcript[i].role = "user" /\ transcript[i] = transcript[j] => i = j)'
  BY DEF DeliveryInvariant, DeliveredOnce
<1> QED  BY <1>8, <1>9, <1>11, <1>12 DEF DeliveryInvariant, DeliveredOnce

LEMMA ClearOnce == DeliveryInvariant /\ ClearAllQueues => DeliveryInvariant'
<1> SUFFICES ASSUME DeliveryInvariant, ClearAllQueues PROVE DeliveryInvariant'
  OBVIOUS
<1>1. /\ Delivered' = Delivered /\ Sent' = Sent /\ Waiting' = {}
      /\ ToSet(pending)' = ToSet(pending)
  BY DEF ClearAllQueues, Delivered, User, Sent, Waiting, ToSet
<1>2. (\A q \in {steeringQueue, followUpQueue, pending} : IsInjective(q))'
  BY DEF ClearAllQueues, DeliveryInvariant, DeliveredOnce, IsInjective
<1>3. (ToSet(steeringQueue) \intersect ToSet(followUpQueue) = {})'
  BY DEF ClearAllQueues, ToSet
<1>4. (\A i, j \in 1..Len(transcript) :
         transcript[i].role = "user" /\ transcript[i] = transcript[j] => i = j)'
  BY DEF ClearAllQueues, DeliveryInvariant, DeliveredOnce
<1>5. (Waiting \intersect (ToSet(pending) \union Delivered) = {})'
      /\ (ToSet(pending) \intersect Delivered = {})'
      /\ (Waiting \union ToSet(pending) \union Delivered \subseteq Sent)'
  BY <1>1 DEF DeliveryInvariant, DeliveredOnce
<1> QED  BY <1>2, <1>3, <1>4, <1>5 DEF DeliveryInvariant, DeliveredOnce

(* The front of a conversation is all of it but the last entry.            *)
LEMMA FrontFields ==
  ASSUME NEW q \in Seq(Entries), q # <<>>
  PROVE  /\ Len(Front(q)) = Len(q) - 1
         /\ \A i \in 1..(Len(q) - 1) : Front(q)[i] = q[i]
<1> DEFINE n == Len(q) - 1
<1>1. n \in Nat /\ n <= Len(q) /\ 1 \in Int /\ n \in Int
  OBVIOUS
<1>2. \A i \in 1..n : q[i] \in Entries
  BY <1>1
<1> HIDE DEF n
<1>3. /\ Len(SubSeq(q, 1, n)) = IF 1 <= n THEN n - 1 + 1 ELSE 0
      /\ \A i \in 1..(n - 1 + 1) : SubSeq(q, 1, n)[i] = q[1 + i - 1]
  BY <1>1, <1>2, SubSeqProperties
<1>4. \A i \in 1..n : i \in 1..(n - 1 + 1) /\ 1 + i - 1 = i
  BY <1>1
<1>5. Len(SubSeq(q, 1, n)) = n /\ \A i \in 1..n : SubSeq(q, 1, n)[i] = q[i]
  BY <1>1, <1>3, <1>4
<1>6. Front(q) = SubSeq(q, 1, n)
  BY DEF Front, n
<1> QED  BY <1>5, <1>6 DEF n

(* A retry removes an assistant message, which delivers nothing.           *)
LEMMA DropSets ==
  ASSUME TypeOK, DropLastAssistant
  PROVE  /\ Delivered' = Delivered /\ Sent' = Sent /\ Waiting' = Waiting
         /\ ToSet(pending)' = ToSet(pending)
         /\ DeliveryInvariant => DeliveryInvariant'
<1> USE DEF queueVars, callVars, ghostVars
<1>1. Sent' = Sent /\ Waiting' = Waiting /\ ToSet(pending)' = ToSet(pending)
  BY DEF DropLastAssistant, Sent, Waiting, ToSet
<1>2. /\ transcript \in Seq(Entries) /\ transcript # <<>>
      /\ Len(transcript) \in Nat /\ Len(transcript) > 0
      /\ transcript[Len(transcript)].role = "assistant"
  BY DEF TypeOK, DropLastAssistant, EndsWithAssistant, Last
<1>3. Len(transcript') = Len(transcript) - 1
      /\ \A i \in 1..(Len(transcript) - 1) : transcript'[i] = transcript[i]
  BY <1>2, FrontFields DEF DropLastAssistant
<1>4. \A m : transcript[Len(transcript)] # User(m)
  BY <1>2 DEF User
<1>5. Delivered' = Delivered
  <2>1. \A m \in Messages : (m \in Delivered)' <=> m \in Delivered
    <3> TAKE m \in Messages
    <3>1. (m \in Delivered)' <=> \E i \in 1..Len(transcript') : transcript'[i] = User(m)
      BY DEF Delivered, User
    <3>2. m \in Delivered <=> \E i \in 1..Len(transcript) : transcript[i] = User(m)
      BY DEF Delivered
    <3> QED  BY <1>2, <1>3, <1>4, <3>1, <3>2
  <2> QED  BY <2>1 DEF Delivered
<1>6. ASSUME DeliveryInvariant PROVE DeliveryInvariant'
  <2>1. \A i, j \in 1..Len(transcript') :
          transcript'[i].role = "user" /\ transcript'[i] = transcript'[j] => i = j
    BY <1>2, <1>3, <1>6 DEF DeliveryInvariant, DeliveredOnce
  <2>2. (\A q \in {steeringQueue, followUpQueue, pending} : IsInjective(q))'
        /\ (ToSet(steeringQueue) \intersect ToSet(followUpQueue) = {})'
    BY <1>6 DEF DropLastAssistant, DeliveryInvariant, DeliveredOnce, IsInjective, ToSet
  <2>3. (Waiting \intersect (ToSet(pending) \union Delivered) = {})'
        /\ (ToSet(pending) \intersect Delivered = {})'
        /\ (Waiting \union ToSet(pending) \union Delivered \subseteq Sent)'
    BY <1>1, <1>5, <1>6 DEF DeliveryInvariant, DeliveredOnce
  <2> QED  BY <2>1, <2>2, <2>3 DEF DeliveryInvariant, DeliveredOnce
<1> QED  BY <1>1, <1>5, <1>6

(* A prompt puts new messages into the hand of a run that has none.        *)
LEMMA PromptInjective == \A ms \in Prompts : IsInjective(ms)
<1> SUFFICES ASSUME NEW ms \in Prompts PROVE IsInjective(ms)
  OBVIOUS
<1>1. CASE \E m \in Messages : ms = <<m>>
  BY <1>1 DEF IsInjective
<1>2. ASSUME NEW p \in Messages \X Messages, p[1] # p[2], ms = <<p[1], p[2]>>
      PROVE  IsInjective(ms)
  BY <1>2 DEF IsInjective
<1> QED  BY <1>1, <1>2 DEF Prompts

LEMMA PromptSets ==
  ASSUME TypeOK, NEW ms \in Prompts, Prompt(ms)
  PROVE  /\ Delivered' = Delivered /\ Waiting' = Waiting
         /\ Sent' = Sent \union ToSet(pending') /\ withdrawn' = withdrawn
         /\ DeliveryInvariant => DeliveryInvariant'
<1> USE DEF queueVars
<1>1. Delivered' = Delivered /\ Waiting' = Waiting
  BY DEF Prompt, Begin, Delivered, User, Waiting, ToSet
<1>2. pending' = ms /\ IsInjective(pending') /\ ToSet(pending') \intersect Sent = {}
  BY PromptInjective DEF Prompt, Begin, Fresh
<1>3. Sent' = Sent \union ToSet(pending')
  BY <1>2 DEF Prompt, Sent, ToSet
<1>4. ASSUME DeliveryInvariant PROVE DeliveryInvariant'
  <2>1. (\A q \in {steeringQueue, followUpQueue, pending} : IsInjective(q))'
    BY <1>2, <1>4 DEF Prompt, DeliveryInvariant, DeliveredOnce, IsInjective
  <2>2. (ToSet(steeringQueue) \intersect ToSet(followUpQueue) = {})'
    BY <1>4 DEF Prompt, DeliveryInvariant, DeliveredOnce, ToSet
  <2>3. (\A i, j \in 1..Len(transcript) :
           transcript[i].role = "user" /\ transcript[i] = transcript[j] => i = j)'
    BY <1>4 DEF Prompt, Begin, DeliveryInvariant, DeliveredOnce
  <2>4. Waiting \intersect Delivered = {} /\ Waiting \union Delivered \subseteq Sent
    BY <1>4 DEF DeliveryInvariant, DeliveredOnce
  <2>5. (Waiting \intersect (ToSet(pending) \union Delivered) = {})'
        /\ (ToSet(pending) \intersect Delivered = {})'
        /\ (Waiting \union ToSet(pending) \union Delivered \subseteq Sent)'
    <3>1. ToSet(pending)' = ToSet(pending')
      BY DEF ToSet
    <3> QED  BY <1>1, <1>2, <1>3, <2>4, <3>1
  <2> QED  BY <2>1, <2>2, <2>3, <2>5 DEF DeliveryInvariant, DeliveredOnce
<1> QED  BY <1>1, <1>3, <1>4 DEF Prompt

(* The steps of callers that are of a kind above.                          *)
LEMMA ContinueKinds ==
  /\ ContinueWithSteering \/ ContinueWithFollowUps => Takes
  /\ ContinueTranscript => Empties
  /\ Abort \/ Interrupt => Untouched
<1> USE DEF queueVars, callVars, ghostVars
<1>1. ContinueWithSteering \/ ContinueWithFollowUps => Takes
  BY DEF ContinueWithSteering, ContinueWithFollowUps, Begin, Takes
<1>2. ContinueTranscript => Empties
  BY DEF ContinueTranscript, Begin, Empties
<1>3. Abort \/ Interrupt => Untouched
  BY DEF Abort, Interrupt, Untouched
<1> QED  BY <1>1, <1>2, <1>3
-----------------------------------------------------------------------------
LEMMA DeliveryInit == Init => DeliveryInvariant
BY DEF Init, DeliveryInvariant, DeliveredOnce, IsInjective, ToSet, Waiting, Delivered, Sent

LEMMA DeliveryStep == TypeOK /\ DeliveryInvariant /\ [Next]_vars => DeliveryInvariant'
<1> SUFFICES ASSUME TypeOK, DeliveryInvariant, [Next]_vars PROVE DeliveryInvariant'
  OBVIOUS
<1>1. CASE Untouched
  <2>1. /\ Delivered' = Delivered /\ Waiting' = Waiting /\ Sent' = Sent
        /\ DeliveredOnce'
    BY <1>1, UntouchedDelivery DEF DeliveryInvariant
  <2>2. ToSet(pending)' = ToSet(pending)
    BY <1>1 DEF Untouched, ToSet
  <2> QED  BY <2>1, <2>2 DEF DeliveryInvariant
<1>2. CASE Delivers \/ Takes \/ Empties
  BY <1>2, DeliversOnce, TakesSets, EmptiesSets
<1>3. CASE Loop
  BY <1>1, <1>2, <1>3, TurnKinds, ToolsUntouched DEF Loop
<1>4. CASE Fault
  BY <1>1, <1>4, FaultUntouched
<1>5. CASE Caller
  <2>1. ASSUME NEW m \in Messages, Steer(m) \/ FollowUp(m) PROVE DeliveryInvariant'
    BY <2>1, EnqueueOnce DEF Steer, FollowUp, Fresh
  <2>2. ASSUME NEW ms \in Prompts, Prompt(ms) PROVE DeliveryInvariant'
    BY <2>2, PromptSets
  <2>3. CASE ClearAllQueues \/ DropLastAssistant
    BY <2>3, ClearOnce, DropSets
  <2>4. CASE \/ Abort \/ Interrupt
             \/ ContinueWithSteering \/ ContinueWithFollowUps \/ ContinueTranscript
    BY <1>1, <1>2, <2>4, ContinueKinds
  <2> QED  BY <1>5, <2>1, <2>2, <2>3, <2>4 DEF Caller
<1>6. CASE UNCHANGED vars
  BY <1>1, <1>6 DEF vars, Untouched, queueVars, callVars, ghostVars
<1> QED  BY <1>3, <1>4, <1>5, <1>6 DEF Next

(* Nothing is ever delivered twice, drained twice or in two places: for    *)
(* every number of messages, in both queue modes, with listeners that      *)
(* throw and epochs that go stale.                                         *)
THEOREM DeliveryOnce == Spec => []DeliveredOnce
<1>1. DeliveryInvariant => DeliveredOnce
  BY DEF DeliveryInvariant
<1> QED  BY <1>1, DeliveryInit, DeliveryStep, TypeCorrect, PTL DEF Spec
-----------------------------------------------------------------------------
(* Nothing is lost                                                         *)

LEMMA HandsStep ==
  ASSUME MaxFaults = 0, EpochCanGoStale = FALSE, TypeOK, HandsInvariant, [Next]_vars
  PROVE  HandsInvariant'
<1> USE DEF queueVars, toolVars, loopVars, callVars, ghostVars, HandsInvariant
<1>1. ASSUME NEW m \in Messages, Steer(m) \/ FollowUp(m) PROVE HandsInvariant'
  BY <1>1 DEF Steer, FollowUp
<1>2. ASSUME NEW ms \in Prompts, Prompt(ms) PROVE HandsInvariant'
  BY <1>2 DEF Prompt, Begin
<1>3. CASE ContinueWithSteering \/ ContinueWithFollowUps \/ ContinueTranscript
  BY <1>3 DEF ContinueWithSteering, ContinueWithFollowUps, ContinueTranscript, Begin
<1>4. CASE ClearAllQueues \/ Abort \/ Interrupt \/ DropLastAssistant
  BY <1>4 DEF ClearAllQueues, Abort, Interrupt, DropLastAssistant
<1>5. CASE Fault
  BY <1>5 DEF Fault, Throw, ThrowFromTool, TypeOK
<1>6. CASE EmitPrompt \/ InitialPoll \/ InjectPending
  BY <1>6 DEF EmitPrompt, InitialPoll, InjectPending
<1>7. CASE OpenStream \/ StreamEnds \/ Decide \/ EndTurn
  BY <1>7 DEF OpenStream, StreamEnds, Decide, EndTurn
<1>8. CASE DrainSteering \/ OuterSteering \/ OuterFollowUp
  BY <1>8 DEF DrainSteering, OuterSteering, OuterFollowUp
<1>9. CASE HandleRunFailure \/ FinishRun
  BY <1>9 DEF HandleRunFailure, FinishRun
<1>10. CASE FailTruncatedCall \/ BeginCall \/ RejectCall \/ AcceptCall \/ CheckAbort
  <2>1. CASE FailTruncatedCall
    <3>1. UNCHANGED <<phase, stale, pending>>
      BY <2>1 DEF FailTruncatedCall
    <3> QED  BY <3>1
  <2>1a. CASE BeginCall \/ CheckAbort
    BY <2>1a DEF BeginCall, CheckAbort
  <2>2. CASE RejectCall
    BY <2>2 DEF RejectCall
  <2>3. CASE AcceptCall
    BY <2>3 DEF AcceptCall
  <2> QED  BY <1>10, <2>1, <2>1a, <2>2, <2>3
<1>11. CASE BatchPrepared \/ SequentialToolEnds \/ ToolsSettled \/ EmitResult \/ BatchEnds
  BY <1>11 DEF BatchPrepared, SequentialToolEnds, ToolsSettled, EmitResult, BatchEnds
<1>12. ASSUME NEW i \in 1..MaxCalls, ParallelToolEnds(i) PROVE HandsInvariant'
  BY <1>12 DEF ParallelToolEnds
<1>13. ASSUME NEW c \in executing, StrayToolEnds(c) PROVE HandsInvariant'
  BY <1>13 DEF StrayToolEnds
<1>14. CASE UNCHANGED vars
  BY <1>14 DEF vars
<1> QED
  BY <1>1, <1>2, <1>3, <1>4, <1>5, <1>6, <1>7, <1>8, <1>9, <1>10, <1>11, <1>12, <1>13,
     <1>14
  DEF Next, Loop, Caller, Turns, Tools

\* What queueing a message and clearing the queues do to the places of messages.
LEMMA SendSets ==
  ASSUME TypeOK, NEW m \in Messages, Steer(m) \/ FollowUp(m)
  PROVE  /\ m \notin Sent /\ Sent' = Sent \union {m} /\ Waiting' = Waiting \union {m}
         /\ Delivered' = Delivered /\ withdrawn' = withdrawn /\ pending' = pending
<1>1. \A q \in Seq(Messages) : ToSet(Append(q, m)) = ToSet(q) \union {m}
  BY AppendSet
<1>2. /\ Sent = prompted \union ToSet(steered) \union ToSet(followed)
      /\ Sent' = prompted' \union ToSet(steered') \union ToSet(followed')
      /\ Waiting = ToSet(steeringQueue) \union ToSet(followUpQueue)
      /\ Waiting' = ToSet(steeringQueue') \union ToSet(followUpQueue')
  BY DEF Sent, Waiting, ToSet
<1>3. /\ steeringQueue \in Seq(Messages) /\ followUpQueue \in Seq(Messages)
      /\ steered \in Seq(Messages) /\ followed \in Seq(Messages)
  BY DEF TypeOK
<1>4. Sent' = Sent \union {m} /\ Waiting' = Waiting \union {m}
  BY <1>1, <1>2, <1>3 DEF Steer, FollowUp
<1>5. Delivered' = Delivered /\ withdrawn' = withdrawn /\ pending' = pending
  BY DEF Steer, FollowUp, Delivered, User
<1>6. m \notin Sent
  BY DEF Steer, FollowUp, Fresh
<1> QED  BY <1>4, <1>5, <1>6

LEMMA ClearSets ==
  ASSUME ClearAllQueues
  PROVE  /\ Sent' = Sent /\ Delivered' = Delivered /\ pending' = pending
         /\ withdrawn' = withdrawn \union Waiting /\ Waiting' = {}
BY DEF ClearAllQueues, Sent, Delivered, User, Waiting, ToSet

\* What a step does to the messages that are neither withdrawn nor lost.
LEMMA KeptStep ==
  ASSUME MaxFaults = 0, EpochCanGoStale = FALSE, TypeOK, HandsInvariant, NoMessageLost,
         [Next]_vars
  PROVE  NoMessageLost'
<1> USE DEF queueVars, callVars, ghostVars
<1>0. ToSet(pending)' = ToSet(pending')
  BY DEF ToSet
<1>1. CASE Untouched
  <2>1. /\ Delivered' = Delivered /\ Waiting' = Waiting /\ Sent' = Sent
        /\ withdrawn' = withdrawn /\ pending' = pending
    BY <1>1, UntouchedDelivery DEF Untouched
  <2> QED  BY <1>0, <2>1 DEF NoMessageLost
<1>2. CASE Delivers
  <2>1. withdrawn' = withdrawn
    BY <1>2 DEF Delivers
  <2> QED  BY <1>0, <1>2, <2>1, DeliversSets DEF NoMessageLost
<1>3. ASSUME pending = <<>>, Takes \/ Empties PROVE NoMessageLost'
  <2>1. withdrawn' = withdrawn /\ ToSet(pending) = {}
    BY <1>3 DEF Takes, Empties, ToSet
  <2> QED  BY <1>0, <1>3, <2>1, TakesSets, EmptiesSets DEF NoMessageLost
<1>4. CASE Turns
  <2>1. CASE InitialPoll \/ DrainSteering \/ OuterSteering \/ OuterFollowUp \/ FinishRun
    <3>1. pending = <<>>
      BY <2>1 DEF InitialPoll, DrainSteering, OuterSteering, OuterFollowUp, FinishRun,
                  HandsInvariant
    <3> QED  BY <1>1, <1>2, <1>3, <1>4, <3>1, TurnKinds
  <2>2. CASE EmitPrompt \/ InjectPending
    BY <1>2, <2>2 DEF EmitPrompt, InjectPending, Delivers, loopVars
  <2>3. CASE OpenStream \/ StreamEnds \/ Decide \/ EndTurn \/ HandleRunFailure
    BY <1>1, <2>3, TurnsUntouched
  <2> QED  BY <1>4, <2>1, <2>2, <2>3 DEF Turns
<1>5. CASE Tools \/ Fault
  BY <1>1, <1>5, ToolsUntouched, FaultUntouched
<1>6. ASSUME NEW m \in Messages, Steer(m) \/ FollowUp(m) PROVE NoMessageLost'
  BY <1>0, <1>6, SendSets DEF NoMessageLost
<1>7. CASE ClearAllQueues
  BY <1>0, <1>7, ClearSets DEF NoMessageLost
<1>8. ASSUME NEW ms \in Prompts, Prompt(ms) PROVE NoMessageLost'
  <2>1. pending = <<>>
    BY <1>8 DEF Prompt, HandsInvariant
  <2>2. ToSet(pending) = {}
    BY <2>1 DEF ToSet
  <2> QED  BY <1>0, <1>8, <2>2, PromptSets DEF NoMessageLost
<1>9. CASE DropLastAssistant
  <2>1. withdrawn' = withdrawn
    BY <1>9 DEF DropLastAssistant
  <2> QED  BY <1>9, <2>1, DropSets DEF NoMessageLost
<1>10. CASE ContinueWithSteering \/ ContinueWithFollowUps \/ ContinueTranscript
  <2>1. pending = <<>>
    BY <1>10 DEF ContinueWithSteering, ContinueWithFollowUps, ContinueTranscript,
                 HandsInvariant
  <2> QED  BY <1>3, <1>10, <2>1, ContinueKinds
<1>11. CASE Abort \/ Interrupt
  BY <1>1, <1>11, ContinueKinds
<1>12. CASE UNCHANGED vars
  BY <1>1, <1>12 DEF vars, Untouched
<1> QED
  BY <1>4, <1>5, <1>6, <1>7, <1>8, <1>9, <1>10, <1>11, <1>12 DEF Next, Loop, Caller

(* While nothing throws and no epoch goes stale, no message is ever lost:  *)
(* in both queue modes, over any number of messages, aborts, failed        *)
(* replies, retries and runs resumed with what is queued.                  *)
THEOREM NothingLost ==
  ASSUME MaxFaults = 0, EpochCanGoStale = FALSE
  PROVE  Spec => []NoMessageLost
<1>1. Init => HandsInvariant /\ NoMessageLost
  BY DEF Init, HandsInvariant, NoMessageLost, Sent, ToSet
<1>2. TypeOK /\ (HandsInvariant /\ NoMessageLost) /\ [Next]_vars
        => (HandsInvariant /\ NoMessageLost)'
  BY HandsStep, KeptStep
<1> QED  BY <1>1, <1>2, TypeCorrect, PTL DEF Spec

-----------------------------------------------------------------------------
(* Queues and what was put into them                                       *)

\* A queue is the end of what was ever put into it, and nothing was put twice.
QueuesInvariant ==
  /\ EndsWith(steered, steeringQueue) /\ EndsWith(followed, followUpQueue)
  /\ IsInjective(steered) /\ IsInjective(followed)
  /\ ToSet(steered) \intersect ToSet(followed) = {}

LEMMA EndsLeft ==
  ASSUME NEW s \in Seq(Messages), NEW q \in Seq(Messages), EndsWith(s, q), NEW mode
  PROVE  EndsWith(s, <<>>) /\ EndsWith(s, Left(q, mode)) /\ ToSet(q) \subseteq ToSet(s)
<1>1. EndsWith(s, <<>>)
  BY DEF EndsWith
<1>2. ASSUME Left(q, mode) = <<>> PROVE EndsWith(s, Left(q, mode))
  BY <1>1, <1>2
<1>3. ASSUME q # <<>>, Left(q, mode) = Tail(q) PROVE EndsWith(s, Left(q, mode))
  <2>1. /\ Len(Tail(q)) = Len(q) - 1 /\ \A k \in 1..(Len(q) - 1) : Tail(q)[k] = q[k + 1]
        /\ Len(q) \in Nat /\ Len(s) \in Nat
    BY <1>3
  <2> QED  BY <1>3, <2>1 DEF EndsWith
<1>4. ToSet(q) \subseteq ToSet(s)
  <2> SUFFICES ASSUME NEW k \in 1..Len(q) PROVE q[k] \in ToSet(s)
    BY DEF ToSet
  <2>1. q[k] = s[Len(s) - Len(q) + k] /\ Len(s) - Len(q) + k \in 1..Len(s)
    BY DEF EndsWith
  <2> QED  BY <2>1 DEF ToSet
<1> QED  BY <1>1, <1>2, <1>3, <1>4 DEF Left

LEMMA QueuesStep == TypeOK /\ QueuesInvariant /\ [Next]_vars => QueuesInvariant'
<1> SUFFICES ASSUME TypeOK, QueuesInvariant, [Next]_vars PROVE QueuesInvariant'
  OBVIOUS
<1> USE DEF queueVars, callVars, ghostVars
<1>1. /\ steered \in Seq(Messages) /\ followed \in Seq(Messages)
      /\ steeringQueue \in Seq(Messages) /\ followUpQueue \in Seq(Messages)
  BY DEF TypeOK
<1>2. /\ EndsWith(steered, steeringQueue) /\ EndsWith(followed, followUpQueue)
      /\ IsInjective(steered) /\ IsInjective(followed)
      /\ ToSet(steered) \intersect ToSet(followed) = {}
  BY DEF QueuesInvariant
<1>3. ASSUME UNCHANGED <<steered, followed>>,
             steeringQueue' \in {steeringQueue, <<>>, Left(steeringQueue, SteeringMode)},
             followUpQueue' \in {followUpQueue, <<>>, Left(followUpQueue, FollowUpMode)}
      PROVE  QueuesInvariant'
  <2>1. EndsWith(steered, steeringQueue') /\ EndsWith(followed, followUpQueue')
    BY <1>1, <1>2, <1>3, EndsLeft
  <2> QED  BY <1>2, <1>3, <2>1 DEF QueuesInvariant, ToSet, IsInjective
<1>4. CASE Untouched \/ Delivers \/ Takes \/ Empties
  BY <1>3, <1>4 DEF Untouched, Delivers, Takes, Empties
<1>5. ASSUME NEW m \in Messages, Steer(m) PROVE QueuesInvariant'
  <2>1. /\ steered' = Append(steered, m) /\ steeringQueue' = Append(steeringQueue, m)
        /\ m \notin ToSet(steered) /\ m \notin ToSet(followed)
        /\ followed' = followed /\ followUpQueue' = followUpQueue
    BY <1>5 DEF Steer, Fresh, Sent
  <2>2. EndsWith(steered', steeringQueue') /\ IsInjective(steered')
        /\ ToSet(steered') \intersect ToSet(followed) = {}
    BY <1>1, <1>2, <2>1, EndsAppend, AppendSet
  <2> QED  BY <1>2, <2>1, <2>2 DEF QueuesInvariant, ToSet, IsInjective
<1>6. ASSUME NEW m \in Messages, FollowUp(m) PROVE QueuesInvariant'
  <2>1. /\ followed' = Append(followed, m) /\ followUpQueue' = Append(followUpQueue, m)
        /\ m \notin ToSet(steered) /\ m \notin ToSet(followed)
        /\ steered' = steered /\ steeringQueue' = steeringQueue
    BY <1>6 DEF FollowUp, Fresh, Sent
  <2>2. EndsWith(followed', followUpQueue') /\ IsInjective(followed')
        /\ ToSet(steered) \intersect ToSet(followed') = {}
    BY <1>1, <1>2, <2>1, EndsAppend, AppendSet
  <2> QED  BY <1>2, <2>1, <2>2 DEF QueuesInvariant, ToSet, IsInjective
<1>7. CASE ClearAllQueues \/ DropLastAssistant \/ (\E ms \in Prompts : Prompt(ms))
  BY <1>3, <1>7 DEF ClearAllQueues, DropLastAssistant, Prompt
<1>8. CASE UNCHANGED vars
  BY <1>3, <1>8 DEF vars
<1> QED
  BY <1>4, <1>5, <1>6, <1>7, <1>8, ToolsUntouched, FaultUntouched, TurnKinds, ContinueKinds
  DEF Next, Loop, Caller

-----------------------------------------------------------------------------
(* Follow-ups wait for steering messages                                   *)

HandPhases == {"prompts", "turn", "failing", "ending"}
OwedInvariant ==
  /\ phase \notin HandPhases => pending = <<>>
  /\ owed \subseteq Sent
  /\ phase \in {"idle", "prompts"} => owed = {}
  /\ phase \in {"outer", "outerFollowUp"} => owed \intersect ToSet(steeringQueue) = {}
  /\ SteeringBeforeFollowUp

LEMMA OwedStep ==
  ASSUME TypeOK, DeliveryInvariant, QueuesInvariant, OwedInvariant, [Next]_vars
  PROVE  OwedInvariant'
<1> USE DEF queueVars, callVars, ghostVars, loopVars, toolVars, HandPhases
<1>1. /\ steered \in Seq(Messages) /\ followed \in Seq(Messages) /\ pending \in Seq(Messages)
      /\ steeringQueue \in Seq(Messages) /\ followUpQueue \in Seq(Messages)
  BY DEF TypeOK
<1>2. /\ ToSet(steeringQueue) \subseteq ToSet(steered)
      /\ ToSet(followUpQueue) \subseteq ToSet(followed)
      /\ ToSet(steered) \intersect ToSet(followed) = {}
      /\ ToSet(pending) \subseteq Sent
  BY <1>1, EndsLeft DEF QueuesInvariant, DeliveryInvariant
<1>3. ToSet(<<>>) = {}
  BY DEF ToSet
<1>4. /\ ToSet(pending)' = ToSet(pending') /\ ToSet(followed)' = ToSet(followed')
      /\ ToSet(steeringQueue)' = ToSet(steeringQueue')
      /\ Sent' = prompted' \union ToSet(steered') \union ToSet(followed')
  BY DEF ToSet, Sent
<1>5. ASSUME UNCHANGED <<owed, prompted, steered, followed>>,
             ToSet(steeringQueue') \subseteq ToSet(steeringQueue),
             ToSet(pending') \subseteq ToSet(pending) \/ ToSet(pending') \intersect ToSet(followed) = {},
             phase' \notin HandPhases => pending' = <<>>,
             phase' \in {"idle", "prompts"} => owed = {},
             phase' \in {"outer", "outerFollowUp"} => owed \intersect ToSet(steeringQueue') = {}
      PROVE  OwedInvariant'
  <2>1. Sent' = Sent
    BY <1>4, <1>5 DEF Sent
  <2>2. SteeringBeforeFollowUp'
    BY <1>4, <1>5 DEF OwedInvariant, SteeringBeforeFollowUp
  <2> QED  BY <1>4, <1>5, <2>1, <2>2 DEF OwedInvariant
<1>6. ASSUME NEW m \in Messages, Steer(m) \/ FollowUp(m) PROVE OwedInvariant'
  <2>1. /\ m \notin Sent /\ UNCHANGED <<owed, prompted, pending, phase>>
        /\ steeringQueue' \in {steeringQueue, Append(steeringQueue, m)}
        /\ \/ steered' = Append(steered, m) /\ followed' = followed
           \/ steered' = steered /\ followed' = Append(followed, m)
    BY <1>6 DEF Steer, FollowUp, Fresh
  <2>2. /\ ToSet(steeringQueue') \subseteq ToSet(steeringQueue) \union {m}
        /\ ToSet(followed') \subseteq ToSet(followed) \union {m}
        /\ Sent' = Sent \union {m}
    <3>1. \A q \in Seq(Messages) : ToSet(Append(q, m)) = ToSet(q) \union {m}
      BY AppendSet
    <3>2. /\ ToSet(steeringQueue') \subseteq ToSet(steeringQueue) \union {m}
          /\ ToSet(followed') \subseteq ToSet(followed) \union {m}
      BY <1>1, <2>1, <3>1
    <3>3. ToSet(steered') \union ToSet(followed') = ToSet(steered) \union ToSet(followed) \union {m}
      BY <1>1, <2>1, <3>1
    <3>4. Sent = prompted \union ToSet(steered) \union ToSet(followed)
      BY DEF Sent
    <3> QED  BY <1>4, <2>1, <3>2, <3>3, <3>4
  <2>3. m \notin owed /\ m \notin ToSet(pending)
    BY <1>2, <2>1 DEF OwedInvariant
  <2>4. SteeringBeforeFollowUp'
    BY <1>4, <2>1, <2>2, <2>3 DEF OwedInvariant, SteeringBeforeFollowUp
  <2> QED  BY <1>4, <2>1, <2>2, <2>3, <2>4 DEF OwedInvariant
<1>7. CASE ClearAllQueues
  BY <1>3, <1>5, <1>7 DEF ClearAllQueues, OwedInvariant
<1>8. CASE Abort \/ Interrupt \/ DropLastAssistant
  BY <1>5, <1>8 DEF Abort, Interrupt, DropLastAssistant, OwedInvariant
<1>9. ASSUME NEW ms \in Prompts, Prompt(ms) PROVE OwedInvariant'
  <2>1. /\ owed' = owed /\ phase = "idle" /\ phase' = "prompts" /\ pending' = ms
        /\ ToSet(ms) \intersect Sent = {}
        /\ UNCHANGED <<steeringQueue, steered, followed>> /\ prompted \subseteq prompted'
    BY <1>9 DEF Prompt, Begin, Fresh
  <2>2. Sent \subseteq Sent' /\ owed = {}
    BY <1>4, <2>1 DEF OwedInvariant, Sent
  <2>3. SteeringBeforeFollowUp'
    BY <1>4, <2>1, <2>2 DEF SteeringBeforeFollowUp
  <2> QED  BY <2>1, <2>2, <2>3 DEF OwedInvariant
<1>10. CASE ContinueWithSteering \/ ContinueWithFollowUps \/ ContinueTranscript
  <2>1. /\ owed' = owed /\ phase = "idle" /\ phase' = "prompts"
        /\ UNCHANGED <<prompted, steered, followed>>
    BY <1>10 DEF ContinueWithSteering, ContinueWithFollowUps, ContinueTranscript, Begin
  <2>2. owed = {} /\ Sent' = Sent
    BY <1>4, <2>1 DEF OwedInvariant, Sent
  <2> QED  BY <2>1, <2>2 DEF OwedInvariant, SteeringBeforeFollowUp
<1>11. CASE Fault
  BY <1>5, <1>11 DEF Fault, Throw, ThrowFromTool, OwedInvariant
<1>12. CASE EmitPrompt \/ InjectPending
  <2>1. /\ UNCHANGED <<owed, prompted, steered, followed, steeringQueue, phase>>
        /\ pending' = Tail(pending) /\ pending # <<>> /\ phase \in {"prompts", "turn"}
    BY <1>12 DEF EmitPrompt, InjectPending
  <2>2. ToSet(pending') \subseteq ToSet(pending)
    BY <1>1, <2>1, TailSet
  <2> QED  BY <1>5, <2>1, <2>2 DEF OwedInvariant
<1>13. CASE InitialPoll \/ DrainSteering \/ OuterSteering
  <2>1. /\ UNCHANGED <<owed, prompted, steered, followed>>
        /\ phase' \in {"turn", "ending", "outer", "outerFollowUp"}
    BY <1>13 DEF InitialPoll, DrainSteering, OuterSteering
  <2>2. \/ pending' = Drained(steeringQueue, SteeringMode)
             /\ steeringQueue' = Left(steeringQueue, SteeringMode)
             /\ (phase' \in {"outer", "outerFollowUp"} => pending' = <<>>)
        \/ pending' = pending /\ steeringQueue' = steeringQueue
             /\ phase' \in {"turn", "ending"}
    BY <1>13 DEF InitialPoll, DrainSteering, OuterSteering
  <2>3. /\ ToSet(steeringQueue') \subseteq ToSet(steeringQueue)
        /\ ToSet(pending') \subseteq ToSet(pending)
             \/ ToSet(pending') \intersect ToSet(followed) = {}
    BY <1>1, <1>2, <2>2, DrainSet
  <2>4. ASSUME phase' \in {"outer", "outerFollowUp"} PROVE steeringQueue' = <<>> /\ pending' = <<>>
    <3>1. Drained(steeringQueue, SteeringMode) = <<>> /\ steeringQueue' = Left(steeringQueue, SteeringMode)
      BY <2>2, <2>4
    <3>2. steeringQueue = <<>>
      BY <1>1, <3>1, DrainsSome
    <3> QED  BY <2>2, <2>4, <3>1, <3>2 DEF Left
  <2> QED  BY <1>3, <1>5, <2>1, <2>3, <2>4
<1>14. CASE OuterFollowUp
  <2>1. /\ UNCHANGED <<owed, prompted, steered, followed, steeringQueue>>
        /\ phase' \in {"turn", "ending"} /\ phase = "outerFollowUp"
    BY <1>14 DEF OuterFollowUp
  <2>2. owed \intersect ToSet(steeringQueue) = {} /\ owed \subseteq Sent /\ Sent' = Sent
    BY <1>4, <2>1 DEF OwedInvariant, Sent
  <2>3. SteeringBeforeFollowUp'
    BY <1>4, <2>1, <2>2 DEF SteeringBeforeFollowUp
  <2> QED  BY <2>1, <2>2, <2>3 DEF OwedInvariant
<1>15. CASE EndTurn
  <2>1. /\ owed' = ToSet(steeringQueue) /\ phase = "turnEnd" /\ phase' = "drain"
        /\ UNCHANGED <<pending, prompted, steered, followed, steeringQueue>>
    BY <1>15 DEF EndTurn
  <2>2. pending' = <<>> /\ Sent' = Sent /\ owed' \subseteq Sent
    BY <1>2, <1>4, <2>1 DEF OwedInvariant, Sent
  <2>3. SteeringBeforeFollowUp'
    BY <1>3, <1>4, <2>2 DEF SteeringBeforeFollowUp
  <2> QED  BY <2>1, <2>2, <2>3 DEF OwedInvariant
<1>16. CASE FinishRun
  <2>1. /\ owed' = {} /\ pending' = <<>> /\ phase' = "idle"
    BY <1>16 DEF FinishRun
  <2>2. SteeringBeforeFollowUp'
    BY <1>3, <1>4, <2>1 DEF SteeringBeforeFollowUp
  <2> QED  BY <2>1, <2>2 DEF OwedInvariant
<1>17. CASE OpenStream \/ StreamEnds \/ Decide \/ HandleRunFailure
  BY <1>5, <1>17 DEF OpenStream, StreamEnds, Decide, HandleRunFailure, OwedInvariant
<1>18. CASE Tools
  <2>1. UNCHANGED <<owed, prompted, steered, followed, steeringQueue, pending>>
    BY <1>18 DEF Tools, FailTruncatedCall, BeginCall, RejectCall, AcceptCall, CheckAbort,
       BatchPrepared, SequentialToolEnds, ParallelToolEnds, ToolsSettled, EmitResult, BatchEnds,
       StrayToolEnds
  <2>2. \/ phase' = phase
        \/ phase \in ToolPhases /\ phase' \in ToolPhases \union {"ending", "turnEnd"}
    BY <1>18 DEF Tools, FailTruncatedCall, BeginCall, RejectCall, AcceptCall, CheckAbort,
       BatchPrepared, SequentialToolEnds, ParallelToolEnds, ToolsSettled, EmitResult, BatchEnds,
       StrayToolEnds, ToolPhases
  <2> QED  BY <1>5, <2>1, <2>2 DEF OwedInvariant, ToolPhases
<1>19. CASE UNCHANGED vars
  BY <1>5, <1>19 DEF vars, OwedInvariant
<1> QED
  BY <1>6, <1>7, <1>8, <1>9, <1>10, <1>11, <1>12, <1>13, <1>14, <1>15, <1>16, <1>17, <1>18,
     <1>19 DEF Next, Loop, Caller, Turns

(* A follow-up is taken up only after every steering message that waited   *)
(* when the last turn ended, whatever arrives, fails or is cleared in the  *)
(* meantime.                                                               *)
THEOREM SteeringComesFirst == Spec => []SteeringBeforeFollowUp
<1>1. Init => QueuesInvariant /\ OwedInvariant
  BY DEF Init, QueuesInvariant, OwedInvariant, SteeringBeforeFollowUp, EndsWith, IsInjective,
     ToSet, HandPhases
<1>2. OwedInvariant => SteeringBeforeFollowUp
  BY DEF OwedInvariant
<1> QED
  BY <1>1, <1>2, DeliveryInit, DeliveryStep, QueuesStep, OwedStep, TypeCorrect, PTL DEF Spec

-----------------------------------------------------------------------------
(* Messages are delivered in the order of their queue                      *)

DeliveredIn(c, m) == \E i \in 1..Len(c) : c[i] = User(m)

\* a stands before b in the conversation c, and before b in the hand p, unless
\* b is not there or a is already in the conversation.
Precedes(c, p, a, b) ==
  /\ \A j \in 1..Len(c) : c[j] = User(b) => \E i \in 1..(j - 1) : c[i] = User(a)
  /\ \A l \in 1..Len(p) : p[l] = b => DeliveredIn(c, a) \/ \E k \in 1..(l - 1) : p[k] = a

InOrder(s, c, p, w) ==
  \A i, j \in 1..Len(s) : i < j /\ s[i] \notin w => Precedes(c, p, s[i], s[j])
OrderInvariant ==
  \A s \in {steered, followed} : InOrder(s, transcript, pending, withdrawn)

LEMMA OrderAppend ==
  ASSUME NEW s, NEW c \in Seq(Entries), NEW p, NEW w, NEW e, NonUser(e), InOrder(s, c, p, w)
  PROVE  InOrder(s, Append(c, e), p, w)
<1> DEFINE d == Append(c, e)
<1>1. /\ Len(d) = Len(c) + 1 /\ d[Len(c) + 1] = e /\ \A i \in 1..Len(c) : d[i] = c[i]
      /\ Len(c) \in Nat /\ \A m : e # User(m)
  BY DEF NonUser, User
<1> HIDE DEF d
<1>2. \A m : DeliveredIn(c, m) => DeliveredIn(d, m)
  BY <1>1 DEF DeliveredIn
<1>3. ASSUME NEW a, NEW b, Precedes(c, p, a, b) PROVE Precedes(d, p, a, b)
  <2>1. ASSUME NEW j \in 1..Len(d), d[j] = User(b) PROVE \E i \in 1..(j - 1) : d[i] = User(a)
    <3>1. j \in 1..Len(c)
      BY <1>1, <2>1
    <3>2. PICK i \in 1..(j - 1) : c[i] = User(a)
      BY <1>1, <1>3, <2>1, <3>1 DEF Precedes
    <3> QED  BY <1>1, <3>1, <3>2
  <2> QED  BY <1>2, <1>3, <2>1 DEF Precedes
<1> QED  BY <1>3 DEF InOrder, d

LEMMA OrderDeliver ==
  ASSUME NEW s, NEW c \in Seq(Entries), NEW p \in Seq(Messages), NEW w, p # <<>>,
         InOrder(s, c, p, w)
  PROVE  InOrder(s, Append(c, User(Head(p))), Tail(p), w)
<1> DEFINE h == p[1]
           d == Append(c, User(h))
           t == Tail(p)
<1>1. /\ h \in Messages /\ Len(p) \in Nat /\ Len(p) > 0 /\ Len(t) = Len(p) - 1
      /\ \A k \in 1..(Len(p) - 1) : t[k] = p[k + 1]
      /\ Head(p) = h
  OBVIOUS
<1>2. User(h) \in Entries
  BY <1>1, EntryTypes
<1>3. /\ Len(d) = Len(c) + 1 /\ d[Len(c) + 1] = User(h) /\ \A i \in 1..Len(c) : d[i] = c[i]
      /\ Len(c) \in Nat
  BY <1>2
<1>4. \A m : User(m) = User(h) => m = h
  BY DEF User
<1> HIDE DEF d, t, h
<1>5. \A m : DeliveredIn(c, m) \/ m = h => DeliveredIn(d, m)
  BY <1>3 DEF DeliveredIn
<1>6. ASSUME NEW a, NEW b, Precedes(c, p, a, b) PROVE Precedes(d, t, a, b)
  <2>1. ASSUME NEW j \in 1..Len(d), d[j] = User(b) PROVE \E i \in 1..(j - 1) : d[i] = User(a)
    <3>1. CASE j \in 1..Len(c)
      <4>1. PICK i \in 1..(j - 1) : c[i] = User(a)
        BY <1>3, <1>6, <2>1, <3>1 DEF Precedes
      <4> QED  BY <1>3, <3>1, <4>1
    <3>2. CASE j = Len(c) + 1
      <4>1. b = h /\ 1 \in 1..Len(p) /\ p[1] = b
        BY <1>1, <1>3, <1>4, <2>1, <3>2 DEF h
      <4>2. DeliveredIn(c, a)
        BY <1>6, <4>1 DEF Precedes
      <4>3. PICK i \in 1..Len(c) : c[i] = User(a)
        BY <4>2 DEF DeliveredIn
      <4> QED  BY <1>3, <3>2, <4>3
    <3> QED  BY <1>3, <3>1, <3>2
  <2>2. ASSUME NEW l \in 1..Len(t), t[l] = b
        PROVE  DeliveredIn(d, a) \/ \E k \in 1..(l - 1) : t[k] = a
    <3>1. l + 1 \in 1..Len(p) /\ p[l + 1] = b
      BY <1>1, <2>2
    <3>2. DeliveredIn(c, a) \/ \E k \in 1..l : p[k] = a
      BY <1>6, <3>1 DEF Precedes
    <3>3. ASSUME NEW k \in 1..l, p[k] = a, a # h PROVE \E n \in 1..(l - 1) : t[n] = a
      <4>1. k # 1 /\ k - 1 \in 1..(l - 1) /\ k - 1 \in 1..(Len(p) - 1)
        BY <1>1, <2>2, <3>3 DEF h
      <4>2. t[k - 1] = p[k]
        BY <1>1, <4>1
      <4> QED  BY <3>3, <4>1, <4>2
    <3> QED  BY <1>5, <3>2, <3>3
  <2> QED  BY <2>1, <2>2 DEF Precedes
<1>7. InOrder(s, d, t, w)
  BY <1>6 DEF InOrder
<1> QED  BY <1>1, <1>7 DEF d, t

LEMMA OrderEmpty ==
  ASSUME NEW s, NEW c, NEW p, NEW w, InOrder(s, c, p, w), NEW v, w \subseteq v
  PROVE  InOrder(s, c, <<>>, v) /\ InOrder(s, c, p, v)
BY DEF InOrder, Precedes

LEMMA OrderSend ==
  ASSUME NEW s \in Seq(Messages), NEW c, NEW p, NEW w, NEW m \in Messages,
         InOrder(s, c, p, w), ~DeliveredIn(c, m), m \notin ToSet(p)
  PROVE  InOrder(Append(s, m), c, p, w)
<1> DEFINE z == Append(s, m)
<1>1. Len(z) = Len(s) + 1 /\ z[Len(s) + 1] = m /\ (\A i \in 1..Len(s) : z[i] = s[i])
      /\ Len(s) \in Nat
  OBVIOUS
<1> HIDE DEF z
<1>2. \A a : Precedes(c, p, a, m)
  BY DEF Precedes, DeliveredIn, ToSet
<1>3. ASSUME NEW i \in 1..Len(z), NEW j \in 1..Len(z), i < j, z[i] \notin w
      PROVE  Precedes(c, p, z[i], z[j])
  <2>1. CASE j = Len(s) + 1
    BY <1>1, <1>2, <2>1
  <2>2. CASE j \in 1..Len(s)
    BY <1>1, <1>3, <2>2 DEF InOrder
  <2> QED  BY <1>1, <2>1, <2>2
<1> QED  BY <1>3 DEF InOrder, z

LEMMA OrderForeign ==
  ASSUME NEW s, NEW c, NEW w, NEW p, InOrder(s, c, <<>>, w),
         ToSet(p) \intersect ToSet(s) = {}
  PROVE  InOrder(s, c, p, w)
<1>1. ASSUME NEW i \in 1..Len(s), NEW j \in 1..Len(s), i < j, s[i] \notin w
      PROVE  Precedes(c, p, s[i], s[j])
  <2>1. Precedes(c, <<>>, s[i], s[j])
    BY <1>1 DEF InOrder
  <2>2. \A l \in 1..Len(p) : p[l] # s[j]
    BY DEF ToSet
  <2> QED  BY <2>1, <2>2 DEF Precedes
<1> QED  BY <1>1 DEF InOrder

LEMMA OrderFront ==
  ASSUME NEW s, NEW c \in Seq(Entries), NEW w, c # <<>>, InOrder(s, c, <<>>, w)
  PROVE  InOrder(s, Front(c), <<>>, w)
<1>1. Len(Front(c)) = Len(c) - 1 /\ \A i \in 1..(Len(c) - 1) : Front(c)[i] = c[i]
  BY FrontFields
<1>2. Len(c) \in Nat /\ Len(<<>>) = 0
  OBVIOUS
<1>3. ASSUME NEW a, NEW b, Precedes(c, <<>>, a, b) PROVE Precedes(Front(c), <<>>, a, b)
  <2>1. ASSUME NEW j \in 1..Len(Front(c)), Front(c)[j] = User(b)
        PROVE  \E i \in 1..(j - 1) : Front(c)[i] = User(a)
    <3>1. j \in 1..Len(c) /\ j <= Len(c) - 1 /\ c[j] = User(b)
      BY <1>1, <1>2, <2>1
    <3>2. PICK i \in 1..(j - 1) : c[i] = User(a)
      BY <1>3, <3>1 DEF Precedes
    <3> QED  BY <1>1, <1>2, <3>1, <3>2
  <2> QED  BY <1>2, <2>1 DEF Precedes
<1> QED  BY <1>3 DEF InOrder

\* What is taken from the head of a queue comes after all that left it before.
LEMMA OrderTake ==
  ASSUME NEW s \in Seq(Messages), NEW q \in Seq(Messages), NEW c, NEW w, NEW mode,
         InOrder(s, c, <<>>, w), EndsWith(s, q), IsInjective(s),
         \A m \in ToSet(s) \ w : m \in ToSet(q) \/ DeliveredIn(c, m)
  PROVE  InOrder(s, c, Drained(q, mode), w)
<1> DEFINE p == Drained(q, mode)
           n == Len(s) - Len(q)
<1>1. Len(p) <= Len(q) /\ (\A l \in 1..Len(p) : p[l] = q[l]) /\ Len(p) \in Nat
      /\ Len(q) \in Nat /\ Len(s) \in Nat
  <2>1. CASE p = q
    BY <2>1
  <2>2. CASE q # <<>> /\ p = <<Head(q)>>
    <3>1. Len(p) = 1 /\ p[1] = q[1] /\ Len(q) \in Nat /\ Len(q) > 0
      BY <2>2
    <3> HIDE DEF p
    <3> QED  BY <3>1
  <2> QED  BY <2>1, <2>2 DEF Drained
<1> HIDE DEF p
<1>2. n \in Nat /\ \A k \in 1..Len(q) : q[k] = s[n + k]
  BY <1>1 DEF EndsWith
<1>3. ASSUME NEW i \in 1..Len(s), NEW j \in 1..Len(s), i < j, s[i] \notin w,
             NEW l \in 1..Len(p), p[l] = s[j]
      PROVE  DeliveredIn(c, s[i]) \/ \E k \in 1..(l - 1) : p[k] = s[i]
  <2>1. l \in 1..Len(q) /\ n + l \in 1..Len(s) /\ s[n + l] = s[j]
    BY <1>1, <1>2, <1>3
  <2>2. j = n + l
    BY <2>1 DEF IsInjective
  <2>3. CASE i > n
    <3>1. i - n \in 1..(l - 1) /\ i - n \in 1..Len(q) /\ n + (i - n) = i
      BY <1>1, <1>2, <1>3, <2>1, <2>2, <2>3
    <3>2. i - n \in 1..Len(p)
      BY <1>1, <1>3, <3>1
    <3>3. q[i - n] = s[i] /\ p[i - n] = q[i - n]
      <4> HIDE DEF n
      <4> QED  BY <1>1, <1>2, <3>1, <3>2
    <3> QED  BY <3>1, <3>3
  <2>4. CASE i <= n
    <3>1. s[i] \notin ToSet(q)
      <4> SUFFICES ASSUME NEW k \in 1..Len(q), q[k] = s[i] PROVE FALSE
        BY DEF ToSet
      <4>1. n + k \in 1..Len(s) /\ s[n + k] = s[i] /\ n + k # i
        BY <1>1, <1>2, <2>4
      <4> QED  BY <4>1 DEF IsInjective
    <3>2. s[i] \in ToSet(s) \ w
      BY <1>3 DEF ToSet
    <3> QED  BY <3>1, <3>2
  <2> QED  BY <1>2, <2>3, <2>4
<1> HIDE DEF n
<1>4. ASSUME NEW i \in 1..Len(s), NEW j \in 1..Len(s), i < j, s[i] \notin w
      PROVE  Precedes(c, p, s[i], s[j])
  <2>1. Precedes(c, <<>>, s[i], s[j])
    BY <1>4 DEF InOrder
  <2> QED  BY <1>3, <1>4, <2>1 DEF Precedes
<1> QED  BY <1>4 DEF InOrder, p

LEMMA OrderStep ==
  ASSUME TypeOK, DeliveryInvariant, QueuesInvariant, HandsInvariant, NoMessageLost,
         OrderInvariant, MaxFaults = 0, EpochCanGoStale = FALSE, [Next]_vars
  PROVE  OrderInvariant'
<1> USE DEF queueVars, callVars, ghostVars
<1>1. /\ steered \in Seq(Messages) /\ followed \in Seq(Messages) /\ pending \in Seq(Messages)
      /\ steeringQueue \in Seq(Messages) /\ followUpQueue \in Seq(Messages)
      /\ transcript \in Seq(Entries)
  BY DEF TypeOK
<1>2. /\ InOrder(steered, transcript, pending, withdrawn)
      /\ InOrder(followed, transcript, pending, withdrawn)
      /\ InOrder(steered, transcript, <<>>, withdrawn)
      /\ InOrder(followed, transcript, <<>>, withdrawn)
  BY OrderEmpty DEF OrderInvariant
<1>3. ASSUME NEW c, NEW p, NEW w, UNCHANGED <<steered, followed>>, transcript' = c,
             pending' = p, withdrawn' = w, InOrder(steered, c, p, w), InOrder(followed, c, p, w)
      PROVE  OrderInvariant'
  <2>1. /\ InOrder(steered, transcript, pending, withdrawn)' = InOrder(steered, c, p, w)
        /\ InOrder(followed, transcript, pending, withdrawn)' = InOrder(followed, c, p, w)
    BY <1>3 DEF InOrder, Precedes, DeliveredIn, User
  <2> QED  BY <1>3, <2>1 DEF OrderInvariant
<1>4. CASE Untouched
  BY <1>1, <1>2, <1>3, <1>4, OrderAppend DEF Untouched
<1>5. CASE Delivers
  <2>1. /\ InOrder(steered, Append(transcript, User(Head(pending))), Tail(pending), withdrawn)
        /\ InOrder(followed, Append(transcript, User(Head(pending))), Tail(pending), withdrawn)
    BY <1>1, <1>2, <1>5, OrderDeliver DEF Delivers
  <2> QED  BY <1>3, <1>5, <2>1 DEF Delivers
<1>6. CASE Empties
  BY <1>2, <1>3, <1>6 DEF Empties
<1>7. /\ ToSet(steeringQueue) \subseteq ToSet(steered)
      /\ ToSet(followUpQueue) \subseteq ToSet(followed)
      /\ ToSet(steered) \intersect ToSet(followed) = {}
      /\ EndsWith(steered, steeringQueue) /\ EndsWith(followed, followUpQueue)
      /\ IsInjective(steered) /\ IsInjective(followed)
  BY <1>1, EndsLeft DEF QueuesInvariant
<1>8. \A m \in Messages : m \in Delivered <=> DeliveredIn(transcript, m)
  BY DEF Delivered, DeliveredIn
<1>9. ASSUME pending = <<>>, Takes PROVE OrderInvariant'
  <2>1. ToSet(pending) = {}
    BY <1>9 DEF ToSet
  <2>2. \A m \in (ToSet(steered) \union ToSet(followed)) \ withdrawn :
          m \in ToSet(steeringQueue) \union ToSet(followUpQueue) \/ DeliveredIn(transcript, m)
    <3>1. ToSet(steered) \subseteq Messages /\ ToSet(followed) \subseteq Messages
      BY <1>1, ToSetType
    <3> QED  BY <1>8, <2>1, <3>1 DEF NoMessageLost, Sent, Waiting
  <2>3. CASE pending' = Drained(steeringQueue, SteeringMode)
    <3> DEFINE p == Drained(steeringQueue, SteeringMode)
    <3>1. InOrder(steered, transcript, p, withdrawn)
      BY <1>1, <1>2, <1>7, <2>2, OrderTake
    <3>2. ToSet(p) \subseteq ToSet(steeringQueue)
      BY <1>1, DrainSet
    <3>3. InOrder(followed, transcript, p, withdrawn)
      BY <1>2, <1>7, <3>2, OrderForeign
    <3> QED  BY <1>3, <1>9, <2>3, <3>1, <3>3 DEF Takes
  <2>4. CASE pending' = Drained(followUpQueue, FollowUpMode)
    <3> DEFINE p == Drained(followUpQueue, FollowUpMode)
    <3>1. InOrder(followed, transcript, p, withdrawn)
      BY <1>1, <1>2, <1>7, <2>2, OrderTake
    <3>2. ToSet(p) \subseteq ToSet(followUpQueue)
      BY <1>1, DrainSet
    <3>3. InOrder(steered, transcript, p, withdrawn)
      BY <1>2, <1>7, <3>2, OrderForeign
    <3> QED  BY <1>3, <1>9, <2>4, <3>1, <3>3 DEF Takes
  <2> QED  BY <1>9, <2>3, <2>4 DEF Takes
<1>10. ASSUME NEW m \in Messages, Steer(m) \/ FollowUp(m) PROVE OrderInvariant'
  <2>1. /\ m \notin Sent /\ UNCHANGED <<transcript, pending, withdrawn>>
        /\ \/ steered' = Append(steered, m) /\ followed' = followed
           \/ steered' = steered /\ followed' = Append(followed, m)
    BY <1>10 DEF Steer, FollowUp, Fresh
  <2>2. ~DeliveredIn(transcript, m) /\ m \notin ToSet(pending)
    BY <1>8, <2>1 DEF DeliveryInvariant
  <2>3. /\ InOrder(Append(steered, m), transcript, pending, withdrawn)
        /\ InOrder(Append(followed, m), transcript, pending, withdrawn)
    BY <1>1, <1>2, <2>2, OrderSend
  <2>4. /\ InOrder(steered', transcript, pending, withdrawn)
        /\ InOrder(followed', transcript, pending, withdrawn)
    BY <1>2, <2>1, <2>3
  <2>5. /\ InOrder(steered, transcript, pending, withdrawn)'
             = InOrder(steered', transcript, pending, withdrawn)
        /\ InOrder(followed, transcript, pending, withdrawn)'
             = InOrder(followed', transcript, pending, withdrawn)
    BY <2>1 DEF InOrder, Precedes, DeliveredIn, User
  <2> QED  BY <2>4, <2>5 DEF OrderInvariant
<1>11. CASE ClearAllQueues
  <2>1. /\ UNCHANGED <<transcript, pending, steered, followed>> /\ withdrawn \subseteq withdrawn'
    BY <1>11 DEF ClearAllQueues
  <2>2. PICK w : w = withdrawn' /\ withdrawn \subseteq w
    BY <2>1
  <2> QED  BY <1>2, <1>3, <2>1, <2>2, OrderEmpty
<1>12. ASSUME NEW ms \in Prompts, Prompt(ms) PROVE OrderInvariant'
  <2>1. /\ pending' = ms /\ ToSet(ms) \intersect Sent = {}
        /\ UNCHANGED <<transcript, withdrawn, steered, followed>>
    BY <1>12 DEF Prompt, Begin, Fresh
  <2>2. ToSet(ms) \intersect ToSet(steered) = {} /\ ToSet(ms) \intersect ToSet(followed) = {}
    BY <2>1 DEF Sent
  <2>3. InOrder(steered, transcript, ms, withdrawn) /\ InOrder(followed, transcript, ms, withdrawn)
    BY <1>2, <2>2, OrderForeign
  <2> QED  BY <1>3, <2>1, <2>3
<1>13. CASE DropLastAssistant
  <2>1. /\ transcript # <<>> /\ transcript' = Front(transcript) /\ pending = <<>>
        /\ UNCHANGED <<pending, withdrawn, steered, followed>>
    BY <1>13 DEF DropLastAssistant, EndsWithAssistant, HandsInvariant
  <2>2. /\ InOrder(steered, Front(transcript), <<>>, withdrawn)
        /\ InOrder(followed, Front(transcript), <<>>, withdrawn)
    BY <1>1, <1>2, <2>1, OrderFront
  <2> QED  BY <1>3, <2>1, <2>2
<1>14. CASE Turns
  <2>1. CASE InitialPoll \/ DrainSteering \/ OuterSteering \/ OuterFollowUp \/ FinishRun
    <3>1. pending = <<>>
      BY <2>1 DEF InitialPoll, DrainSteering, OuterSteering, OuterFollowUp, FinishRun,
                  HandsInvariant
    <3> QED  BY <1>4, <1>5, <1>6, <1>9, <1>14, <3>1, TurnKinds
  <2>2. CASE EmitPrompt \/ InjectPending
    BY <1>5, <2>2 DEF EmitPrompt, InjectPending, Delivers, loopVars
  <2>3. CASE OpenStream \/ StreamEnds \/ Decide \/ EndTurn \/ HandleRunFailure
    BY <1>4, <2>3, TurnsUntouched
  <2> QED  BY <1>14, <2>1, <2>2, <2>3 DEF Turns
<1>15. CASE Tools \/ Fault
  BY <1>4, <1>15, ToolsUntouched, FaultUntouched
<1>16. CASE ContinueWithSteering \/ ContinueWithFollowUps \/ ContinueTranscript
  <2>1. pending = <<>>
    BY <1>16 DEF ContinueWithSteering, ContinueWithFollowUps, ContinueTranscript,
                 HandsInvariant
  <2> QED  BY <1>6, <1>9, <1>16, <2>1, ContinueKinds
<1>17. CASE Abort \/ Interrupt
  BY <1>4, <1>17, ContinueKinds
<1>18. CASE UNCHANGED vars
  BY <1>4, <1>18 DEF vars, Untouched
<1> QED
  BY <1>10, <1>11, <1>12, <1>13, <1>14, <1>15, <1>16, <1>17, <1>18 DEF Next, Loop, Caller

(* Steering messages, and follow-up messages, reach the transcript in the  *)
(* order in which they were queued, over any number of runs, drained one   *)
(* by one or all at once (while nothing throws and no epoch goes stale:    *)
(* then a run may end with messages in hand, and later ones overtake them).*)
THEOREM QueuesKeepOrder ==
  ASSUME MaxFaults = 0, EpochCanGoStale = FALSE
  PROVE  Spec => []QueuesAreFIFO
<1> DEFINE I == /\ DeliveryInvariant /\ QueuesInvariant /\ HandsInvariant
                /\ NoMessageLost /\ OrderInvariant
<1>1. Init => I
  <2>1. Init => QueuesInvariant
    BY DEF Init, QueuesInvariant, EndsWith, IsInjective, ToSet
  <2>2. Init => HandsInvariant /\ NoMessageLost
    BY DEF Init, HandsInvariant, NoMessageLost, Sent, ToSet
  <2>3. Init => OrderInvariant
    BY DEF Init, OrderInvariant, InOrder
  <2> QED  BY <2>1, <2>2, <2>3, DeliveryInit
<1>2. TypeOK /\ I /\ [Next]_vars => I'
  BY DeliveryStep, QueuesStep, HandsStep, KeptStep, OrderStep
<1>3. I => QueuesAreFIFO
  BY DEF OrderInvariant, InOrder, Precedes, QueuesAreFIFO, Before
<1> HIDE DEF I
<1> QED  BY <1>1, <1>2, <1>3, TypeCorrect, PTL DEF Spec

-----------------------------------------------------------------------------
(* The agent implements MessageDelivery                                    *)

\* What was withdrawn is nowhere else.
WithdrawnApart ==
  /\ withdrawn \subseteq Sent
  /\ withdrawn \intersect (Waiting \union ToSet(pending) \union Delivered) = {}

\* Every message is in exactly one place.
Placement == DeliveryInvariant /\ WithdrawnApart /\ HandsInvariant /\ NoMessageLost

PlacesAreSets ==
  \A m \in Messages :
    /\ m \in withdrawn => Place(m) = "withdrawn"
    /\ m \in ToSet(pending) => Place(m) = "inHand"
    /\ m \in Delivered => Place(m) = "delivered"
    /\ m \in Waiting => Place(m) = "waiting"
    /\ m \notin Sent => Place(m) = "caller"
    /\ m \in withdrawn \union ToSet(pending) \union Delivered \union Waiting \/ m \notin Sent

LEMMA PlacesHold == (Placement => PlacesAreSets) /\ (Placement' => PlacesAreSets')
<1>1. ASSUME Placement PROVE PlacesAreSets
  BY <1>1 DEF Placement, PlacesAreSets, DeliveryInvariant, DeliveredOnce, WithdrawnApart,
     NoMessageLost, Place, Delivered
<1>2. ASSUME Placement' PROVE PlacesAreSets'
  BY <1>2 DEF Placement, PlacesAreSets, DeliveryInvariant, DeliveredOnce, WithdrawnApart,
     NoMessageLost, Place, Delivered
<1> QED  BY <1>1, <1>2

\* A step moves the messages of S to the place p, and no other.
Moves(S, p) == \A m \in Messages : Place(m)' = IF m \in S THEN p ELSE Place(m)

LEMMA MoveEffects ==
  ASSUME Placement, Placement', NEW S \in SUBSET Messages
  PROVE  /\ (/\ Delivered' = Delivered /\ Sent' = Sent /\ Waiting' = Waiting
             /\ ToSet(pending)' = ToSet(pending) /\ withdrawn' = withdrawn)
            => \A m \in Messages : Place(m)' = Place(m)
         /\ (/\ Delivered' = Delivered \union S /\ Sent' = Sent /\ Waiting' = Waiting
             /\ ToSet(pending) = S \union ToSet(pending)' /\ withdrawn' = withdrawn)
            => Moves(S, "delivered")
         /\ (/\ Delivered' = Delivered /\ ToSet(pending) = {} /\ ToSet(pending)' = S
             /\ withdrawn' = withdrawn
             /\ \/ Sent' = Sent /\ Waiting = Waiting' \union S
                \/ Sent' = Sent \union S /\ Waiting' = Waiting)
            => Moves(S, "inHand")
         /\ (/\ Delivered' = Delivered /\ Sent' = Sent \union S /\ Waiting' = Waiting \union S
             /\ ToSet(pending)' = ToSet(pending) /\ withdrawn' = withdrawn)
            => Moves(S, "waiting")
         /\ (/\ Delivered' = Delivered /\ Sent' = Sent /\ Waiting' = {} /\ S = Waiting
             /\ ToSet(pending)' = ToSet(pending) /\ withdrawn' = withdrawn \union S)
            => Moves(S, "withdrawn")
<1>1. PlacesAreSets /\ PlacesAreSets'
  BY PlacesHold
<1>2. ASSUME NEW n \in Messages
      PROVE  /\ n \in withdrawn => Place(n) = "withdrawn"
             /\ n \in ToSet(pending) => Place(n) = "inHand"
             /\ n \in Delivered => Place(n) = "delivered"
             /\ n \in Waiting => Place(n) = "waiting"
             /\ n \notin Sent => Place(n) = "caller"
             /\ \/ n \in withdrawn \union ToSet(pending) \union Delivered \union Waiting
                \/ n \notin Sent
             /\ n \in withdrawn' => Place(n)' = "withdrawn"
             /\ n \in ToSet(pending)' => Place(n)' = "inHand"
             /\ n \in Delivered' => Place(n)' = "delivered"
             /\ n \in Waiting' => Place(n)' = "waiting"
             /\ n \notin Sent' => Place(n)' = "caller"
  BY <1>1 DEF PlacesAreSets
<1>3. \A n \in Messages : n \in withdrawn \union ToSet(pending) \union Delivered \union Waiting
                           => n \in Sent
  BY DEF Placement, DeliveryInvariant, WithdrawnApart
<1>4. /\ withdrawn \intersect (Waiting \union ToSet(pending) \union Delivered) = {}
      /\ Waiting \intersect (ToSet(pending) \union Delivered) = {}
      /\ ToSet(pending) \intersect Delivered = {}
  BY DEF Placement, DeliveryInvariant, DeliveredOnce, WithdrawnApart
<1> QED  BY <1>2, <1>3, <1>4 DEF Moves

LEMMA ApartStep ==
  ASSUME TypeOK, DeliveryInvariant, WithdrawnApart, [Next]_vars
  PROVE  WithdrawnApart'
<1> USE DEF queueVars, callVars, ghostVars
<1>1. /\ Waiting \union ToSet(pending) \union Delivered \subseteq Sent
      /\ Waiting \intersect (ToSet(pending) \union Delivered) = {}
  BY DEF DeliveryInvariant, DeliveredOnce
<1>2. ToSet(pending)' = ToSet(pending')
  BY DEF ToSet
<1>3. CASE Untouched
  <2>1. /\ Delivered' = Delivered /\ Waiting' = Waiting /\ Sent' = Sent
        /\ withdrawn' = withdrawn /\ pending' = pending
    BY <1>3, UntouchedDelivery DEF Untouched
  <2> QED  BY <1>2, <2>1 DEF WithdrawnApart
<1>4. CASE Delivers
  <2>1. withdrawn' = withdrawn
    BY <1>4 DEF Delivers
  <2> QED  BY <1>2, <1>4, <2>1, DeliversSets DEF WithdrawnApart
<1>5. CASE Takes \/ Empties
  <2>1. withdrawn' = withdrawn
    BY <1>5 DEF Takes, Empties
  <2> QED  BY <1>2, <1>5, <2>1, TakesSets, EmptiesSets DEF WithdrawnApart
<1>6. ASSUME NEW m \in Messages, Steer(m) \/ FollowUp(m) PROVE WithdrawnApart'
  BY <1>1, <1>2, <1>6, SendSets DEF WithdrawnApart
<1>7. CASE ClearAllQueues
  BY <1>1, <1>2, <1>7, ClearSets DEF WithdrawnApart
<1>8. ASSUME NEW ms \in Prompts, Prompt(ms) PROVE WithdrawnApart'
  <2>1. ToSet(pending') \intersect Sent = {}
    BY <1>8 DEF Prompt, Begin, Fresh
  <2> QED  BY <1>1, <1>2, <1>8, <2>1, PromptSets DEF WithdrawnApart
<1>9. CASE DropLastAssistant
  <2>1. withdrawn' = withdrawn
    BY <1>9 DEF DropLastAssistant
  <2> QED  BY <1>9, <2>1, DropSets DEF WithdrawnApart
<1>10. CASE UNCHANGED vars
  BY <1>3, <1>10 DEF vars, Untouched
<1> QED
  BY <1>3, <1>4, <1>5, <1>6, <1>7, <1>8, <1>9, <1>10, ToolsUntouched, FaultUntouched,
     TurnKinds, ContinueKinds DEF Next, Loop, Caller

\* Tools and exceptions leave the agent as busy as it is.
LEMMA BusyStays ==
  /\ Tools => (phase' = "idle" <=> phase = "idle")
  /\ Fault => phase # "idle" /\ phase' # "idle"
<1> USE DEF queueVars, toolVars, loopVars, callVars, ghostVars
<1>1. Tools => (phase' = "idle" <=> phase = "idle")
  BY DEF Tools, FailTruncatedCall, BeginCall, RejectCall, AcceptCall, CheckAbort,
     BatchPrepared, SequentialToolEnds, ParallelToolEnds, ToolsSettled, EmitResult, BatchEnds,
     StrayToolEnds
<1>2. Fault => phase # "idle" /\ phase' # "idle"
  BY DEF Fault, Throw, ThrowFromTool, HookPhases
<1> QED  BY <1>1, <1>2

LEMMA RefinementStep ==
  ASSUME TypeOK, TypeOK', Placement, Placement', [Next]_vars
  PROVE  Delivery!Next \/ UNCHANGED Delivery!vars
<1> USE DEF queueVars, callVars, ghostVars
<1>1. /\ ToSet(pending)' = ToSet(pending')
      /\ ToSet(pending) \in SUBSET Messages /\ ToSet(pending') \in SUBSET Messages
      /\ Waiting \in SUBSET Messages
  <2>1. /\ pending \in Seq(Messages) /\ pending' \in Seq(Messages)
        /\ steeringQueue \in Seq(Messages) /\ followUpQueue \in Seq(Messages)
    BY DEF TypeOK
  <2>2. ToSet(pending)' = ToSet(pending')
    BY DEF ToSet
  <2> QED  BY <2>1, <2>2, ToSetType DEF Waiting
<1>2. /\ Delivery!At("inHand") = ToSet(pending)
      /\ Delivery!At("waiting") = Waiting
      /\ Delivery!At("caller") = Messages \ Sent
  <2>1. PlacesAreSets
    BY PlacesHold
  <2>2. ASSUME NEW m \in Messages
        PROVE  /\ Place(m) = "inHand" <=> m \in ToSet(pending)
               /\ Place(m) = "waiting" <=> m \in Waiting
               /\ Place(m) = "caller" <=> m \notin Sent
    <3>1. /\ m \in withdrawn => Place(m) = "withdrawn"
          /\ m \in ToSet(pending) => Place(m) = "inHand"
          /\ m \in Delivered => Place(m) = "delivered"
          /\ m \in Waiting => Place(m) = "waiting"
          /\ m \notin Sent => Place(m) = "caller"
          /\ \/ m \in withdrawn \union ToSet(pending) \union Delivered \union Waiting
             \/ m \notin Sent
      BY <2>1 DEF PlacesAreSets
    <3>2. m \in withdrawn \union ToSet(pending) \union Delivered \union Waiting => m \in Sent
      BY DEF Placement, DeliveryInvariant, WithdrawnApart
    <3> QED  BY <3>1, <3>2
  <2>3. \A p : Delivery!At(p) = {m \in Messages : Place(m) = p}
    BY DEF Delivery!At
  <2> QED  BY <1>1, <2>2, <2>3
<1>3. ASSUME NEW S, NEW p, Moves(S, p) PROVE Delivery!Move(S, p)
  BY <1>3 DEF Delivery!Move, Moves
<1>4. ASSUME \A m \in Messages : Place(m)' = Place(m), (phase' = "idle") = (phase = "idle")
      PROVE  UNCHANGED Delivery!vars
  BY <1>4 DEF Delivery!vars
<1>5. CASE Untouched /\ (phase' = "idle") = (phase = "idle")
  <2>1. /\ Delivered' = Delivered /\ Waiting' = Waiting /\ Sent' = Sent
        /\ withdrawn' = withdrawn /\ pending' = pending
    BY <1>5, UntouchedDelivery DEF Untouched
  <2> QED  BY <1>1, <1>4, <1>5, <2>1, MoveEffects
<1>6. CASE Tools
  BY <1>5, <1>6, ToolsUntouched, BusyStays
<1>7. CASE Fault
  BY <1>5, <1>7, FaultUntouched, BusyStays
<1>8. CASE EmitPrompt \/ InjectPending
  <2>1. Delivers /\ phase # "idle" /\ phase' # "idle"
    BY <1>8 DEF EmitPrompt, InjectPending, Delivers, loopVars
  <2>2. PICK m \in Messages : m = Head(pending)
    BY <2>1, DeliversSets
  <2>3. Moves({m}, "delivered") /\ m \in ToSet(pending)
    <3>1. withdrawn' = withdrawn
      BY <2>1 DEF Delivers
    <3> QED  BY <1>1, <2>1, <2>2, <3>1, DeliversSets, MoveEffects
  <2>4. Delivery!Deliver(m)
    BY <1>2, <1>3, <2>1, <2>3 DEF Delivery!Deliver
  <2> QED  BY <2>2, <2>4 DEF Delivery!Next
<1>9. CASE Takes /\ (InitialPoll \/ DrainSteering \/ OuterSteering \/ OuterFollowUp)
  <2>1. /\ phase # "idle" /\ phase' # "idle" /\ withdrawn' = withdrawn /\ ToSet(pending) = {}
    <3>1. pending = <<>>
      BY <1>9 DEF InitialPoll, DrainSteering, OuterSteering, OuterFollowUp, Placement,
         HandsInvariant
    <3> QED  BY <1>9, <3>1 DEF InitialPoll, DrainSteering, OuterSteering, OuterFollowUp, Takes,
                ToSet
  <2>2. PICK S \in SUBSET Messages : S = ToSet(pending')
    BY <1>1
  <2>3. Moves(S, "inHand") /\ S \subseteq Waiting
    BY <1>1, <1>9, <2>1, <2>2, TakesSets, MoveEffects
  <2>4. CASE S = {}
    BY <1>4, <2>1, <2>3, <2>4 DEF Moves
  <2>5. CASE S # {}
    <3>1. Delivery!TakeUp(S)
      BY <1>2, <1>3, <2>1, <2>3, <2>5 DEF Delivery!TakeUp
    <3> QED  BY <3>1 DEF Delivery!Next
  <2> QED  BY <2>4, <2>5
<1>10. CASE FinishRun
  <2>1. Empties /\ phase # "idle" /\ phase' = "idle" /\ withdrawn' = withdrawn
        /\ ToSet(pending) = {}
    BY <1>10 DEF FinishRun, Empties, Placement, HandsInvariant, ToSet
  <2>2. \A m \in Messages : Place(m)' = Place(m)
    BY <1>1, <2>1, EmptiesSets, MoveEffects
  <2>3. Delivery!Settle
    BY <1>2, <2>1, <2>2 DEF Delivery!Settle
  <2> QED  BY <2>3 DEF Delivery!Next
<1>11. CASE Turns
  <2>1. CASE InitialPoll \/ DrainSteering \/ OuterSteering \/ OuterFollowUp
    <3>1. Takes \/ Untouched
      BY <2>1 DEF InitialPoll, DrainSteering, OuterSteering, OuterFollowUp, Takes, Untouched,
         loopVars
    <3>2. (phase' = "idle") = (phase = "idle")
      BY <2>1 DEF InitialPoll, DrainSteering, OuterSteering, OuterFollowUp
    <3> QED  BY <1>5, <1>9, <2>1, <3>1, <3>2
  <2>2. CASE OpenStream \/ StreamEnds \/ Decide \/ EndTurn \/ HandleRunFailure
    <3>1. (phase' = "idle") = (phase = "idle")
      BY <2>2 DEF OpenStream, StreamEnds, Decide, EndTurn, HandleRunFailure
    <3> QED  BY <1>5, <2>2, <3>1, TurnsUntouched
  <2> QED  BY <1>8, <1>10, <1>11, <2>1, <2>2 DEF Turns
<1>12. ASSUME NEW m \in Messages, Steer(m) \/ FollowUp(m)
       PROVE  Delivery!Next
  <2>1. Moves({m}, "waiting") /\ m \notin Sent
    BY <1>1, <1>12, SendSets, MoveEffects
  <2>2. phase' = phase
    BY <1>12 DEF Steer, FollowUp
  <2>3. Delivery!Queue(m)
    BY <1>2, <1>3, <2>1, <2>2 DEF Delivery!Queue
  <2> QED  BY <2>3 DEF Delivery!Next
<1>13. CASE ClearAllQueues
  <2>1. PICK S \in SUBSET Messages : S = Waiting
    BY <1>1
  <2>2. Moves(S, "withdrawn")
    BY <1>1, <1>13, <2>1, ClearSets, MoveEffects
  <2>3. S # {} /\ phase' = phase
    <3>1. \A q \in Seq(Messages) : q # <<>> => q[1] \in ToSet(q)
      BY DEF ToSet
    <3>2. /\ steeringQueue \in Seq(Messages) /\ followUpQueue \in Seq(Messages)
          /\ steeringQueue # <<>> \/ followUpQueue # <<>>
      BY <1>13 DEF ClearAllQueues, TypeOK
    <3> QED  BY <1>13, <2>1, <3>1, <3>2 DEF ClearAllQueues, Waiting
  <2>4. Delivery!Move(S, "withdrawn")
    BY <1>3, <2>2
  <2>5. Delivery!Withdraw
    BY <1>2, <2>1, <2>3, <2>4 DEF Delivery!Withdraw
  <2> QED  BY <2>5 DEF Delivery!Next
<1>14. ASSUME NEW ms \in Prompts, Prompt(ms) PROVE Delivery!Next
  <2>1. /\ phase = "idle" /\ phase' # "idle" /\ ToSet(pending) = {}
        /\ ToSet(pending') \intersect Sent = {}
    BY <1>14 DEF Prompt, Begin, Fresh, Placement, HandsInvariant, ToSet
  <2>2. PICK S \in SUBSET Messages : S = ToSet(pending')
    BY <1>1
  <2>3. Moves(S, "inHand")
    BY <1>1, <1>14, <2>1, <2>2, PromptSets, MoveEffects
  <2>4. Delivery!Begin(S)
    BY <1>2, <1>3, <2>1, <2>2, <2>3 DEF Delivery!Begin
  <2> QED  BY <2>4 DEF Delivery!Next
<1>15. CASE ContinueWithSteering \/ ContinueWithFollowUps \/ ContinueTranscript
  <2>1. phase = "idle" /\ phase' # "idle" /\ ToSet(pending) = {} /\ withdrawn' = withdrawn
    BY <1>15 DEF ContinueWithSteering, ContinueWithFollowUps, ContinueTranscript, Begin,
       Placement, HandsInvariant, ToSet
  <2>2. PICK S \in SUBSET Messages : S = ToSet(pending')
    BY <1>1
  <2>3. /\ Delivered' = Delivered /\ Sent' = Sent /\ Waiting = Waiting' \union S
    BY <1>15, <2>2, ContinueKinds, TakesSets, EmptiesSets
  <2>4. Moves(S, "inHand") /\ S \subseteq Waiting
    BY <1>1, <2>1, <2>2, <2>3, MoveEffects
  <2>5. Delivery!Begin(S)
    BY <1>2, <1>3, <2>1, <2>4 DEF Delivery!Begin
  <2> QED  BY <2>5 DEF Delivery!Next
<1>16. CASE Abort \/ Interrupt
  <2>1. phase' = phase
    BY <1>16 DEF Abort, Interrupt
  <2> QED  BY <1>5, <1>16, <2>1, ContinueKinds
<1>17. CASE DropLastAssistant
  <2>1. phase' = phase /\ withdrawn' = withdrawn
    BY <1>17 DEF DropLastAssistant
  <2> QED  BY <1>1, <1>4, <1>17, <2>1, DropSets, MoveEffects
<1>18. CASE UNCHANGED vars
  <2>1. Untouched /\ phase' = phase
    BY <1>18 DEF vars, Untouched
  <2> QED  BY <1>5, <2>1
<1> QED
  BY <1>6, <1>7, <1>11, <1>12, <1>13, <1>14, <1>15, <1>16, <1>17, <1>18
  DEF Next, Loop, Caller

(* The agent implements MessageDelivery: messages are taken up only with   *)
(* empty hands, delivered once, withdrawn only while they wait, and a run  *)
(* never settles with a message in hand (while nothing throws and no epoch *)
(* goes stale).                                                            *)
THEOREM AgentDelivers ==
  ASSUME MaxFaults = 0, EpochCanGoStale = FALSE
  PROVE  Spec => ImplementsDelivery /\ Delivery!Spec
<1>1. Init => Placement
  BY DeliveryInit DEF Init, Placement, WithdrawnApart, HandsInvariant, NoMessageLost, Sent, ToSet
<1>2. TypeOK /\ Placement /\ [Next]_vars => Placement'
  BY DeliveryStep, ApartStep, HandsStep, KeptStep DEF Placement
<1>3. Init => Delivery!Init
  BY DEF Init, Delivery!Init, Place, ToSet, Sent, Waiting
<1>4. TypeOK /\ TypeOK' /\ Placement /\ Placement' /\ [Next]_vars
        => Delivery!Next \/ UNCHANGED Delivery!vars
  BY RefinementStep
<1> QED
  BY <1>1, <1>2, <1>3, <1>4, TypeCorrect, PTL DEF Spec, ImplementsDelivery, Delivery!Spec
=============================================================================
