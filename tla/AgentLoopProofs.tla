--------------------------- MODULE AgentLoopProofs ---------------------------
(***************************************************************************)
(* Theorems about AgentLoop, for every set of messages, queue mode, bound  *)
(* on calls, requests and faults.                                          *)
(***************************************************************************)
EXTENDS AgentLoop, TLAPS

(* Entries of the transcript are entries.                                  *)
LEMMA EntryTypes ==
  /\ \A m \in Messages : User(m) \in Entries
  /\ \A ms \in Seq(Messages) : Users(ms) \in Seq(Entries)
  /\ \A s \in StopReasons, n \in Nat, t \in Nat : Assistant(s, n, t) \in AssistantEntries
  /\ \A t \in Nat, i \in Nat : Result(t, i) \in ResultEntries
  /\ AssistantEntries \subseteq Entries
  /\ ResultEntries \subseteq Entries
<1>1. \A m \in Messages : User(m) \in Entries
  BY DEF User, Entries
<1>2. \A ms \in Seq(Messages) : Users(ms) \in Seq(Entries)
  BY <1>1 DEF Users
<1>3. \A s \in StopReasons, n \in Nat, t \in Nat : Assistant(s, n, t) \in AssistantEntries
  BY DEF Assistant, AssistantEntries
<1>4. \A t \in Nat, i \in Nat : Result(t, i) \in ResultEntries
  BY DEF Result, ResultEntries
<1> QED  BY <1>1, <1>2, <1>3, <1>4 DEF Entries

(* A drain splits a queue of messages into two.                            *)
LEMMA DrainTypes ==
  ASSUME NEW q \in Seq(Messages), NEW mode
  PROVE  Drained(q, mode) \in Seq(Messages) /\ Left(q, mode) \in Seq(Messages)
BY DEF Drained, Left

(* Sets of the elements of a sequence of messages.                         *)
LEMMA ToSetType == \A q \in Seq(Messages) : ToSet(q) \in SUBSET Messages
BY DEF ToSet

(* A prompt is one message or two.                                         *)
LEMMA PromptTypes == \A ms \in Prompts : ms \in Seq(Messages) /\ ms # <<>>
<1> SUFFICES ASSUME NEW ms \in Prompts PROVE ms \in Seq(Messages) /\ ms # <<>>
  OBVIOUS
<1>1. CASE \E m \in Messages : ms = <<m>>
  BY <1>1
<1>2. CASE \E p \in Messages \X Messages : ms = <<p[1], p[2]>>
  BY <1>2
<1> QED  BY <1>1, <1>2 DEF Prompts

(* What the operators on batches return.                                   *)
LEMMA BatchTypes ==
  /\ NoBatch \in Batches
  /\ \A mode \in {"truncated", "sequential", "parallel"} : NewBatch(mode) \in Batches
  /\ \A b \in Batches, i \in Nat, t \in BOOLEAN : Finalized(b, i, t) \in Batches
  /\ reply \in AssistantEntries =>
       \A b \in Batches, i \in Nat : WithResult(b, i) \in Batches
  /\ \A b \in Batches : [b EXCEPT !.next = @ + 1] \in Batches
<1>1. NoBatch \in Batches
  BY DEF NoBatch, Batches
<1>2. \A mode \in {"truncated", "sequential", "parallel"} : NewBatch(mode) \in Batches
  BY <1>1 DEF NewBatch, Batches
<1>3. \A b \in Batches, i \in Nat, t \in BOOLEAN : Finalized(b, i, t) \in Batches
  BY DEF Finalized, Batches
<1>4. ASSUME reply \in AssistantEntries
      PROVE  \A b \in Batches, i \in Nat : WithResult(b, i) \in Batches
  <2> TAKE b \in Batches, i \in Nat
  <2>1. Result(reply.turn, i) \in ResultEntries
    BY <1>4, EntryTypes DEF AssistantEntries
  <2>2. Append(b.results, Result(reply.turn, i)) \in Seq(ResultEntries)
    BY <2>1 DEF Batches
  <2> QED  BY <2>2 DEF WithResult, Batches
<1>5. \A b \in Batches : [b EXCEPT !.next = @ + 1] \in Batches
  BY DEF Batches
<1> QED  BY <1>1, <1>2, <1>3, <1>4, <1>5

(* What they change in a batch, and what they leave.                       *)
LEMMA FinalizedFields ==
  \A b \in Batches : \A k : \A t \in BOOLEAN :
    LET f == Finalized(b, k, t)
    IN  /\ f.done = b.done \union {k} /\ f.ready = b.ready /\ f.mode = b.mode
        /\ f.next = b.next /\ f.results = b.results
BY DEF Finalized, Batches

LEMMA WithResultFields ==
  \A b \in Batches : \A k :
    LET f == WithResult(b, k)
    IN  /\ f.results = Append(b.results, Result(reply.turn, k)) /\ f.results # <<>>
        /\ f.done = b.done /\ f.ready = b.ready /\ f.mode = b.mode /\ f.next = b.next
BY DEF WithResult, Batches

(* The replies of a model.                                                 *)
LEMMA ReplyTypes == \A t \in Nat : Replies(t) \subseteq AssistantEntries
<1>1. \A n \in 1..MaxCalls : n \in Nat
  BY AgentLoopAssumption
<1> QED  BY <1>1, EntryTypes DEF Replies, StopReasons
-----------------------------------------------------------------------------
(* Type correctness                                                        *)

LEMMA TypeInit == Init => TypeOK
<1> SUFFICES ASSUME Init PROVE TypeOK
  OBVIOUS
<1>1. NoReply \in AssistantEntries
  BY EntryTypes DEF NoReply, StopReasons
<1>2. NoBatch \in Batches
  BY BatchTypes
<1>3. phase \in Phases
  BY DEF Init, Phases
<1>4. /\ steeringQueue \in Seq(Messages) /\ followUpQueue \in Seq(Messages)
      /\ pending \in Seq(Messages)
      /\ steered \in Seq(Messages) /\ followed \in Seq(Messages)
  BY DEF Init
<1>5. /\ transcript \in Seq(Entries)
      /\ context \in Seq(Entries) /\ newMessages \in Seq(Entries)
  BY DEF Init
<1> QED  BY <1>1, <1>2, <1>3, <1>4, <1>5 DEF Init, TypeOK

LEMMA BeginType ==
  ASSUME TypeOK, NEW ms \in Seq(Messages), NEW skip \in BOOLEAN, Begin(ms, skip),
         steeringQueue' \in Seq(Messages), followUpQueue' \in Seq(Messages),
         prompted' \in SUBSET Messages, UNCHANGED <<steered, followed, withdrawn>>
  PROVE  TypeOK'
<1>1. Users(ms) \in Seq(Entries)
  BY EntryTypes
<1>2. context' \in Seq(Entries) /\ newMessages' \in Seq(Entries)
  BY <1>1 DEF TypeOK, Begin
<1>3. runStart' \in Nat
  BY DEF TypeOK, Begin
<1> QED  BY <1>2, <1>3 DEF TypeOK, Begin, Phases, HookPhases, toolVars

LEMMA TypeCaller == TypeOK /\ Caller => TypeOK'
<1> SUFFICES ASSUME TypeOK, Caller PROVE TypeOK'
  OBVIOUS
<1> USE DEF queueVars, toolVars, loopVars, callVars, ghostVars, Phases, HookPhases
<1>1. ASSUME NEW m \in Messages, Steer(m) PROVE TypeOK'
  BY <1>1 DEF TypeOK, Steer
<1>2. ASSUME NEW m \in Messages, FollowUp(m) PROVE TypeOK'
  BY <1>2 DEF TypeOK, FollowUp
<1>3. CASE ClearAllQueues
  BY <1>3, ToSetType DEF TypeOK, ClearAllQueues
<1>4. CASE Abort
  BY <1>4 DEF TypeOK, Abort
<1>5. CASE Interrupt
  BY <1>5 DEF TypeOK, Interrupt
<1>6. CASE DropLastAssistant
  <2>1. Front(transcript) \in Seq(Entries)
    BY <1>6 DEF TypeOK, DropLastAssistant, Front, EndsWithAssistant
  <2> QED  BY <1>6, <2>1 DEF TypeOK, DropLastAssistant
<1>7. ASSUME NEW ms \in Prompts, Prompt(ms) PROVE TypeOK'
  <2>1. ms \in Seq(Messages)
    BY PromptTypes
  <2>2. ToSet(ms) \in SUBSET Messages
    BY <2>1, ToSetType
  <2> QED  BY <1>7, <2>1, <2>2, BeginType DEF TypeOK, Prompt
<1>8. CASE ContinueWithSteering
  BY <1>8, BeginType, DrainTypes DEF TypeOK, ContinueWithSteering
<1>9. CASE ContinueWithFollowUps
  BY <1>9, BeginType, DrainTypes DEF TypeOK, ContinueWithFollowUps
<1>10. CASE ContinueTranscript
  <2>1. <<>> \in Seq(Messages)
    OBVIOUS
  <2> QED  BY <1>10, <2>1, BeginType DEF TypeOK, ContinueTranscript
<1> QED
  BY <1>1, <1>2, <1>3, <1>4, <1>5, <1>6, <1>7, <1>8, <1>9, <1>10 DEF Caller
LEMMA TypeFault == TypeOK /\ Fault => TypeOK'
<1> SUFFICES ASSUME TypeOK, Fault PROVE TypeOK'
  OBVIOUS
<1> USE DEF queueVars, toolVars, loopVars, callVars, ghostVars, Phases, HookPhases
<1>1. CASE Throw
  BY <1>1 DEF TypeOK, Throw
<1>2. ASSUME NEW i \in 1..MaxCalls, ThrowFromTool(i) PROVE TypeOK'
  BY <1>2 DEF TypeOK, ThrowFromTool
<1> QED  BY <1>1, <1>2 DEF Fault

LEMMA TypeTurns == TypeOK /\ Turns => TypeOK'
<1> SUFFICES ASSUME TypeOK, Turns PROVE TypeOK'
  OBVIOUS
<1> USE DEF queueVars, toolVars, loopVars, callVars, ghostVars, Phases, HookPhases
<1>1. CASE EmitPrompt
  <2>1. User(Head(pending)) \in Entries
    BY <1>1, EntryTypes DEF TypeOK, EmitPrompt
  <2> QED  BY <1>1, <2>1 DEF TypeOK, EmitPrompt
<1>2. CASE InitialPoll
  BY <1>2, DrainTypes DEF TypeOK, InitialPoll
<1>3. CASE InjectPending
  <2>1. User(Head(pending)) \in Entries
    BY <1>3, EntryTypes DEF TypeOK, InjectPending
  <2> QED  BY <1>3, <2>1 DEF TypeOK, InjectPending
<1>4. CASE OpenStream
  BY <1>4 DEF TypeOK, OpenStream
<1>5. CASE StreamEnds
  <2>1. PICK raw \in Replies(requests + 1) : \E r \in Recovered(raw) :
          /\ reply' = r
          /\ context' = Append(context, r)
          /\ newMessages' = Append(newMessages, r)
          /\ transcript' = IF stale THEN transcript ELSE Append(transcript, raw)
    BY <1>5 DEF StreamEnds
  <2>1a. PICK r \in Recovered(raw) :
          /\ reply' = r
          /\ context' = Append(context, r)
          /\ newMessages' = Append(newMessages, r)
          /\ transcript' = IF stale THEN transcript ELSE Append(transcript, raw)
    BY <2>1
  <2>3. requests + 1 \in Nat
    BY DEF TypeOK
  <2>4. raw \in AssistantEntries
    BY <2>3, ReplyTypes
  <2>5. r \in AssistantEntries
    <3>1. raw.turn \in Nat
      BY <2>4 DEF AssistantEntries
    <3>2. Assistant("toolUse", 1, raw.turn) \in AssistantEntries
      BY <3>1, EntryTypes DEF StopReasons
    <3>3. r = raw \/ r = Assistant("toolUse", 1, raw.turn)
      BY DEF Recovered
    <3> QED  BY <2>4, <3>2, <3>3
  <2>6. raw \in Entries /\ r \in Entries
    BY <2>4, <2>5, EntryTypes
  <2>7. /\ context' \in Seq(Entries) /\ newMessages' \in Seq(Entries)
        /\ transcript' \in Seq(Entries)
    BY <2>1a, <2>6 DEF TypeOK
  <2> QED  BY <1>5, <2>1a, <2>3, <2>5, <2>7 DEF TypeOK, StreamEnds
<1>6. CASE Decide
  BY <1>6, BatchTypes DEF TypeOK, Decide
<1>7. CASE EndTurn
  BY <1>7, ToSetType DEF TypeOK, EndTurn
<1>8. CASE DrainSteering
  BY <1>8, DrainTypes DEF TypeOK, DrainSteering
<1>9. CASE OuterSteering
  BY <1>9, DrainTypes DEF TypeOK, OuterSteering
<1>10. CASE OuterFollowUp
  BY <1>10, DrainTypes DEF TypeOK, OuterFollowUp
<1>11. CASE HandleRunFailure
  <2> DEFINE failure == Assistant(IF aborted THEN "aborted" ELSE "error", 0, 0)
  <2>1. failure \in Entries
    BY EntryTypes DEF StopReasons
  <2>2. transcript' \in Seq(Entries) /\ newMessages' \in Seq(Entries)
    BY <1>11, <2>1 DEF TypeOK, HandleRunFailure, FailureReport
  <2> QED  BY <1>11, <2>2 DEF TypeOK, HandleRunFailure
<1>12. CASE FinishRun
  <2>1. NoReply \in AssistantEntries
    BY EntryTypes DEF NoReply, StopReasons
  <2>2. /\ pending' \in Seq(Messages) /\ context' \in Seq(Entries)
        /\ newMessages' \in Seq(Entries)
    BY <1>12 DEF FinishRun
  <2> QED  BY <1>12, <2>1, <2>2, BatchTypes DEF TypeOK, FinishRun
<1> QED
  BY <1>1, <1>2, <1>3, <1>4, <1>5, <1>6, <1>7, <1>8, <1>9, <1>10, <1>11, <1>12
  DEF Turns

LEMMA TypeTools == TypeOK /\ Tools => TypeOK'
<1> SUFFICES ASSUME TypeOK, Tools PROVE TypeOK'
  OBVIOUS
<1> USE DEF queueVars, toolVars, loopVars, callVars, ghostVars, Phases, HookPhases
<1> DEFINE i == batch.next
           result == Result(reply.turn, i)
<1>1. /\ i \in Nat /\ Call(i) \in CallIds /\ result \in Entries
      /\ Append(transcript, result) \in Seq(Entries)
  <2>1. i \in Nat /\ reply.turn \in Nat /\ transcript \in Seq(Entries)
    BY DEF TypeOK, Batches, AssistantEntries
  <2>2. Call(i) \in CallIds
    BY <2>1 DEF Call, CallIds
  <2>3. result \in Entries
    BY <2>1, EntryTypes
  <2> QED  BY <2>1, <2>2, <2>3
<1>2. CASE FailTruncatedCall
  <2>1. WithResult(Finalized(batch, i, FALSE), i) \in Batches
    BY <1>1, BatchTypes DEF TypeOK
  <2>2. batch' \in Batches
    BY <1>2, <2>1, BatchTypes DEF FailTruncatedCall
  <2> QED  BY <1>1, <1>2, <2>2 DEF TypeOK, FailTruncatedCall
<1>3. CASE BeginCall
  BY <1>1, <1>3 DEF TypeOK, BeginCall
<1>4. CASE RejectCall
  <2>1. PICK t \in BOOLEAN :
          \/ batch' = WithResult(Finalized(batch, i, t), i) /\ transcript' = Append(transcript, result)
          \/ batch' = Finalized(batch, i, t) /\ transcript' = transcript
    BY <1>4 DEF RejectCall, RejectOutcomes
  <2>2. batch' \in Batches
    BY <1>1, <2>1, BatchTypes DEF TypeOK
  <2>3. transcript' \in Seq(Entries)
    BY <1>1, <2>1 DEF TypeOK
  <2> QED  BY <1>4, <2>2, <2>3 DEF TypeOK, RejectCall
<1>5. CASE AcceptCall
  <2>1. [batch EXCEPT !.ready = @ \union {batch.next}] \in Batches
    BY <1>1 DEF TypeOK, Batches
  <2> QED  BY <1>1, <1>5, <2>1 DEF TypeOK, AcceptCall
<1>6. CASE CheckAbort
  <2>1. NextCall \in Nat
    BY <1>1 DEF TypeOK, AssistantEntries, NextCall
  <2>2. batch' \in Batches
    BY <1>6, <2>1 DEF TypeOK, CheckAbort, Batches
  <2> QED  BY <1>6, <2>2 DEF TypeOK, CheckAbort
<1>7. CASE BatchPrepared
  <2>1. {Call(k) : k \in batch.ready} \in SUBSET CallIds
    BY DEF TypeOK, Batches, Call, CallIds, AssistantEntries
  <2> QED  BY <1>7, <2>1 DEF TypeOK, BatchPrepared
<1>8. CASE SequentialToolEnds
  <2>1. batch' \in Batches
    BY <1>1, <1>8, BatchTypes DEF TypeOK, SequentialToolEnds
  <2> QED  BY <1>1, <1>8, <2>1 DEF TypeOK, SequentialToolEnds
<1>9. ASSUME NEW k \in 1..MaxCalls, ParallelToolEnds(k) PROVE TypeOK'
  <2>1. k \in Nat
    BY AgentLoopAssumption
  <2>2. batch' \in Batches
    BY <1>9, <2>1, BatchTypes DEF TypeOK, ParallelToolEnds
  <2> QED  BY <1>9, <2>2 DEF TypeOK, ParallelToolEnds
<1>10. CASE ToolsSettled
  BY <1>10 DEF TypeOK, ToolsSettled
<1>11. CASE EmitResult
  <2> DEFINE n == Len(batch.results) + 1
  <2>0. reply.turn \in Nat /\ batch.results \in Seq(ResultEntries)
    BY DEF TypeOK, Batches, AssistantEntries
  <2>1. n \in Nat
    BY <2>0
  <2>2. Result(reply.turn, n) \in Entries /\ WithResult(batch, n) \in Batches
    BY <2>0, <2>1, EntryTypes, BatchTypes DEF TypeOK
  <2>3. \/ batch' = WithResult(batch, n) /\ transcript' = Append(transcript, Result(reply.turn, n))
        \/ batch' = batch /\ transcript' = transcript
    BY <1>11 DEF EmitResult
  <2>3a. batch' \in Batches /\ transcript' \in Seq(Entries)
    <3> HIDE DEF n
    <3>1. batch \in Batches /\ transcript \in Seq(Entries)
      BY DEF TypeOK
    <3>2. Append(transcript, Result(reply.turn, n)) \in Seq(Entries)
      BY <2>2, <3>1
    <3> QED  BY <2>2, <2>3, <3>1, <3>2
  <2>4. phase' \in {"results", "batchEnd"}
    BY <1>11 DEF EmitResult
  <2> QED  BY <1>11, <2>3a, <2>4 DEF TypeOK, EmitResult
<1>12. CASE BatchEnds
  <2>1. batch.results \in Seq(Entries)
    BY EntryTypes DEF TypeOK, Batches
  <2>2. context' \in Seq(Entries) /\ newMessages' \in Seq(Entries)
    BY <1>12, <2>1 DEF TypeOK, BatchEnds
  <2>3. hasMore' \in BOOLEAN
    BY <1>12 DEF BatchEnds, BatchTerminates
  <2> QED  BY <1>12, <2>2, <2>3, BatchTypes DEF TypeOK, BatchEnds
<1>13. ASSUME NEW c \in executing, StrayToolEnds(c) PROVE TypeOK'
  BY <1>13 DEF TypeOK, StrayToolEnds
<1> QED
  BY <1>2, <1>3, <1>4, <1>5, <1>6, <1>7, <1>8, <1>9, <1>10, <1>11, <1>12, <1>13
  DEF Tools

(* Every step of the agent, its loop, its tools and its callers preserves  *)
(* the types, so every reachable state has them.                           *)
THEOREM TypeCorrect == Spec => []TypeOK
<1>1. Init => TypeOK
  BY TypeInit
<1>2. TypeOK /\ [Next]_vars => TypeOK'
  <2> SUFFICES ASSUME TypeOK, [Next]_vars PROVE TypeOK'
    OBVIOUS
  <2>1. CASE Next
    BY <2>1, TypeCaller, TypeFault, TypeTurns, TypeTools DEF Next, Loop
  <2>2. CASE UNCHANGED vars
    BY <2>2 DEF vars, queueVars, loopVars, toolVars, callVars, ghostVars, TypeOK
  <2> QED  BY <2>1, <2>2
<1> QED  BY <1>1, <1>2, PTL DEF Spec

-----------------------------------------------------------------------------
(* What the model is asked with: every request follows a message for the   *)
(* model, and its context is the transcript.                               *)

(* The end of a conversation after an append, and after a batch of results.*)
LEMMA AppendUser ==
  ASSUME NEW c \in Seq(Entries), NEW m
  PROVE  Askable(Append(c, User(m)))
BY DEF Askable, User, Last

LEMMA AppendResult ==
  ASSUME NEW c \in Seq(Entries), NEW t, NEW i
  PROVE  Askable(Append(c, Result(t, i)))
BY DEF Askable, Result, Last

LEMMA ResultsAskable ==
  ASSUME NEW c \in Seq(Entries), NEW r \in Seq(ResultEntries), r # <<>>
  PROVE  Askable(c \o r)
<1>1. r[Len(r)] \in ResultEntries
  OBVIOUS
<1>2. c \in Seq(Entries) /\ r \in Seq(Entries)
  BY EntryTypes
<1>3. (c \o r)[Len(c \o r)] = r[Len(r)] /\ c \o r # <<>>
  BY <1>2
<1> QED  BY <1>1, <1>3 DEF Askable, Last, ResultEntries

LEMMA UsersAskable ==
  ASSUME NEW c \in Seq(Entries), NEW ms \in Seq(Messages), ms # <<>>
  PROVE  Askable(c \o Users(ms))
<1>1. Users(ms) \in Seq(Entries) /\ Len(Users(ms)) = Len(ms)
  BY EntryTypes DEF Users
<1>2. (c \o Users(ms))[Len(c \o Users(ms))] = Users(ms)[Len(ms)] /\ c \o Users(ms) # <<>>
  BY <1>1
<1>3. Users(ms)[Len(ms)].role = "user"
  BY DEF Users, User
<1> QED  BY <1>2, <1>3 DEF Askable, Last

(* A drain of a non-empty queue takes something.                           *)
LEMMA DrainsSome ==
  ASSUME NEW q \in Seq(Messages), NEW mode, q # <<>>
  PROVE  Drained(q, mode) # <<>>
BY DEF Drained
-----------------------------------------------------------------------------
LEMMA RequestInit == Init => RequestInvariant
BY DEF Init, RequestInvariant, BatchAnswers, ToolPhases

LEMMA RequestCaller == TypeOK /\ RequestInvariant /\ Caller => RequestInvariant'
<1> SUFFICES ASSUME TypeOK, RequestInvariant, Caller PROVE RequestInvariant'
  OBVIOUS
<1> USE DEF queueVars, toolVars, loopVars, callVars, ghostVars, RequestInvariant,
            BatchAnswers, Underway, ToolPhases
<1>1. ASSUME NEW ms \in Seq(Messages), NEW skip, Begin(ms, skip),
             ms # <<>> \/ Askable(transcript)
      PROVE  RequestInvariant'
  <2>1. transcript \in Seq(Entries)
    BY DEF TypeOK
  <2>2. Askable(transcript \o Users(ms))
    <3>1. CASE ms # <<>>
      BY <2>1, <3>1, UsersAskable
    <3>2. CASE ms = <<>>
      <4>1. Users(ms) = <<>>
        BY <3>2 DEF Users
      <4>2. transcript \o Users(ms) = transcript
        BY <2>1, <4>1
      <4> QED  BY <1>1, <3>2, <4>2
    <3> QED  BY <3>1, <3>2
  <2>3. phase' = "prompts" /\ context' = transcript \o Users(ms)
    BY <1>1 DEF Begin
  <2>4. Askable(context)'
    BY <2>2, <2>3 DEF Askable
  <2> QED  BY <2>3, <2>4
<1>2. ASSUME NEW m \in Messages, Steer(m) \/ FollowUp(m) PROVE RequestInvariant'
  BY <1>2 DEF Steer, FollowUp, Askable
<1>3. CASE ClearAllQueues
  BY <1>3 DEF ClearAllQueues, Askable
<1>4. CASE Abort
  BY <1>4 DEF Abort, Askable
<1>5. CASE Interrupt
  BY <1>5 DEF Interrupt, Askable
<1>6. CASE DropLastAssistant
  BY <1>6 DEF DropLastAssistant
<1>7. ASSUME NEW ms \in Prompts, Prompt(ms) PROVE RequestInvariant'
  <2>1. ms \in Seq(Messages) /\ ms # <<>>
    BY PromptTypes
  <2> QED  BY <1>1, <1>7, <2>1 DEF Prompt
<1>8. CASE ContinueWithSteering
  BY <1>1, <1>8, DrainTypes, DrainsSome DEF TypeOK, ContinueWithSteering
<1>9. CASE ContinueWithFollowUps
  BY <1>1, <1>9, DrainTypes, DrainsSome DEF TypeOK, ContinueWithFollowUps
<1>10. CASE ContinueTranscript
  <2>1. Askable(transcript) /\ Begin(<<>>, FALSE)
    BY <1>10 DEF ContinueTranscript, EndsWithAssistant, Askable
  <2>2. <<>> \in Seq(Messages)
    OBVIOUS
  <2> QED  BY <1>1, <2>1, <2>2
<1> QED
  BY <1>2, <1>3, <1>4, <1>5, <1>6, <1>7, <1>8, <1>9, <1>10 DEF Caller

LEMMA RequestFault == RequestInvariant /\ Fault => RequestInvariant'
BY DEF Fault, Throw, ThrowFromTool, RequestInvariant, BatchAnswers, ToolPhases

LEMMA RequestTurns == TypeOK /\ RequestInvariant /\ Turns => RequestInvariant'
<1> SUFFICES ASSUME TypeOK, RequestInvariant, Turns PROVE RequestInvariant'
  OBVIOUS
<1> USE DEF queueVars, toolVars, loopVars, callVars, ghostVars, RequestInvariant,
            BatchAnswers, ToolPhases
<1>1. CASE EmitPrompt
  BY <1>1 DEF EmitPrompt, Askable
<1>2. CASE InitialPoll
  BY <1>2 DEF InitialPoll, Askable
<1>3. CASE InjectPending
  <2>1. Askable(Append(context, User(Head(pending))))
    BY AppendUser DEF TypeOK
  <2>2. phase' = "turn" /\ context' = Append(context, User(Head(pending)))
    BY <1>3 DEF InjectPending
  <2> QED  BY <2>1, <2>2 DEF Askable
<1>4. CASE OpenStream
  BY <1>4 DEF OpenStream, Askable
<1>5. CASE StreamEnds
  BY <1>5 DEF StreamEnds
<1>6. CASE Decide
  <2>1. reply.calls \in Nat /\ NewBatch("truncated").results = <<>>
        /\ NewBatch("sequential").results = <<>> /\ NewBatch("parallel").results = <<>>
        /\ NewBatch("truncated").next = 1 /\ NewBatch("truncated").mode # "none"
        /\ NewBatch("sequential").mode # "none" /\ NewBatch("parallel").mode # "none"
        /\ NewBatch("sequential").next = 1 /\ NewBatch("parallel").next = 1
    BY DEF TypeOK, AssistantEntries, NewBatch, NoBatch
  <2>2. CASE phase' = "ending"
    BY <2>2
  <2>3. CASE phase' = "turnEnd"
    BY <1>6, <2>3 DEF Decide
  <2>4. CASE phase' = "prepare"
    <3>1. reply' = reply /\ reply.calls > 0 /\ batch'.results = <<>> /\ batch'.next = 1
          /\ batch'.mode # "none"
      BY <1>6, <2>1, <2>4 DEF Decide
    <3> QED  BY <2>4, <3>1
  <2> QED  BY <1>6, <2>2, <2>3, <2>4 DEF Decide
<1>7. CASE EndTurn
  BY <1>7 DEF EndTurn, Askable
<1>8. CASE DrainSteering
  BY <1>8 DEF DrainSteering, Askable
<1>9. CASE OuterSteering
  BY <1>9 DEF OuterSteering
<1>10. CASE OuterFollowUp
  BY <1>10 DEF OuterFollowUp
<1>11. CASE HandleRunFailure
  BY <1>11 DEF HandleRunFailure
<1>12. CASE FinishRun
  BY <1>12 DEF FinishRun
<1> QED
  BY <1>1, <1>2, <1>3, <1>4, <1>5, <1>6, <1>7, <1>8, <1>9, <1>10, <1>11, <1>12
  DEF Turns

LEMMA RequestTools == TypeOK /\ RequestInvariant /\ Tools => RequestInvariant'
<1> SUFFICES ASSUME TypeOK, RequestInvariant, Tools PROVE RequestInvariant'
  OBVIOUS
<1> USE DEF queueVars, toolVars, loopVars, callVars, ghostVars, RequestInvariant,
            BatchAnswers, Underway, ToolPhases
<1> DEFINE i == batch.next
           result == Result(reply.turn, i)
<1>1. batch \in Batches /\ transcript \in Seq(Entries) /\ context \in Seq(Entries)
      /\ i \in Nat
  BY DEF TypeOK, Batches
<1>2. Askable(Append(transcript, result))
  BY <1>1, AppendResult
<1>3. reply.calls \in Nat
  BY DEF TypeOK, AssistantEntries
<1>5. CASE FailTruncatedCall
  <2>1. batch'.results # <<>> /\ batch'.mode = "truncated" /\ phase' = "prepare"
        /\ reply' = reply
    <3> DEFINE b == WithResult(Finalized(batch, i, FALSE), i)
    <3>0. Finalized(batch, i, FALSE) \in Batches
      BY <1>1, BatchTypes
    <3>0a. Finalized(batch, i, FALSE).mode = batch.mode
      BY <1>1, FinalizedFields
    <3>1. b \in Batches /\ b.results # <<>> /\ b.mode = batch.mode
      BY <1>1, <3>0, <3>0a, WithResultFields, BatchTypes DEF TypeOK
    <3>2. [b EXCEPT !.next = @ + 1].results = b.results
          /\ [b EXCEPT !.next = @ + 1].mode = b.mode
      BY <3>1 DEF Batches
    <3> QED  BY <1>5, <3>1, <3>2 DEF FailTruncatedCall
  <2>2. Askable(transcript)'
    BY <1>2, <1>5 DEF FailTruncatedCall, Askable
  <2> QED  BY <1>5, <2>1, <2>2 DEF FailTruncatedCall
<1>6. CASE BeginCall
  BY <1>6 DEF BeginCall, Askable
<1>7. CASE RejectCall
  <2>1. PICK t \in BOOLEAN :
          \/ /\ batch.mode = "sequential"
             /\ batch' = WithResult(Finalized(batch, i, t), i)
             /\ transcript' = Append(transcript, result)
          \/ /\ batch.mode # "sequential"
             /\ batch' = Finalized(batch, i, t) /\ transcript' = transcript
    BY <1>7 DEF RejectCall, RejectOutcomes
  <2>2. phase = "preflight" /\ phase' = "checkAbort" /\ reply' = reply
    BY <1>7 DEF RejectCall
  <2>3. Finalized(batch, i, t) \in Batches
    BY <1>1, BatchTypes
  <2>4. CASE batch.mode = "sequential"
    <3>1. batch'.results # <<>> /\ batch'.mode = "sequential"
      BY <1>1, <2>1, <2>3, <2>4, FinalizedFields, WithResultFields
    <3>2. Askable(transcript)'
      BY <1>2, <2>1, <2>4 DEF Askable
    <3> QED  BY <2>2, <3>1, <3>2
  <2>5. CASE batch.mode # "sequential"
    <3>1. batch'.mode = "parallel" /\ i \in batch'.done
      BY <1>1, <2>1, <2>2, <2>5, FinalizedFields DEF Batches
    <3>2. batch'.ready = batch.ready /\ batch.done \subseteq batch'.done
          /\ batch'.results = batch.results
      BY <1>1, <2>1, <2>5, FinalizedFields
    <3>3. Askable(transcript)' <=> Askable(transcript)
      BY <2>1, <2>5 DEF Askable
    <3>4. batch.mode = "parallel"
      BY <1>1, <2>2, <2>5 DEF Batches
    <3> QED  BY <2>2, <3>1, <3>2, <3>3, <3>4
  <2> QED  BY <2>4, <2>5
<1>8. CASE AcceptCall
  <2>1. Askable(transcript)' <=> Askable(transcript)
    BY <1>8 DEF AcceptCall, Askable
  <2>2. CASE batch.mode = "sequential"
    BY <1>8, <2>1, <2>2 DEF AcceptCall
  <2>3. CASE batch.mode = "parallel"
    <3>1. batch'.mode = "parallel" /\ batch'.results = batch.results /\ i \in batch'.ready
          /\ batch.ready \subseteq batch'.ready /\ batch'.done = batch.done
      BY <1>1, <1>8, <2>3 DEF AcceptCall, Batches
    <3> QED  BY <1>8, <2>1, <2>3, <3>1 DEF AcceptCall
  <2> QED  BY <1>8, <2>2, <2>3 DEF AcceptCall
<1>9. CASE CheckAbort
  <2>1. batch'.mode = batch.mode /\ batch'.results = batch.results
        /\ batch'.ready = batch.ready /\ batch'.done = batch.done
    BY <1>1, <1>9 DEF CheckAbort, Batches
  <2>2. Askable(transcript)' <=> Askable(transcript)
    BY <1>9 DEF CheckAbort, Askable
  <2> QED  BY <1>9, <2>1, <2>2 DEF CheckAbort
<1>10. CASE BatchPrepared
  <2>1. Underway
    BY <1>1, <1>3, <1>10 DEF BatchPrepared
  <2>2. Askable(transcript)' <=> Askable(transcript)
    BY <1>10 DEF BatchPrepared, Askable
  <2> QED  BY <1>10, <2>1, <2>2 DEF BatchPrepared
<1>11. CASE SequentialToolEnds
  <2>1. PICK t \in BOOLEAN : batch' = WithResult(Finalized(batch, i, t), i)
    BY <1>11 DEF SequentialToolEnds
  <2>2. Finalized(batch, i, t) \in Batches
    BY <1>1, BatchTypes
  <2>3. batch'.results # <<>> /\ batch'.mode = "sequential"
    BY <1>1, <1>11, <2>1, <2>2, FinalizedFields, WithResultFields DEF SequentialToolEnds
  <2>4. Askable(transcript)'
    BY <1>2, <1>11 DEF SequentialToolEnds, Askable
  <2> QED  BY <1>11, <2>3, <2>4 DEF SequentialToolEnds
<1>12. ASSUME NEW k \in 1..MaxCalls, ParallelToolEnds(k) PROVE RequestInvariant'
  <2>1. PICK t \in BOOLEAN : batch' = Finalized(batch, k, t)
    BY <1>12 DEF ParallelToolEnds
  <2>2. batch'.mode = batch.mode /\ batch'.results = batch.results
        /\ batch'.ready = batch.ready /\ batch.done \subseteq batch'.done
    BY <1>1, <2>1, FinalizedFields
  <2>3. Askable(transcript)' <=> Askable(transcript)
    BY <1>12 DEF ParallelToolEnds, Askable
  <2> QED  BY <1>12, <2>2, <2>3 DEF ParallelToolEnds
<1>13. CASE ToolsSettled
  BY <1>13 DEF ToolsSettled, Askable, AllSettled
<1>14. CASE EmitResult
  <2> DEFINE n == Len(batch.results) + 1
  <2>1. CASE n \in batch.done
    <3>1. batch' = WithResult(batch, n) /\ phase' = "results"
          /\ transcript' = Append(transcript, Result(reply.turn, n))
      BY <1>14, <2>1 DEF EmitResult
    <3>2. batch'.results # <<>> /\ batch'.done = batch.done /\ batch'.mode = batch.mode
      BY <1>1, <3>1, WithResultFields
    <3>3. Askable(Append(transcript, Result(reply.turn, n)))
      BY <1>1, AppendResult
    <3>4. Askable(transcript)'
      BY <3>1, <3>3 DEF Askable
    <3> QED  BY <1>14, <3>1, <3>2, <3>4 DEF EmitResult
  <2>2. CASE n \notin batch.done
    <3>1. phase' = "batchEnd" /\ batch' = batch
          /\ (Askable(transcript)' <=> Askable(transcript))
      BY <1>14, <2>2 DEF EmitResult, Askable
    <3>2. batch.results # <<>>
      BY <1>14, <2>2 DEF EmitResult
    <3> QED  BY <1>14, <3>1, <3>2 DEF EmitResult
  <2> QED  BY <2>1, <2>2
<1>15. CASE BatchEnds
  <2>1. batch.results \in Seq(ResultEntries) /\ batch.results # <<>> /\ Askable(transcript)
    BY <1>1, <1>15 DEF BatchEnds, Batches
  <2>2. Askable(context \o batch.results)
    BY <1>1, <2>1, ResultsAskable
  <2>3. Askable(context)' /\ Askable(transcript)'
    BY <1>15, <2>1, <2>2 DEF BatchEnds, Askable
  <2> QED  BY <1>15, <2>3 DEF BatchEnds
<1>16. ASSUME NEW c \in executing, StrayToolEnds(c) PROVE RequestInvariant'
  BY <1>16 DEF StrayToolEnds, Askable
<1> QED
  BY <1>5, <1>6, <1>7, <1>8, <1>9, <1>10, <1>11, <1>12, <1>13, <1>14, <1>15, <1>16
  DEF Tools

(* No request follows an assistant message: neither after a batch that the *)
(* abort cut short nor after a retry or a resumed run.                     *)
THEOREM RequestsFollowMessages == Spec => []NeverAskAfterAssistant
<1>1. Init => RequestInvariant
  BY RequestInit
<1>2. TypeOK /\ RequestInvariant /\ [Next]_vars => RequestInvariant'
  <2> SUFFICES ASSUME TypeOK, RequestInvariant, [Next]_vars PROVE RequestInvariant'
    OBVIOUS
  <2>1. CASE Next
    BY <2>1, RequestCaller, RequestFault, RequestTurns, RequestTools DEF Next, Loop
  <2>2. CASE UNCHANGED vars
    BY <2>2 DEF vars, queueVars, loopVars, toolVars, callVars, ghostVars,
                RequestInvariant, BatchAnswers, ToolPhases, Underway, Askable
  <2> QED  BY <2>1, <2>2
<1>3. RequestInvariant => NeverAskAfterAssistant
  BY DEF RequestInvariant, NeverAskAfterAssistant, Askable
<1> QED  BY <1>1, <1>2, <1>3, TypeCorrect, PTL DEF Spec
-----------------------------------------------------------------------------
(* The context is the transcript                                           *)

(* What the sequences of the invariant are made of.                        *)
LEMMA EmitOne ==
  ASSUME NEW c \in Seq(Entries), NEW ms \in Seq(Messages), ms # <<>>
  PROVE  c \o Users(ms) = Append(c, User(Head(ms))) \o Users(Tail(ms))
<1>1. User(Head(ms)) \in Entries /\ Users(ms) \in Seq(Entries)
      /\ Users(Tail(ms)) \in Seq(Entries) /\ Tail(ms) \in Seq(Messages)
  <2>1. Head(ms) \in Messages /\ Tail(ms) \in Seq(Messages)
    OBVIOUS
  <2> QED  BY <2>1, EntryTypes
<1>2. Len(Users(ms)) = Len(ms) /\ Len(Users(Tail(ms))) = Len(ms) - 1
  BY <1>1 DEF Users
<1>3. Users(ms)[1] = User(Head(ms))
  BY DEF Users
<1>4. \A k \in 1..(Len(ms) - 1) : Users(Tail(ms))[k] = Users(ms)[k + 1]
  BY <1>1 DEF Users
<1> DEFINE left == c \o Users(ms)
           right == Append(c, User(Head(ms))) \o Users(Tail(ms))
<1>5. left \in Seq(Entries) /\ right \in Seq(Entries) /\ Len(left) = Len(right)
  BY <1>1, <1>2
<1>6. \A k \in 1..Len(left) : left[k] = right[k]
  BY <1>1, <1>2, <1>3, <1>4
<1> HIDE DEF left, right
<1>7. left = right
  BY <1>5, <1>6, SMTT(30)
<1> QED  BY <1>7 DEF left, right

LEMMA AppendToBatch ==
  ASSUME NEW c \in Seq(Entries), NEW r \in Seq(Entries), NEW e \in Entries
  PROVE  Append(c \o r, e) = c \o Append(r, e)
OBVIOUS

LEMMA ContextInit == Init => ContextInvariant
BY DEF Init, ContextInvariant, ToolPhases

LEMMA ContextCaller == TypeOK /\ ContextInvariant /\ Caller => ContextInvariant'
<1> SUFFICES ASSUME TypeOK, ContextInvariant, Caller PROVE ContextInvariant'
  OBVIOUS
<1> USE DEF queueVars, toolVars, loopVars, callVars, ghostVars, ContextInvariant,
            ToolPhases
<1>1. ASSUME NEW ms, NEW skip, Begin(ms, skip) PROVE ContextInvariant'
  <2>1. /\ phase' = "prompts" /\ pending' = ms /\ transcript' = transcript
        /\ context' = transcript \o Users(ms)
    BY <1>1 DEF Begin
  <2>2. Users(pending)' = Users(ms)
    BY <2>1 DEF Users, User
  <2> QED  BY <2>1, <2>2
<1>2. ASSUME phase' = phase, transcript' = transcript, context' = context,
             pending' = pending, batch' = batch, stale' = stale \/ stale'
      PROVE  ContextInvariant'
  <2>1. Users(pending)' = Users(pending)
    BY <1>2 DEF Users, User
  <2> QED  BY <1>2, <2>1
<1>3. ASSUME NEW m \in Messages, Steer(m) \/ FollowUp(m) PROVE ContextInvariant'
  BY <1>2, <1>3 DEF Steer, FollowUp
<1>4. CASE ClearAllQueues \/ Abort \/ Interrupt
  BY <1>2, <1>4 DEF ClearAllQueues, Abort, Interrupt
<1>5. CASE DropLastAssistant
  BY <1>5 DEF DropLastAssistant
<1>6. ASSUME NEW ms \in Prompts, Prompt(ms) PROVE ContextInvariant'
  BY <1>1, <1>6 DEF Prompt
<1>7. CASE ContinueWithSteering \/ ContinueWithFollowUps \/ ContinueTranscript
  BY <1>1, <1>7 DEF ContinueWithSteering, ContinueWithFollowUps, ContinueTranscript
<1> QED  BY <1>3, <1>4, <1>5, <1>6, <1>7 DEF Caller

LEMMA ContextFault == ContextInvariant /\ Fault => ContextInvariant'
BY DEF Fault, Throw, ThrowFromTool, ContextInvariant, ToolPhases

LEMMA ContextTurns ==
  ASSUME TextCallRecovery = FALSE, TypeOK, ContextInvariant, Turns
  PROVE  ContextInvariant'
<1> USE DEF queueVars, toolVars, loopVars, callVars, ghostVars, ContextInvariant,
            ToolPhases
<1>1. CASE EmitPrompt
  <2>1. /\ transcript' = Append(transcript, User(Head(pending)))
        /\ pending' = Tail(pending) /\ phase = "prompts" /\ phase' = "prompts"
        /\ context' = context /\ pending # <<>>
    BY <1>1 DEF EmitPrompt
  <2>2. context = transcript' \o Users(Tail(pending))
    BY <2>1, EmitOne DEF TypeOK
  <2>3. Users(pending)' = Users(Tail(pending))
    BY <2>1 DEF Users, User
  <2> QED  BY <2>1, <2>2, <2>3
<1>2. CASE InitialPoll
  <2>1. context = transcript \o Users(<<>>)
    BY <1>2 DEF InitialPoll
  <2>2. Users(<<>>) = <<>>
    BY DEF Users
  <2>3. context = transcript
    BY <2>1, <2>2 DEF TypeOK
  <2> QED  BY <1>2, <2>3 DEF InitialPoll
<1>3. CASE InjectPending
  BY <1>3 DEF InjectPending
<1>4. CASE OpenStream
  BY <1>4 DEF OpenStream
<1>5. CASE StreamEnds
  <2>1. PICK raw \in Replies(requests + 1) : \E r \in Recovered(raw) :
          /\ context' = Append(context, r)
          /\ transcript' = IF stale THEN transcript ELSE Append(transcript, raw)
    BY <1>5 DEF StreamEnds
  <2>2. Recovered(raw) = {raw}
    BY DEF Recovered
  <2> QED  BY <1>5, <2>1, <2>2 DEF StreamEnds
<1>6. CASE Decide
  <2>1. NewBatch("truncated").results = <<>> /\ NewBatch("sequential").results = <<>>
        /\ NewBatch("parallel").results = <<>>
    BY DEF NewBatch, NoBatch
  <2>2. transcript' = transcript /\ context' = context /\ phase = "decide"
    BY <1>6 DEF Decide
  <2>3. CASE phase' = "prepare"
    <3>1. batch'.results = <<>> /\ ~stale
      BY <1>6, <2>1, <2>3 DEF Decide
    <3>2. transcript = context \o <<>>
      BY <2>2, <3>1 DEF TypeOK
    <3> QED  BY <2>2, <2>3, <3>1, <3>2
  <2>4. CASE phase' \in {"ending", "turnEnd"}
    BY <1>6, <2>4 DEF Decide
  <2> QED  BY <1>6, <2>3, <2>4 DEF Decide
<1>7. CASE EndTurn
  BY <1>7 DEF EndTurn
<1>8. CASE DrainSteering \/ OuterSteering \/ OuterFollowUp
  BY <1>8 DEF DrainSteering, OuterSteering, OuterFollowUp
<1>9. CASE HandleRunFailure \/ FinishRun
  BY <1>9 DEF HandleRunFailure, FinishRun
<1> QED  BY <1>1, <1>2, <1>3, <1>4, <1>5, <1>6, <1>7, <1>8, <1>9 DEF Turns

LEMMA ContextTools == TypeOK /\ ContextInvariant /\ Tools => ContextInvariant'
<1> SUFFICES ASSUME TypeOK, ContextInvariant, Tools PROVE ContextInvariant'
  OBVIOUS
<1> USE DEF queueVars, toolVars, loopVars, callVars, ghostVars, ContextInvariant,
            ToolPhases
<1>1. /\ batch \in Batches /\ context \in Seq(Entries) /\ transcript \in Seq(Entries)
      /\ batch.results \in Seq(Entries) /\ reply.turn \in Nat /\ batch.next \in Nat
  <2>1. /\ batch \in Batches /\ context \in Seq(Entries) /\ transcript \in Seq(Entries)
        /\ reply \in AssistantEntries
    BY DEF TypeOK
  <2>2. batch.results \in Seq(ResultEntries) /\ batch.next \in Nat
    BY <2>1 DEF Batches
  <2>3. batch.results \in Seq(Entries)
    BY <2>2, EntryTypes
  <2>4. reply.turn \in Nat
    BY <2>1 DEF AssistantEntries
  <2> QED  BY <2>1, <2>2, <2>3, <2>4
<1>2. ASSUME phase \in ToolPhases, phase' \in ToolPhases, context' = context,
             NEW b \in Batches, b.results = batch.results, NEW k \in Nat,
             batch'.results = WithResult(b, k).results,
             transcript' = Append(transcript, Result(reply.turn, k))
      PROVE  ContextInvariant'
  <2>1. Result(reply.turn, k) \in Entries
    BY <1>1, <1>2, EntryTypes
  <2>2. batch'.results = Append(batch.results, Result(reply.turn, k))
    BY <1>2, WithResultFields
  <2>3. transcript' = context \o Append(batch.results, Result(reply.turn, k))
    <3>1. transcript = context \o batch.results
      BY <1>2
    <3>2. Append(context \o batch.results, Result(reply.turn, k))
            = context \o Append(batch.results, Result(reply.turn, k))
      BY <1>1, <2>1, AppendToBatch
    <3> QED  BY <1>2, <3>1, <3>2
  <2> QED  BY <1>2, <2>2, <2>3
<1>3. ASSUME phase \in ToolPhases, phase' \in ToolPhases, context' = context,
             batch'.results = batch.results, transcript' = transcript
      PROVE  ContextInvariant'
  BY <1>3
<1>4. \A t \in BOOLEAN, k \in Nat :
        /\ Finalized(batch, k, t) \in Batches
        /\ Finalized(batch, k, t).results = batch.results
  BY <1>1, BatchTypes, FinalizedFields
<1>5. CASE FailTruncatedCall
  <2> DEFINE b == Finalized(batch, batch.next, FALSE)
             w == WithResult(b, batch.next)
  <2>1. b \in Batches /\ b.results = batch.results
    BY <1>1, <1>4
  <2>2. w \in Batches
    BY <1>1, <2>1, BatchTypes DEF TypeOK
  <2>3. [w EXCEPT !.next = @ + 1].results = w.results
    BY <2>2 DEF Batches
  <2> QED  BY <1>1, <1>2, <1>5, <2>1, <2>3 DEF FailTruncatedCall
<1>6. CASE BeginCall \/ BatchPrepared \/ ToolsSettled
  BY <1>3, <1>6 DEF BeginCall, BatchPrepared, ToolsSettled
<1>7. CASE RejectCall
  <2>1. PICK t \in BOOLEAN :
          \/ /\ batch' = WithResult(Finalized(batch, batch.next, t), batch.next)
             /\ transcript' = Append(transcript, Result(reply.turn, batch.next))
          \/ batch' = Finalized(batch, batch.next, t) /\ transcript' = transcript
    BY <1>7 DEF RejectCall, RejectOutcomes
  <2> QED  BY <1>1, <1>2, <1>3, <1>4, <1>7, <2>1 DEF RejectCall
<1>8. CASE AcceptCall
  <2>1. batch'.results = batch.results
    BY <1>1, <1>8 DEF AcceptCall, Batches
  <2> QED  BY <1>3, <1>8, <2>1 DEF AcceptCall
<1>9. CASE CheckAbort
  <2>1. batch'.results = batch.results
    BY <1>1, <1>9 DEF CheckAbort, Batches
  <2> QED  BY <1>3, <1>9, <2>1 DEF CheckAbort
<1>10. CASE SequentialToolEnds
  <2>1. PICK t \in BOOLEAN :
          batch' = WithResult(Finalized(batch, batch.next, t), batch.next)
    BY <1>10 DEF SequentialToolEnds
  <2> QED  BY <1>1, <1>2, <1>4, <1>10, <2>1 DEF SequentialToolEnds
<1>11. ASSUME NEW k \in 1..MaxCalls, ParallelToolEnds(k) PROVE ContextInvariant'
  <2>1. PICK t \in BOOLEAN : batch' = Finalized(batch, k, t)
    BY <1>11 DEF ParallelToolEnds
  <2>2. batch'.results = batch.results
    BY <1>1, <2>1, FinalizedFields
  <2> QED  BY <1>3, <1>11, <2>2 DEF ParallelToolEnds
<1>12. CASE EmitResult
  <2> DEFINE n == Len(batch.results) + 1
  <2>1. n \in Nat
    BY <1>1
  <2>2. CASE n \in batch.done
    BY <1>1, <1>2, <1>12, <2>1, <2>2 DEF EmitResult
  <2>3. CASE n \notin batch.done
    BY <1>3, <1>12, <2>3 DEF EmitResult
  <2> QED  BY <2>2, <2>3
<1>13. CASE BatchEnds
  BY <1>13 DEF BatchEnds
<1>14. ASSUME NEW c \in executing, StrayToolEnds(c) PROVE ContextInvariant'
  <2>1. Users(pending)' = Users(pending)
    BY <1>14 DEF StrayToolEnds, Users, User
  <2> QED  BY <1>14, <2>1 DEF StrayToolEnds
<1> QED
  BY <1>5, <1>6, <1>7, <1>8, <1>9, <1>10, <1>11, <1>12, <1>13, <1>14 DEF Tools

(* Where no reply is rewritten, the model is asked with the transcript: the *)
(* context the loop keeps and the messages the agent shows, persists and   *)
(* retries from never come apart.                                          *)
THEOREM RequestsCarryTranscript ==
  ASSUME TextCallRecovery = FALSE
  PROVE  Spec => []AskWithTranscript
<1>1. Init => ContextInvariant
  BY ContextInit
<1>2. TypeOK /\ ContextInvariant /\ [Next]_vars => ContextInvariant'
  <2> SUFFICES ASSUME TypeOK, ContextInvariant, [Next]_vars PROVE ContextInvariant'
    OBVIOUS
  <2>1. CASE Next
    BY <2>1, ContextCaller, ContextFault, ContextTurns, ContextTools DEF Next, Loop
  <2>2. CASE UNCHANGED vars
    <3>1. Users(pending)' = Users(pending)
      BY <2>2 DEF vars, Users, User
    <3> QED  BY <2>2, <3>1 DEF vars, queueVars, loopVars, toolVars, ContextInvariant,
                               ToolPhases
  <2> QED  BY <2>1, <2>2
<1>3. ContextInvariant => AskWithTranscript
  BY DEF ContextInvariant, AskWithTranscript
<1> QED  BY <1>1, <1>2, <1>3, TypeCorrect, PTL DEF Spec
-----------------------------------------------------------------------------
(* Tool calls: each is answered once, in order, and none stays pending.    *)

\* What a step of a batch does to it, field by field.
BatchStays(f) == /\ "mode" \in f => batch'.mode = batch.mode
                 /\ "next" \in f => batch'.next = batch.next
                 /\ "ready" \in f => batch'.ready = batch.ready
                 /\ "done" \in f => batch'.done = batch.done
                 /\ "results" \in f => batch'.results = batch.results
Answered(k) == batch'.results = Append(batch.results, Result(reply.turn, k))

LEMMA BatchEffects ==
  ASSUME TypeOK
  PROVE  /\ FailTruncatedCall =>
              /\ BatchStays({"mode", "ready"}) /\ Answered(batch.next)
              /\ batch'.next = batch.next + 1 /\ batch'.done = batch.done \union {batch.next}
         /\ RejectCall =>
              /\ BatchStays({"mode", "next", "ready"})
              /\ batch'.done = batch.done \union {batch.next}
              /\ \/ batch.mode = "sequential" /\ Answered(batch.next)
                    /\ transcript' = Append(transcript, Result(reply.turn, batch.next))
                 \/ batch.mode # "sequential" /\ BatchStays({"results"})
                    /\ transcript' = transcript
         /\ AcceptCall =>
              /\ BatchStays({"mode", "next", "done", "results"})
              /\ \/ batch.mode = "sequential" /\ BatchStays({"ready"}) /\ phase' = "executing"
                 \/ /\ batch.mode = "parallel" /\ phase' = "checkAbort"
                    /\ batch'.ready = batch.ready \union {batch.next}
         /\ CheckAbort =>
              /\ BatchStays({"mode", "ready", "done", "results"}) /\ batch'.next = NextCall
         /\ SequentialToolEnds =>
              /\ BatchStays({"mode", "next", "ready"}) /\ Answered(batch.next)
              /\ batch'.done = batch.done \union {batch.next}
         /\ \A k \in 1..MaxCalls : ParallelToolEnds(k) =>
              /\ BatchStays({"mode", "next", "ready", "results"})
              /\ batch'.done = batch.done \union {k}
         /\ EmitResult =>
              \/ /\ Len(batch.results) + 1 \in batch.done
                 /\ BatchStays({"mode", "next", "ready", "done"})
                 /\ Answered(Len(batch.results) + 1)
                 /\ transcript' = Append(transcript, Result(reply.turn, Len(batch.results) + 1))
                 /\ phase' = "results"
              \/ /\ Len(batch.results) + 1 \notin batch.done
                 /\ batch' = batch /\ transcript' = transcript
                 /\ phase' = "batchEnd"
<1> USE DEF BatchStays, Answered
<1> DEFINE i == batch.next
<1>1. /\ batch \in Batches /\ i \in Nat /\ reply \in AssistantEntries
      /\ \A t \in BOOLEAN, k \in Nat : Finalized(batch, k, t) \in Batches
  BY BatchTypes DEF TypeOK, Batches
<1>2. ASSUME NEW t \in BOOLEAN, NEW k \in Nat
      PROVE  LET w == WithResult(Finalized(batch, k, t), k)
             IN  /\ w \in Batches
                 /\ w.results = Append(batch.results, Result(reply.turn, k))
                 /\ w.done = batch.done \union {k} /\ w.ready = batch.ready
                 /\ w.mode = batch.mode /\ w.next = batch.next
  <2> DEFINE f == Finalized(batch, k, t)
  <2>1. /\ f \in Batches /\ f.results = batch.results /\ f.done = batch.done \union {k}
        /\ f.ready = batch.ready /\ f.mode = batch.mode /\ f.next = batch.next
    BY <1>1, FinalizedFields
  <2> HIDE DEF f
  <2>2. WithResult(f, k) \in Batches
    BY <1>1, <2>1, BatchTypes
  <2>3. /\ WithResult(f, k).results = Append(f.results, Result(reply.turn, k))
        /\ WithResult(f, k).done = f.done /\ WithResult(f, k).ready = f.ready
        /\ WithResult(f, k).mode = f.mode /\ WithResult(f, k).next = f.next
    BY <2>1, WithResultFields
  <2>4. QED  BY <2>1, <2>2, <2>3 DEF f
<1>3. ASSUME FailTruncatedCall
      PROVE  /\ BatchStays({"mode", "ready"}) /\ Answered(batch.next)
             /\ batch'.next = batch.next + 1 /\ batch'.done = batch.done \union {batch.next}
  <2> DEFINE w == WithResult(Finalized(batch, i, FALSE), i)
  <2>1. w \in Batches /\ batch' = [w EXCEPT !.next = @ + 1]
    BY <1>1, <1>2, <1>3 DEF FailTruncatedCall
  <2>2. /\ batch'.next = w.next + 1 /\ batch'.mode = w.mode /\ batch'.ready = w.ready
        /\ batch'.done = w.done /\ batch'.results = w.results
    <3> HIDE DEF w
    <3> QED  BY <2>1 DEF Batches
  <2> QED  BY <1>1, <1>2, <2>2
<1>4. ASSUME RejectCall
      PROVE  /\ BatchStays({"mode", "next", "ready"})
             /\ batch'.done = batch.done \union {batch.next}
             /\ \/ batch.mode = "sequential" /\ Answered(batch.next)
                   /\ transcript' = Append(transcript, Result(reply.turn, batch.next))
                \/ batch.mode # "sequential" /\ BatchStays({"results"})
                   /\ transcript' = transcript
  <2>1. PICK t \in BOOLEAN :
          \/ /\ batch.mode = "sequential"
             /\ batch' = WithResult(Finalized(batch, i, t), i)
             /\ transcript' = Append(transcript, Result(reply.turn, i))
          \/ /\ batch.mode # "sequential"
             /\ batch' = Finalized(batch, i, t) /\ transcript' = transcript
    BY <1>4 DEF RejectCall, RejectOutcomes
  <2> QED  BY <1>1, <1>2, <2>1, FinalizedFields
<1>5. ASSUME AcceptCall
      PROVE  /\ BatchStays({"mode", "next", "done", "results"})
             /\ \/ batch.mode = "sequential" /\ BatchStays({"ready"}) /\ phase' = "executing"
                \/ /\ batch.mode = "parallel" /\ phase' = "checkAbort"
                   /\ batch'.ready = batch.ready \union {batch.next}
  BY <1>1, <1>5 DEF AcceptCall, Batches
<1>6. ASSUME CheckAbort
      PROVE  BatchStays({"mode", "ready", "done", "results"}) /\ batch'.next = NextCall
  BY <1>1, <1>6 DEF CheckAbort, Batches
<1>7. ASSUME SequentialToolEnds
      PROVE  /\ BatchStays({"mode", "next", "ready"}) /\ Answered(batch.next)
             /\ batch'.done = batch.done \union {batch.next}
  <2>1. PICK t \in BOOLEAN : batch' = WithResult(Finalized(batch, i, t), i)
    BY <1>7 DEF SequentialToolEnds
  <2> QED  BY <1>1, <1>2, <2>1
<1>8. ASSUME NEW k \in 1..MaxCalls, ParallelToolEnds(k)
      PROVE  /\ BatchStays({"mode", "next", "ready", "results"})
             /\ batch'.done = batch.done \union {k}
  BY <1>1, <1>8, FinalizedFields DEF ParallelToolEnds
<1>9. ASSUME EmitResult
      PROVE  \/ /\ Len(batch.results) + 1 \in batch.done
                /\ BatchStays({"mode", "next", "ready", "done"})
                /\ Answered(Len(batch.results) + 1)
                /\ transcript' = Append(transcript, Result(reply.turn, Len(batch.results) + 1))
                /\ phase' = "results"
             \/ /\ Len(batch.results) + 1 \notin batch.done
                /\ batch' = batch /\ transcript' = transcript
                /\ phase' = "batchEnd"
  BY <1>1, <1>9, WithResultFields DEF EmitResult
<1> HIDE DEF BatchStays, Answered
<1> QED  BY <1>3, <1>4, <1>5, <1>6, <1>7, <1>8, <1>9

\* A new batch has answered and started nothing.
LEMMA NewBatchFields ==
  \A mode : /\ NewBatch(mode).mode = mode /\ NewBatch(mode).next = 1
            /\ NewBatch(mode).ready = {} /\ NewBatch(mode).done = {}
            /\ NewBatch(mode).results = <<>>
BY DEF NewBatch, NoBatch

TurnPhases == {"prompts", "turn", "streaming", "turnEnd", "drain", "outer", "outerFollowUp"}

\* The calls a batch has begun are those before the next one.
BatchBounds ==
  phase \in ToolPhases =>
    /\ batch.next > 0
    /\ batch.mode # "parallel" => batch.ready = {}
    /\ phase \in {"prepare", "preflight"} =>
         batch.ready \union batch.done \subseteq 1..(batch.next - 1)
    /\ phase = "checkAbort" => batch.ready \union batch.done \subseteq 1..batch.next
    /\ phase \in {"preflight", "checkAbort", "executing"} => batch.next <= reply.calls
    /\ phase \in {"preflight", "checkAbort"} => batch.mode # "truncated"
    /\ phase = "executing" => batch.mode = "sequential" /\ batch.done \subseteq 1..(batch.next - 1)
    /\ phase = "running" => batch.mode = "parallel"
    /\ phase = "results" => batch.ready \subseteq batch.done

\* Pending are the calls whose tools run, and the one in preparation.
CallsOpen == {Call(i) : i \in batch.ready \ batch.done}
PendingCalls ==
  /\ phase \in TurnPhases \union {"idle", "decide", "results", "batchEnd"} => pendingToolCalls = {}
  /\ phase \in {"prepare", "checkAbort", "running"} => pendingToolCalls \subseteq CallsOpen
  /\ phase \in {"preflight", "executing"} =>
       pendingToolCalls \subseteq CallsOpen \union {Call(batch.next)}

LEMMA BoundsStep == TypeOK /\ BatchBounds /\ [Next]_vars => BatchBounds'
<1> SUFFICES ASSUME TypeOK, BatchBounds, [Next]_vars PROVE BatchBounds'
  OBVIOUS
<1> USE DEF queueVars, toolVars, loopVars, callVars, ghostVars, BatchBounds, ToolPhases
<1>1. batch.next \in Nat /\ reply.calls \in Nat /\ batch.ready \subseteq Nat
      /\ batch.done \subseteq Nat
      /\ batch.mode \in {"none", "truncated", "sequential", "parallel"}
  BY DEF TypeOK, Batches, AssistantEntries
<1>2. CASE Caller
  BY <1>2 DEF Caller, Steer, FollowUp, ClearAllQueues, Abort, Interrupt, DropLastAssistant,
     Prompt, ContinueWithSteering, ContinueWithFollowUps, ContinueTranscript, Begin
<1>3. CASE Fault
  BY <1>3 DEF Fault, Throw, ThrowFromTool
<1>4. CASE Decide
  BY <1>4, NewBatchFields DEF Decide
<1>5. CASE Turns /\ ~Decide
  BY <1>5 DEF Turns, EmitPrompt, InitialPoll, InjectPending, OpenStream, StreamEnds, EndTurn,
     DrainSteering, OuterSteering, OuterFollowUp, HandleRunFailure, FinishRun
<1>6. CASE FailTruncatedCall
  <2>1. phase = "prepare" /\ phase' = "prepare" /\ batch.mode = "truncated" /\ reply' = reply
    BY <1>6 DEF FailTruncatedCall
  <2> QED  BY <1>1, <1>6, <2>1, BatchEffects DEF BatchStays
<1>7. CASE BeginCall
  BY <1>1, <1>7 DEF BeginCall
<1>8. CASE RejectCall
  <2>1. phase = "preflight" /\ phase' = "checkAbort" /\ reply' = reply
    BY <1>8 DEF RejectCall
  <2> QED  BY <1>1, <1>8, <2>1, BatchEffects DEF BatchStays
<1>9. CASE AcceptCall
  <2>1. phase = "preflight" /\ reply' = reply
    BY <1>9 DEF AcceptCall
  <2> QED  BY <1>1, <1>9, <2>1, BatchEffects DEF BatchStays
<1>10. CASE CheckAbort
  <2>1. phase = "checkAbort" /\ phase' = "prepare" /\ reply' = reply
        /\ NextCall \in Nat /\ NextCall > batch.next
    BY <1>1, <1>10 DEF CheckAbort, NextCall
  <2> QED  BY <1>1, <1>10, <2>1, BatchEffects DEF BatchStays
<1>11. CASE SequentialToolEnds
  <2>1. phase = "executing" /\ phase' = "checkAbort" /\ reply' = reply
    BY <1>11 DEF SequentialToolEnds
  <2> QED  BY <1>1, <1>11, <2>1, BatchEffects DEF BatchStays
<1>12. ASSUME NEW k \in 1..MaxCalls, ParallelToolEnds(k) PROVE BatchBounds'
  <2>1. phase = "running" /\ phase' = "running" /\ reply' = reply
    BY <1>12 DEF ParallelToolEnds
  <2> QED  BY <1>1, <1>12, <2>1, BatchEffects DEF BatchStays
<1>13. CASE EmitResult
  <2>1. phase = "results" /\ reply' = reply
    BY <1>13 DEF EmitResult
  <2> QED  BY <1>1, <1>13, <2>1, BatchEffects DEF BatchStays
<1>14. CASE BatchPrepared \/ ToolsSettled \/ BatchEnds
  BY <1>1, <1>14 DEF BatchPrepared, ToolsSettled, AllSettled, BatchEnds
<1>15. ASSUME NEW c \in executing, StrayToolEnds(c) PROVE BatchBounds'
  BY <1>15 DEF StrayToolEnds
<1>16. CASE UNCHANGED vars
  BY <1>16 DEF vars
<1> QED
  BY <1>2, <1>3, <1>4, <1>5, <1>6, <1>7, <1>8, <1>9, <1>10, <1>11, <1>12, <1>13, <1>14,
     <1>15, <1>16 DEF Next, Loop, Tools

LEMMA PendingStep ==
  TypeOK /\ BatchBounds /\ PendingCalls /\ [Next]_vars => PendingCalls'
<1> SUFFICES ASSUME TypeOK, BatchBounds, PendingCalls, [Next]_vars PROVE PendingCalls'
  OBVIOUS
<1> USE DEF queueVars, toolVars, loopVars, callVars, ghostVars, PendingCalls, CallsOpen,
            TurnPhases, ToolPhases, Call
<1>1. batch.next \in Nat /\ reply.calls \in Nat /\ batch.ready \subseteq Nat
      /\ batch.done \subseteq Nat
      /\ batch.mode \in {"none", "truncated", "sequential", "parallel"}
  BY DEF TypeOK, Batches, AssistantEntries
<1>2. CASE Caller
  BY <1>2 DEF Caller, Steer, FollowUp, ClearAllQueues, Abort, Interrupt, DropLastAssistant,
     Prompt, ContinueWithSteering, ContinueWithFollowUps, ContinueTranscript, Begin
<1>3. CASE Fault
  BY <1>3 DEF Fault, Throw, ThrowFromTool
<1>4. CASE Turns
  BY <1>4 DEF Turns, EmitPrompt, InitialPoll, InjectPending, OpenStream, StreamEnds, Decide,
     EndTurn, DrainSteering, OuterSteering, OuterFollowUp, HandleRunFailure, FinishRun
<1>5. CASE FailTruncatedCall
  <2>1. phase = "prepare" /\ phase' = "prepare" /\ batch.mode = "truncated" /\ reply' = reply
        /\ pendingToolCalls' = pendingToolCalls
    BY <1>5 DEF FailTruncatedCall
  <2>2. batch.ready = {}
    BY <2>1 DEF BatchBounds
  <2> QED  BY <2>1, <2>2
<1>6. CASE BeginCall
  BY <1>6 DEF BeginCall
<1>7. CASE RejectCall
  <2>1. phase = "preflight" /\ phase' = "checkAbort" /\ reply' = reply
        /\ pendingToolCalls' = pendingToolCalls \ {Call(batch.next)}
    BY <1>7 DEF RejectCall
  <2>2. batch'.ready = batch.ready /\ batch'.done = batch.done \union {batch.next}
    BY <1>7, BatchEffects DEF BatchStays
  <2> QED  BY <2>1, <2>2
<1>8. CASE AcceptCall
  <2>1. phase = "preflight" /\ reply' = reply /\ pendingToolCalls' = pendingToolCalls
    BY <1>8 DEF AcceptCall
  <2>2. batch.next \notin batch.done
    BY <1>1, <2>1 DEF BatchBounds
  <2>3. batch'.next = batch.next /\ batch'.done = batch.done
        /\ \/ batch'.ready = batch.ready /\ phase' = "executing"
           \/ batch'.ready = batch.ready \union {batch.next} /\ phase' = "checkAbort"
    BY <1>8, BatchEffects DEF BatchStays
  <2> QED  BY <2>1, <2>2, <2>3
<1>9. CASE CheckAbort
  <2>1. phase = "checkAbort" /\ phase' = "prepare" /\ reply' = reply
        /\ pendingToolCalls' = pendingToolCalls
    BY <1>9 DEF CheckAbort
  <2> QED  BY <1>9, <2>1, BatchEffects DEF BatchStays
<1>10. CASE BatchPrepared
  <2>1. phase = "prepare" /\ reply' = reply /\ pendingToolCalls' = pendingToolCalls
        /\ batch' = batch
    BY <1>10 DEF BatchPrepared
  <2>2. phase' = "running" \/ (phase' = "batchEnd" /\ batch.mode # "parallel")
    BY <1>10 DEF BatchPrepared
  <2>3. batch.mode # "parallel" => batch.ready = {}
    BY <2>1 DEF BatchBounds
  <2> QED  BY <2>1, <2>2, <2>3
<1>11. CASE SequentialToolEnds
  <2>1. phase = "executing" /\ phase' = "checkAbort" /\ reply' = reply
        /\ pendingToolCalls' = pendingToolCalls \ {Call(batch.next)}
    BY <1>11 DEF SequentialToolEnds
  <2>2. batch.ready = {} /\ batch'.ready = batch.ready
    BY <1>11, <2>1, BatchEffects DEF BatchStays, BatchBounds
  <2> QED  BY <2>1, <2>2
<1>12. ASSUME NEW k \in 1..MaxCalls, ParallelToolEnds(k) PROVE PendingCalls'
  <2>1. phase = "running" /\ phase' = "running" /\ reply' = reply
        /\ pendingToolCalls' = pendingToolCalls \ {Call(k)}
    BY <1>12 DEF ParallelToolEnds
  <2>2. batch'.ready = batch.ready /\ batch'.done = batch.done \union {k}
    BY <1>12, BatchEffects DEF BatchStays
  <2> QED  BY <2>1, <2>2
<1>13. CASE ToolsSettled
  BY <1>13 DEF ToolsSettled, AllSettled
<1>14. CASE EmitResult \/ BatchEnds
  BY <1>14 DEF EmitResult, BatchEnds
<1>15. ASSUME NEW c \in executing, StrayToolEnds(c) PROVE PendingCalls'
  BY <1>15 DEF StrayToolEnds
<1>16. CASE UNCHANGED vars
  BY <1>16 DEF vars
<1> QED
  BY <1>2, <1>3, <1>4, <1>5, <1>6, <1>7, <1>8, <1>9, <1>10, <1>11, <1>12, <1>13, <1>14,
     <1>15, <1>16 DEF Next, Loop, Tools

(* Every tool execution that was announced has ended when the turn ends,   *)
(* whatever mixture of rejected, executed and aborted calls the batch had, *)
(* and whatever outlived an earlier run.                                   *)
THEOREM TurnsEndWithNoCallPending == Spec => []NoCallPendingAtTurnEnd
<1>1. Init => BatchBounds /\ PendingCalls
  BY DEF Init, BatchBounds, PendingCalls, ToolPhases, TurnPhases
<1>2. PendingCalls => NoCallPendingAtTurnEnd
  BY DEF PendingCalls, TurnPhases, NoCallPendingAtTurnEnd
<1> QED  BY <1>1, <1>2, BoundsStep, PendingStep, TypeCorrect, PTL DEF Spec

-----------------------------------------------------------------------------
\* The results of a batch are those of its first calls, in order; unless the run
\* was aborted none is missing when the batch ends.
Numbered(r, turn) == \A k \in 1..Len(r) : r[k] = Result(turn, k)
BatchCounts ==
  phase \in ToolPhases =>
    /\ Numbered(batch.results, reply.turn)
    /\ batch.mode # "parallel" =>
         /\ phase \in {"prepare", "preflight", "executing"} => Len(batch.results) = batch.next - 1
         /\ phase = "checkAbort" => Len(batch.results) = batch.next
    /\ batch.mode = "parallel" =>
         /\ phase \in {"prepare", "preflight", "checkAbort", "running"} => batch.results = <<>>
         /\ phase \in {"prepare", "preflight"} =>
              batch.ready \union batch.done = 1..(batch.next - 1)
         /\ phase = "checkAbort" => batch.ready \union batch.done = 1..batch.next
         /\ phase \in {"running", "results"} => batch.ready \union batch.done = 1..reply.calls
         /\ phase = "results" => Len(batch.results) <= reply.calls
    /\ phase = "prepare" => batch.next <= reply.calls + 1
    /\ phase = "results" => batch.mode = "parallel"
    /\ batch.mode # "none"
    /\ phase = "batchEnd" => Len(batch.results) = reply.calls

LEMMA NumberedAppend ==
  ASSUME NEW r \in Seq(ResultEntries), NEW turn, NEW k, k = Len(r) + 1, Numbered(r, turn)
  PROVE  /\ Numbered(Append(r, Result(turn, k)), turn)
         /\ Len(Append(r, Result(turn, k))) = k
BY DEF Numbered

LEMMA CountsStep ==
  ASSUME TypeOK, BatchBounds, ~aborted => BatchCounts, [Next]_vars, ~aborted'
  PROVE  BatchCounts'
<1> USE DEF queueVars, toolVars, loopVars, callVars, ghostVars, ToolPhases
<1>1. /\ batch.next \in Nat /\ reply.calls \in Nat /\ reply.turn \in Nat
      /\ batch.ready \subseteq Nat /\ batch.done \subseteq Nat
      /\ batch.results \in Seq(ResultEntries) /\ Len(batch.results) \in Nat
      /\ batch.mode \in {"none", "truncated", "sequential", "parallel"}
  BY DEF TypeOK, Batches, AssistantEntries
<1>2. CASE Caller
  BY <1>2 DEF BatchCounts, Caller, Steer, FollowUp, ClearAllQueues, Abort, Interrupt,
     DropLastAssistant, Prompt, ContinueWithSteering, ContinueWithFollowUps,
     ContinueTranscript, Begin
<1>3. CASE Fault
  BY <1>3 DEF BatchCounts, Fault, Throw, ThrowFromTool
<1>4. CASE Decide
  BY <1>1, <1>4, NewBatchFields DEF BatchCounts, Decide, Numbered
<1>5. CASE Turns /\ ~Decide
  BY <1>5 DEF BatchCounts, Turns, EmitPrompt, InitialPoll, InjectPending, OpenStream,
     StreamEnds, EndTurn, DrainSteering, OuterSteering, OuterFollowUp, HandleRunFailure,
     FinishRun
<1>6. ASSUME Tools PROVE BatchCounts /\ reply' = reply /\ aborted' = aborted
  BY <1>6 DEF Tools, FailTruncatedCall, BeginCall, RejectCall, AcceptCall, CheckAbort,
     BatchPrepared, SequentialToolEnds, ParallelToolEnds, ToolsSettled, EmitResult, BatchEnds,
     StrayToolEnds
<1>7. CASE FailTruncatedCall
  <2>1. phase = "prepare" /\ phase' = "prepare" /\ batch.mode = "truncated"
        /\ batch.next <= reply.calls /\ reply' = reply /\ BatchCounts
    BY <1>6, <1>7 DEF FailTruncatedCall, Tools
  <2>2. /\ batch'.mode = batch.mode /\ batch'.next = batch.next + 1
        /\ batch'.results = Append(batch.results, Result(reply.turn, batch.next))
    BY <1>7, BatchEffects DEF BatchStays, Answered
  <2>3. batch.next = Len(batch.results) + 1 /\ Numbered(batch.results, reply.turn)
    BY <1>1, <2>1 DEF BatchCounts
  <2>4. Numbered(batch'.results, reply.turn) /\ Len(batch'.results) = batch.next
    BY <1>1, <2>2, <2>3, NumberedAppend
  <2> QED  BY <1>1, <2>1, <2>2, <2>4 DEF BatchCounts
<1>8. CASE BeginCall
  <2>1. BatchCounts
    BY <1>6, <1>8 DEF Tools
  <2> QED  BY <1>1, <1>8, <2>1 DEF BeginCall, BatchCounts
<1>9. CASE RejectCall
  <2>1. phase = "preflight" /\ phase' = "checkAbort" /\ reply' = reply /\ BatchCounts
        /\ batch.mode # "truncated"
    BY <1>6, <1>9 DEF RejectCall, Tools, BatchBounds
  <2>2. /\ batch'.mode = batch.mode /\ batch'.next = batch.next /\ batch'.ready = batch.ready
        /\ batch'.done = batch.done \union {batch.next}
        /\ \/ batch.mode = "sequential"
              /\ batch'.results = Append(batch.results, Result(reply.turn, batch.next))
           \/ batch.mode # "sequential" /\ batch'.results = batch.results
    BY <1>9, BatchEffects DEF BatchStays, Answered
  <2>3. /\ Numbered(batch.results, reply.turn) /\ batch.next > 0
        /\ batch.mode # "parallel" => batch.next = Len(batch.results) + 1
        /\ batch.mode = "parallel" => batch.results = <<>>
                                      /\ batch.ready \union batch.done = 1..(batch.next - 1)
    BY <1>1, <2>1 DEF BatchCounts, BatchBounds
  <2>4. CASE batch.mode = "sequential"
    <3>1. Numbered(batch'.results, reply.turn) /\ Len(batch'.results) = batch.next
      <4>1. batch'.results = Append(batch.results, Result(reply.turn, batch.next))
        BY <2>2, <2>4
      <4>2. batch.next = Len(batch.results) + 1
        BY <1>1, <2>3, <2>4
      <4> QED  BY <1>1, <2>3, <4>1, <4>2, NumberedAppend
    <3> QED  BY <1>1, <2>1, <2>2, <2>4, <3>1 DEF BatchCounts
  <2>5. CASE batch.mode = "parallel"
    <3>1. batch'.ready \union batch'.done = 1..batch'.next
      BY <1>1, <2>2, <2>3, <2>5
    <3> QED  BY <1>1, <2>1, <2>2, <2>3, <2>5, <3>1 DEF BatchCounts
  <2>6. batch.mode # "none"
    BY <2>1 DEF BatchCounts
  <2> QED  BY <1>1, <2>1, <2>4, <2>5, <2>6
<1>10. CASE AcceptCall
  <2>1. phase = "preflight" /\ reply' = reply /\ BatchCounts
    BY <1>6, <1>10 DEF AcceptCall, Tools
  <2> QED  BY <1>1, <1>10, <2>1, BatchEffects DEF BatchStays, BatchCounts, BatchBounds
<1>11. CASE CheckAbort
  <2>1. phase = "checkAbort" /\ phase' = "prepare" /\ reply' = reply /\ BatchCounts
        /\ NextCall = batch.next + 1
    BY <1>6, <1>11 DEF CheckAbort, NextCall, Tools
  <2> QED  BY <1>1, <1>11, <2>1, BatchEffects DEF BatchStays, BatchCounts, BatchBounds
<1>12. CASE BatchPrepared
  <2>1. /\ phase = "prepare" /\ reply' = reply /\ BatchCounts /\ batch' = batch
        /\ batch.next > reply.calls
        /\ phase' = IF batch.mode = "parallel" THEN "running" ELSE "batchEnd"
    BY <1>6, <1>12 DEF BatchPrepared, Tools
  <2> QED  BY <1>1, <2>1 DEF BatchCounts
<1>13. CASE SequentialToolEnds
  <2>1. phase = "executing" /\ phase' = "checkAbort" /\ reply' = reply /\ BatchCounts
        /\ batch.mode = "sequential"
    BY <1>6, <1>13 DEF SequentialToolEnds, Tools, BatchBounds
  <2>2. /\ batch'.mode = batch.mode /\ batch'.next = batch.next
        /\ batch'.results = Append(batch.results, Result(reply.turn, batch.next))
    BY <1>13, BatchEffects DEF BatchStays, Answered
  <2>3. batch.next = Len(batch.results) + 1 /\ Numbered(batch.results, reply.turn)
    BY <1>1, <2>1 DEF BatchCounts
  <2>4. Numbered(batch'.results, reply.turn) /\ Len(batch'.results) = batch.next
    BY <1>1, <2>2, <2>3, NumberedAppend
  <2> QED  BY <1>1, <2>1, <2>2, <2>4 DEF BatchCounts
<1>14. ASSUME NEW k \in 1..MaxCalls, ParallelToolEnds(k) PROVE BatchCounts'
  <2>1. phase = "running" /\ phase' = "running" /\ reply' = reply /\ BatchCounts
        /\ k \in batch.ready
    BY <1>6, <1>14 DEF ParallelToolEnds, Tools
  <2> QED  BY <1>1, <1>14, <2>1, BatchEffects DEF BatchStays, BatchCounts, BatchBounds
<1>15. CASE ToolsSettled
  <2>1. BatchCounts
    BY <1>6, <1>15 DEF Tools
  <2> QED  BY <1>1, <1>15, <2>1 DEF ToolsSettled, BatchCounts, BatchBounds
<1>16. CASE EmitResult
  <2>1. phase = "results" /\ reply' = reply /\ BatchCounts
    BY <1>6, <1>16 DEF EmitResult, Tools
  <2>2. CASE Len(batch.results) + 1 \in batch.done
    <3> DEFINE k == Len(batch.results) + 1
    <3>1. /\ batch'.mode = batch.mode /\ batch'.ready = batch.ready /\ batch'.done = batch.done
          /\ batch'.results = Append(batch.results, Result(reply.turn, k))
          /\ phase' = "results"
      BY <1>16, <2>2, BatchEffects DEF BatchStays, Answered
    <3>2. Numbered(batch.results, reply.turn) /\ k \in 1..reply.calls
          /\ batch.mode = "parallel" /\ batch.ready \union batch.done = 1..reply.calls
      BY <1>1, <2>1, <2>2 DEF BatchCounts
    <3>3. Numbered(batch'.results, reply.turn) /\ Len(batch'.results) = k
      BY <1>1, <3>1, <3>2, NumberedAppend
    <3> HIDE DEF k
    <3> QED  BY <1>1, <2>1, <3>1, <3>2, <3>3 DEF BatchCounts
  <2>3. CASE Len(batch.results) + 1 \notin batch.done
    <3>1. batch' = batch /\ phase' = "batchEnd"
      BY <1>16, <2>3, BatchEffects
    <3>2. batch.done = 1..reply.calls
      BY <2>1 DEF BatchCounts, BatchBounds
    <3> QED  BY <1>1, <2>1, <2>3, <3>1, <3>2 DEF BatchCounts
  <2> QED  BY <2>2, <2>3
<1>17. CASE BatchEnds
  BY <1>17 DEF BatchEnds, BatchCounts
<1>18. ASSUME NEW c \in executing, StrayToolEnds(c) PROVE BatchCounts'
  <2>1. BatchCounts
    BY <1>6, <1>18 DEF Tools
  <2> QED  BY <1>18, <2>1 DEF StrayToolEnds, BatchCounts
<1>19. CASE UNCHANGED vars
  BY <1>19 DEF vars, BatchCounts
<1> QED
  BY <1>2, <1>3, <1>4, <1>5, <1>7, <1>8, <1>9, <1>10, <1>11, <1>12, <1>13, <1>14,
     <1>15, <1>16, <1>17, <1>18, <1>19 DEF Next, Loop, Tools

-----------------------------------------------------------------------------
(* Which replies of a conversation have the results of their calls.         *)

\* Of the entries from+1..m of c, each reply has its results right behind it.
AnsweredUpTo(c, from, m) ==
  \A i \in (from + 1)..m : c[i].role = "assistant" =>
    \A k \in 1..c[i].calls : i + k <= m /\ c[i + k] = Result(c[i].turn, k)
AllAnswered(c, from) == from <= Len(c) /\ AnsweredUpTo(c, from, Len(c))

\* The results r end c; before them stands the reply they answer, whose calls
\* the transcript may not show, and before that everything is answered.
Awaits(c, r, last, from) ==
  LET n == Len(c) - Len(r)
  IN  /\ n > from /\ AnsweredUpTo(c, from, n - 1)
      /\ c[n].role = "assistant" /\ (c[n].calls = 0 \/ c[n] = last)
      /\ \A k \in 1..Len(r) : c[n + k] = r[k]

LEMMA AppendAnswered ==
  ASSUME NEW c \in Seq(Entries), NEW from \in Nat, NEW e \in Entries,
         e.role # "assistant", AllAnswered(c, from)
  PROVE  AllAnswered(Append(c, e), from)
<1> DEFINE d == Append(c, e)
<1>1. Len(d) = Len(c) + 1 /\ d[Len(c) + 1] = e /\ \A i \in 1..Len(c) : d[i] = c[i]
  OBVIOUS
<1>2. \A i \in 1..Len(c) : c[i] \in Entries
  OBVIOUS
<1>3. ASSUME NEW i \in (from + 1)..Len(d), d[i].role = "assistant", NEW k \in 1..d[i].calls
      PROVE  i + k <= Len(d) /\ d[i + k] = Result(d[i].turn, k)
  <2>1. i \in (from + 1)..Len(c) /\ i \in 1..Len(c) /\ d[i] = c[i] /\ k \in 1..c[i].calls
    BY <1>1, <1>3
  <2>2. i + k <= Len(c) /\ c[i + k] = Result(c[i].turn, k)
    BY <1>3, <2>1 DEF AllAnswered, AnsweredUpTo
  <2>3. c[i].calls \in Nat /\ k \in Nat /\ k > 0
    BY <1>2, <1>3, <2>1 DEF Entries, AssistantEntries, ResultEntries
  <2>4. i + k \in 1..Len(c)
    BY <2>1, <2>2, <2>3
  <2> QED  BY <1>1, <2>1, <2>2, <2>4
<1>4. from <= Len(d)
  BY <1>1 DEF AllAnswered
<1> HIDE DEF d
<1> QED  BY <1>3, <1>4 DEF AllAnswered, AnsweredUpTo, d

LEMMA AppendReply ==
  ASSUME NEW c \in Seq(Entries), NEW from \in Nat, NEW e \in Entries, NEW last,
         e.role = "assistant", e.calls = 0 \/ e = last, AllAnswered(c, from)
  PROVE  Awaits(Append(c, e), <<>>, last, from)
<1> DEFINE d == Append(c, e)
<1>1. Len(d) = Len(c) + 1 /\ d[Len(c) + 1] = e /\ \A i \in 1..Len(c) : d[i] = c[i]
  OBVIOUS
<1>2. \A i \in 1..Len(c) : c[i] \in Entries
  OBVIOUS
<1>3. ASSUME NEW i \in (from + 1)..Len(c), d[i].role = "assistant", NEW k \in 1..d[i].calls
      PROVE  i + k <= Len(c) /\ d[i + k] = Result(d[i].turn, k)
  <2>1. i \in 1..Len(c) /\ d[i] = c[i] /\ k \in 1..c[i].calls
    BY <1>1, <1>3
  <2>2. i + k <= Len(c) /\ c[i + k] = Result(c[i].turn, k)
    BY <1>3, <2>1 DEF AllAnswered, AnsweredUpTo
  <2>3. c[i].calls \in Nat
    BY <1>2, <1>3, <2>1 DEF Entries, AssistantEntries, ResultEntries
  <2>4. i + k \in 1..Len(c)
    BY <2>1, <2>2, <2>3
  <2> QED  BY <1>1, <2>1, <2>2, <2>4
<1>4. Len(c) + 1 > from /\ Len(<<>>) = 0 /\ Len(d) - 0 = Len(c) + 1
  BY <1>1 DEF AllAnswered
<1> HIDE DEF d
<1>5. AnsweredUpTo(d, from, Len(c))
  BY <1>3 DEF AnsweredUpTo
<1> QED  BY <1>1, <1>4, <1>5 DEF Awaits, d

\* What stands before place m + 1 decides whether all is answered up to m.
LEMMA SamePrefix ==
  ASSUME NEW c \in Seq(Entries), NEW d, NEW from \in Nat, NEW m \in Nat, m <= Len(c),
         \A i \in 1..m : d[i] = c[i], AnsweredUpTo(c, from, m)
  PROVE  AnsweredUpTo(d, from, m)
<1> SUFFICES ASSUME NEW i \in (from + 1)..m, d[i].role = "assistant", NEW k \in 1..d[i].calls
             PROVE  i + k <= m /\ d[i + k] = Result(d[i].turn, k)
  BY DEF AnsweredUpTo
<1>1. i \in 1..m /\ i \in 1..Len(c) /\ d[i] = c[i]
  OBVIOUS
<1>2. c[i] \in Entries
  BY <1>1
<1>3. c[i].calls \in Nat
  BY <1>1, <1>2 DEF Entries, AssistantEntries, ResultEntries
<1>4. i + k <= m /\ c[i + k] = Result(c[i].turn, k)
  BY <1>1 DEF AnsweredUpTo
<1>5. i + k \in 1..m
  BY <1>1, <1>3, <1>4
<1> QED  BY <1>1, <1>4, <1>5

LEMMA AppendAwaits ==
  ASSUME NEW c \in Seq(Entries), NEW r \in Seq(ResultEntries), NEW e \in ResultEntries,
         NEW from \in Nat, NEW last, Awaits(c, r, last, from)
  PROVE  Awaits(Append(c, e), Append(r, e), last, from)
<1> DEFINE d == Append(c, e)
           s == Append(r, e)
           n == Len(c) - Len(r)
<1>1. /\ Len(d) = Len(c) + 1 /\ d[Len(c) + 1] = e /\ \A i \in 1..Len(c) : d[i] = c[i]
      /\ Len(s) = Len(r) + 1 /\ s[Len(r) + 1] = e /\ \A i \in 1..Len(r) : s[i] = r[i]
      /\ Len(c) \in Nat /\ Len(r) \in Nat /\ e \in Entries
  BY DEF Entries
<1>2. /\ n > from /\ AnsweredUpTo(c, from, n - 1)
      /\ c[n].role = "assistant" /\ (c[n].calls = 0 \/ c[n] = last)
      /\ \A k \in 1..Len(r) : c[n + k] = r[k]
  BY DEF Awaits
<1>3. Len(d) - Len(s) = n /\ n \in 1..Len(c) /\ n - 1 \in Nat /\ d[n] = c[n]
  BY <1>1, <1>2
<1>4. ASSUME NEW k \in 1..Len(s) PROVE d[n + k] = s[k]
  <2> HIDE DEF d, s
  <2>1. CASE k = Len(r) + 1
    BY <1>1, <2>1
  <2>2. CASE k \in 1..Len(r)
    <3>1. s[k] = r[k] /\ c[n + k] = r[k] /\ n + k \in 1..Len(c)
      BY <1>1, <1>2, <1>3, <2>2
    <3> QED  BY <1>1, <3>1
  <2> QED  BY <1>1, <2>1, <2>2
<1>5. AnsweredUpTo(d, from, n - 1)
  <2> HIDE DEF d, s
  <2>1. \A i \in 1..(n - 1) : d[i] = c[i]
    BY <1>1, <1>3
  <2> HIDE DEF n
  <2>2. PICK m \in Nat : m = n - 1 /\ m <= Len(c)
    <3>1. n - 1 \in Nat /\ n - 1 <= Len(c)
      BY <1>1, <1>3
    <3> QED  BY <3>1
  <2>3. AnsweredUpTo(c, from, m) /\ \A i \in 1..m : d[i] = c[i]
    BY <1>2, <2>1, <2>2
  <2>4. AnsweredUpTo(d, from, m)
    BY <2>2, <2>3, SamePrefix
  <2> QED  BY <2>2, <2>4
<1> HIDE DEF d, s, n
<1> QED  BY <1>2, <1>3, <1>4, <1>5 DEF Awaits, d, s

LEMMA ConcatAwaits ==
  ASSUME NEW c \in Seq(Entries), NEW r \in Seq(ResultEntries), NEW from \in Nat,
         NEW last, Awaits(c, <<>>, last, from)
  PROVE  Awaits(c \o r, r, last, from)
<1> DEFINE d == c \o r
           n == Len(c)
<1>1. /\ Len(d) = n + Len(r) /\ \A i \in 1..n : d[i] = c[i]
      /\ \A i \in 1..Len(r) : d[n + i] = r[i]
      /\ Len(r) \in Nat /\ n \in Nat
  OBVIOUS
<1>2. /\ n > from /\ AnsweredUpTo(c, from, n - 1)
      /\ c[n].role = "assistant" /\ (c[n].calls = 0 \/ c[n] = last)
  BY DEF Awaits
<1>3. Len(d) - Len(r) = n /\ n \in 1..n /\ n - 1 \in Nat /\ d[n] = c[n]
  BY <1>1, <1>2
<1>4. AnsweredUpTo(d, from, n - 1)
  <2> HIDE DEF d
  <2>1. \A i \in 1..(n - 1) : d[i] = c[i]
    BY <1>1, <1>3
  <2> QED  BY <1>1, <1>2, <1>3, <2>1, SamePrefix
<1> HIDE DEF d, n
<1> QED  BY <1>1, <1>2, <1>3, <1>4 DEF Awaits, d

LEMMA LastAnswered ==
  ASSUME NEW c \in Seq(Entries), NEW r \in Seq(ResultEntries), NEW from \in Nat,
         NEW last \in AssistantEntries, Awaits(c, r, last, from), Numbered(r, last.turn),
         Len(r) = last.calls
  PROVE  AllAnswered(c, from)
<1> DEFINE n == Len(c) - Len(r)
<1>1. /\ n > from /\ AnsweredUpTo(c, from, n - 1)
      /\ c[n].role = "assistant" /\ (c[n].calls = 0 \/ c[n] = last)
      /\ \A k \in 1..Len(r) : c[n + k] = r[k]
  BY DEF Awaits
<1>2. Len(c) \in Nat /\ Len(r) \in Nat /\ n \in 1..Len(c) /\ n + Len(r) = Len(c)
  BY <1>1
<1>3. ASSUME NEW i \in (from + 1)..Len(c), c[i].role = "assistant", NEW k \in 1..c[i].calls
      PROVE  i + k <= Len(c) /\ c[i + k] = Result(c[i].turn, k)
  <2>1. CASE i < n
    <3>0. i \in (from + 1)..(n - 1)
      BY <1>2, <2>1
    <3>1. i + k <= n - 1 /\ c[i + k] = Result(c[i].turn, k)
      <4> HIDE DEF n
      <4> QED  BY <1>1, <1>3, <3>0 DEF AnsweredUpTo
    <3>2. c[i] \in Entries
      BY <1>3
    <3>3. c[i].calls \in Nat
      BY <1>3, <3>2 DEF Entries, AssistantEntries, ResultEntries
    <3> QED  BY <1>2, <3>1, <3>3
  <2>2. CASE i = n
    <3>1. c[n] = last /\ k \in 1..Len(r)
      BY <1>1, <1>3, <2>2
    <3>2. c[n + k] = r[k] /\ r[k] = Result(last.turn, k)
      BY <1>1, <3>1 DEF Numbered
    <3>3. n + k <= Len(c)
      BY <1>2, <3>1
    <3> QED  BY <2>2, <3>1, <3>2, <3>3
  <2>3. CASE i > n
    <3>1. i - n \in 1..Len(r) /\ n + (i - n) = i
      BY <1>2, <1>3, <2>3
    <3>2. c[i] = r[i - n]
      BY <1>1, <3>1
    <3>3. r[i - n].role = "toolResult"
      <4>1. r[i - n] = Result(last.turn, i - n)
        <5> HIDE DEF n
        <5> QED  BY <3>1 DEF Numbered
      <4> QED  BY <4>1 DEF Result
    <3> QED  BY <1>3, <3>2, <3>3
  <2> QED  BY <1>2, <1>3, <2>1, <2>2, <2>3
<1>4. from <= Len(c)
  BY <1>1, <1>2
<1> HIDE DEF n
<1> QED  BY <1>3, <1>4 DEF AllAnswered, AnsweredUpTo

LEMMA FreshAnswered ==
  ASSUME NEW c \in Seq(Entries), NEW ms \in Seq(Messages)
  PROVE  AllAnswered(c \o Users(ms), Len(c)) /\ AllAnswered(c, Len(c))
<1> DEFINE u == Users(ms)
           d == c \o u
<1>1. u \in Seq(Entries) /\ Len(u) = Len(ms) /\ \A i \in 1..Len(ms) : u[i].role = "user"
  BY EntryTypes DEF Users, User
<1>2. Len(d) = Len(c) + Len(u) /\ \A i \in 1..Len(u) : d[Len(c) + i] = u[i]
  <2> HIDE DEF u
  <2> QED  BY <1>1
<1>3. ASSUME NEW i \in (Len(c) + 1)..Len(d) PROVE d[i].role # "assistant"
  <2> HIDE DEF u, d
  <2>1. i - Len(c) \in 1..Len(u) /\ Len(c) + (i - Len(c)) = i
    BY <1>1, <1>2
  <2> QED  BY <1>1, <1>2, <2>1
<1>4. Len(c) <= Len(d)
  BY <1>1, <1>2
<1> HIDE DEF d
<1> QED  BY <1>3, <1>4 DEF AllAnswered, AnsweredUpTo, d

-----------------------------------------------------------------------------
\* Which replies of the run have their results, in the context and in the transcript.
AnswersInvariant ==
  /\ phase \in TurnPhases =>
       AllAnswered(context, runStart) /\ AllAnswered(transcript, runStart)
  /\ phase = "decide" \/ phase \in ToolPhases => Awaits(context, <<>>, reply, runStart)
  /\ phase = "decide" /\ ~stale => Awaits(transcript, <<>>, reply, runStart)
  /\ phase \in ToolPhases => Awaits(transcript, batch.results, reply, runStart)

\* A step of a batch emits the result of one call, or none.
LEMMA ToolsEmit ==
  ASSUME TypeOK, Tools, ~BatchEnds, ~(\E c \in executing : StrayToolEnds(c))
  PROVE  \/ /\ transcript' = transcript /\ batch'.results = batch.results
         \/ \E k \in {batch.next, Len(batch.results) + 1} :
              /\ transcript' = Append(transcript, Result(reply.turn, k))
              /\ batch'.results = Append(batch.results, Result(reply.turn, k))
<1>1. CASE FailTruncatedCall
  BY <1>1, BatchEffects DEF FailTruncatedCall, BatchStays, Answered
<1>2. CASE RejectCall
  BY <1>2, BatchEffects DEF RejectCall, BatchStays, Answered
<1>3. CASE SequentialToolEnds
  BY <1>3, BatchEffects DEF SequentialToolEnds, BatchStays, Answered
<1>4. CASE EmitResult
  BY <1>4, BatchEffects DEF EmitResult, BatchStays, Answered
<1>5. CASE AcceptCall \/ CheckAbort
  BY <1>5, BatchEffects DEF AcceptCall, CheckAbort, BatchStays
<1>6. CASE \E k \in 1..MaxCalls : ParallelToolEnds(k)
  BY <1>6, BatchEffects DEF ParallelToolEnds, BatchStays
<1>7. CASE BeginCall \/ BatchPrepared \/ ToolsSettled
  BY <1>7 DEF BeginCall, BatchPrepared, ToolsSettled, toolVars
<1> QED  BY <1>1, <1>2, <1>3, <1>4, <1>5, <1>6, <1>7 DEF Tools

LEMMA AnswersStep ==
  ASSUME TypeOK, BatchBounds, ~aborted => BatchCounts /\ AnswersInvariant, [Next]_vars,
         ~aborted'
  PROVE  AnswersInvariant'
<1> USE DEF queueVars, toolVars, loopVars, callVars, ghostVars, ToolPhases, TurnPhases
<1> DEFINE Same == /\ context' = context /\ transcript' = transcript /\ reply' = reply
                   /\ runStart' = runStart /\ aborted' = aborted
           Quiet == /\ phase' \in {"idle", "failing", "ending"}
<1>1. /\ context \in Seq(Entries) /\ transcript \in Seq(Entries) /\ runStart \in Nat
      /\ reply \in AssistantEntries /\ reply.calls \in Nat /\ reply.turn \in Nat
      /\ batch.results \in Seq(ResultEntries) /\ pending \in Seq(Messages)
      /\ <<>> \in Seq(ResultEntries)
  BY DEF TypeOK, Batches, AssistantEntries
<1>2. ASSUME Quiet PROVE AnswersInvariant'
  BY <1>2 DEF AnswersInvariant
<1>3. ASSUME Same, phase' = phase, stale' = stale, batch'.results = batch.results
      PROVE  AnswersInvariant'
  BY <1>3 DEF AnswersInvariant
<1>4. ASSUME NEW ms, NEW skip, ms \in Seq(Messages), Begin(ms, skip) PROVE AnswersInvariant'
  <2>1. /\ context' = transcript \o Users(ms) /\ transcript' = transcript
        /\ runStart' = Len(transcript) /\ phase' = "prompts"
    BY <1>4 DEF Begin
  <2>2. AllAnswered(context', runStart') /\ AllAnswered(transcript', runStart')
    BY <1>1, <1>4, <2>1, FreshAnswered
  <2> QED  BY <2>1, <2>2 DEF AnswersInvariant
<1>5. CASE Caller
  <2>1. CASE \E m \in Messages : Steer(m) \/ FollowUp(m)
    BY <1>3, <2>1 DEF Steer, FollowUp
  <2>2. CASE ClearAllQueues
    BY <1>3, <2>2 DEF ClearAllQueues
  <2>3. CASE Abort
    BY <2>3 DEF Abort
  <2>4. CASE Interrupt
    BY <2>4 DEF Interrupt, AnswersInvariant
  <2>5. CASE DropLastAssistant
    BY <1>2, <2>5 DEF DropLastAssistant
  <2>6. CASE \E ms \in Prompts : Prompt(ms)
    BY <1>4, <2>6, PromptTypes DEF Prompt
  <2>7. CASE ContinueWithSteering
    BY <1>4, <2>7, DrainTypes DEF ContinueWithSteering, TypeOK
  <2>8. CASE ContinueWithFollowUps
    BY <1>4, <2>8, DrainTypes DEF ContinueWithFollowUps, TypeOK
  <2>9. CASE ContinueTranscript
    <3>1. <<>> \in Seq(Messages)
      OBVIOUS
    <3> QED  BY <1>4, <2>9, <3>1 DEF ContinueTranscript
  <2> QED  BY <1>5, <2>1, <2>2, <2>3, <2>4, <2>5, <2>6, <2>7, <2>8, <2>9 DEF Caller
<1>6. CASE Fault \/ HandleRunFailure \/ FinishRun
  BY <1>2, <1>6 DEF Fault, Throw, ThrowFromTool, HandleRunFailure, FinishRun
<1>7. ASSUME Turns, ~FinishRun PROVE BatchCounts /\ AnswersInvariant /\ ~aborted
  BY <1>7 DEF Turns, EmitPrompt, InitialPoll, InjectPending, OpenStream, StreamEnds, Decide,
     EndTurn, DrainSteering, OuterSteering, OuterFollowUp, HandleRunFailure
<1>8. CASE EmitPrompt \/ InjectPending
  <2>1. AnswersInvariant /\ phase \in TurnPhases /\ phase' = phase /\ runStart' = runStart
    BY <1>7, <1>8 DEF Turns, EmitPrompt, InjectPending, FinishRun
  <2>2. PICK e \in Entries : e = User(Head(pending)) /\ e.role = "user"
    <3>1. pending # <<>>
      BY <1>8 DEF EmitPrompt, InjectPending
    <3>2. Head(pending) \in Messages
      BY <1>1, <3>1
    <3> QED  BY <3>2, EntryTypes DEF User
  <2>3. /\ transcript' = Append(transcript, e)
        /\ context' = context \/ context' = Append(context, e)
    BY <1>8, <2>2 DEF EmitPrompt, InjectPending
  <2>4. AllAnswered(context, runStart) /\ AllAnswered(transcript, runStart)
    BY <2>1 DEF AnswersInvariant
  <2>5. AllAnswered(Append(context, e), runStart) /\ AllAnswered(Append(transcript, e), runStart)
    BY <1>1, <2>2, <2>4, AppendAnswered
  <2> QED  BY <2>1, <2>3, <2>4, <2>5 DEF AnswersInvariant
<1>9. CASE InitialPoll \/ OpenStream \/ EndTurn \/ DrainSteering \/ OuterSteering \/ OuterFollowUp
  <2>1. AnswersInvariant /\ phase \in TurnPhases /\ runStart' = runStart
        /\ phase' \in TurnPhases \union {"ending"}
    BY <1>7, <1>9 DEF Turns, InitialPoll, OpenStream, EndTurn, DrainSteering, OuterSteering,
       OuterFollowUp, FinishRun
  <2>2. context' \in {context, transcript} /\ transcript' = transcript
    BY <1>9 DEF InitialPoll, OpenStream, EndTurn, DrainSteering, OuterSteering, OuterFollowUp
  <2>3. AllAnswered(context', runStart') /\ AllAnswered(transcript', runStart')
    BY <2>1, <2>2 DEF AnswersInvariant
  <2> QED  BY <2>1, <2>3 DEF AnswersInvariant
<1>10. CASE StreamEnds
  <2>1. AllAnswered(context, runStart) /\ AllAnswered(transcript, runStart)
    BY <1>7, <1>10 DEF Turns, StreamEnds, AnswersInvariant, FinishRun
  <2>2. requests + 1 \in Nat
    BY DEF TypeOK
  <2>3. PICK raw \in Replies(requests + 1) : \E r \in Recovered(raw) :
          /\ reply' = r /\ context' = Append(context, r)
          /\ transcript' = IF stale THEN transcript ELSE Append(transcript, raw)
    BY <1>10 DEF StreamEnds
  <2>4. PICK r \in Recovered(raw) :
          /\ reply' = r /\ context' = Append(context, r)
          /\ transcript' = IF stale THEN transcript ELSE Append(transcript, raw)
    BY <2>3
  <2>5. raw \in AssistantEntries
    BY <2>2, ReplyTypes
  <2>6. r \in AssistantEntries /\ (raw.calls = 0 \/ raw = r)
    <3>1. raw.turn \in Nat /\ "toolUse" \in StopReasons
      BY <2>5 DEF AssistantEntries, StopReasons
    <3>2. Assistant("toolUse", 1, raw.turn) \in AssistantEntries
      BY <3>1, EntryTypes
    <3>3. r = raw \/ (raw.calls = 0 /\ r = Assistant("toolUse", 1, raw.turn))
      BY DEF Recovered
    <3> QED  BY <2>5, <3>2, <3>3
  <2>7. raw \in Entries /\ r \in Entries /\ raw.role = "assistant" /\ r.role = "assistant"
    BY <2>5, <2>6, EntryTypes DEF AssistantEntries
  <2>8. /\ Awaits(Append(context, r), <<>>, r, runStart)
        /\ Awaits(Append(transcript, raw), <<>>, r, runStart)
    BY <1>1, <2>1, <2>6, <2>7, AppendReply
  <2>9. phase' = "decide" /\ runStart' = runStart /\ stale' = stale
    BY <1>10 DEF StreamEnds
  <2> QED  BY <2>4, <2>8, <2>9 DEF AnswersInvariant
<1>11. CASE Decide
  <2>1. Awaits(context, <<>>, reply, runStart) /\ (~stale => Awaits(transcript, <<>>, reply, runStart))
    BY <1>7, <1>11 DEF Turns, Decide, AnswersInvariant, FinishRun
  <2>2. Same
    BY <1>11 DEF Decide
  <2>3. \/ phase' = "ending"
        \/ phase' = "turnEnd" /\ reply.calls = 0 /\ ~stale
        \/ phase' = "prepare" /\ batch'.results = <<>> /\ ~stale
    BY <1>11, NewBatchFields DEF Decide
  <2>4. ASSUME reply.calls = 0, ~stale
        PROVE  AllAnswered(context, runStart) /\ AllAnswered(transcript, runStart)
    <3>1. Numbered(<<>>, reply.turn) /\ Len(<<>>) = 0
      BY DEF Numbered
    <3> QED  BY <1>1, <2>1, <2>4, <3>1, LastAnswered
  <2> QED  BY <2>1, <2>2, <2>3, <2>4 DEF AnswersInvariant
<1>12. ASSUME Tools
       PROVE  BatchCounts /\ AnswersInvariant
  BY <1>12 DEF Tools, FailTruncatedCall, BeginCall, RejectCall, AcceptCall, CheckAbort,
     BatchPrepared, SequentialToolEnds, ParallelToolEnds, ToolsSettled, EmitResult, BatchEnds,
     StrayToolEnds
<1>13. ASSUME NEW c \in executing, StrayToolEnds(c) PROVE AnswersInvariant'
  BY <1>3, <1>13 DEF StrayToolEnds
<1>14. ASSUME NEW k \in Nat, phase \in ToolPhases, phase' \in ToolPhases,
              Awaits(context, <<>>, reply, runStart),
              Awaits(transcript, batch.results, reply, runStart),
              context' = context, reply' = reply, runStart' = runStart,
              \/ /\ transcript' = transcript /\ batch'.results = batch.results
              \/ /\ transcript' = Append(transcript, Result(reply.turn, k))
                 /\ batch'.results = Append(batch.results, Result(reply.turn, k))
       PROVE  AnswersInvariant'
  <2>1. PICK e \in ResultEntries : e = Result(reply.turn, k)
    BY <1>1, EntryTypes
  <2>2. Awaits(Append(transcript, e), Append(batch.results, e), reply, runStart)
    BY <1>1, <1>14, AppendAwaits
  <2>3. Awaits(transcript', batch'.results, reply', runStart')
    BY <1>14, <2>1, <2>2
  <2> QED  BY <1>14, <2>3 DEF AnswersInvariant
<1>15. CASE Tools /\ ~BatchEnds /\ ~(\E c \in executing : StrayToolEnds(c))
  <2>1. /\ phase \in ToolPhases /\ phase' \in ToolPhases /\ context' = context /\ reply' = reply
        /\ runStart' = runStart
    BY <1>15 DEF Tools, FailTruncatedCall, BeginCall, RejectCall, AcceptCall, CheckAbort,
       BatchPrepared, SequentialToolEnds, ParallelToolEnds, ToolsSettled, EmitResult
  <2>2. /\ Awaits(context, <<>>, reply, runStart)
        /\ Awaits(transcript, batch.results, reply, runStart)
    BY <1>12, <1>15, <2>1 DEF AnswersInvariant
  <2>3. batch.next \in Nat /\ Len(batch.results) + 1 \in Nat
    BY <1>1 DEF TypeOK, Batches
  <2> QED  BY <1>14, <1>15, <2>1, <2>2, <2>3, ToolsEmit
<1>16. CASE BatchEnds
  <2>1. BatchCounts /\ AnswersInvariant /\ phase = "batchEnd"
    BY <1>12, <1>16 DEF Tools, BatchEnds
  <2>2. /\ Numbered(batch.results, reply.turn) /\ Len(batch.results) = reply.calls
        /\ Awaits(context, <<>>, reply, runStart)
        /\ Awaits(transcript, batch.results, reply, runStart)
    BY <2>1 DEF BatchCounts, AnswersInvariant
  <2>3. /\ context' = context \o batch.results /\ transcript' = transcript
        /\ phase' \in {"ending", "turnEnd"} /\ runStart' = runStart
    BY <1>16 DEF BatchEnds
  <2>4. PICK d \in Seq(Entries) : d = context \o batch.results
    <3>1. batch.results \in Seq(Entries)
      BY <1>1, EntryTypes
    <3>2. context \o batch.results \in Seq(Entries)
      BY <1>1, <3>1
    <3> QED  BY <3>2
  <2>5. Awaits(d, batch.results, reply, runStart)
    BY <1>1, <2>2, <2>4, ConcatAwaits
  <2>6. AllAnswered(d, runStart) /\ AllAnswered(transcript, runStart)
    BY <1>1, <2>2, <2>5, LastAnswered
  <2> QED  BY <2>3, <2>4, <2>6 DEF AnswersInvariant
<1>17. CASE UNCHANGED vars
  BY <1>17 DEF vars, AnswersInvariant
<1> QED
  BY <1>5, <1>6, <1>8, <1>9, <1>10, <1>11, <1>13, <1>15, <1>16, <1>17
  DEF Next, Loop, Turns, Tools

(* In a run that is not aborted, the model is asked only when every tool   *)
(* call of the run's replies has its result, right after the reply and in  *)
(* the order of the calls, however the tools were run.                     *)
THEOREM RequestsCarryResults == Spec => []CallsAnswered
<1>1. Init => BatchBounds /\ BatchCounts /\ AnswersInvariant
  BY DEF Init, BatchBounds, BatchCounts, AnswersInvariant, ToolPhases, TurnPhases
<1>2. AnswersInvariant /\ ~aborted => CallsAnswered
  BY DEF AnswersInvariant, AllAnswered, AnsweredUpTo, CallsAnswered, TurnPhases
<1> DEFINE I == BatchBounds /\ (~aborted => BatchCounts /\ AnswersInvariant)
<1>3. TypeOK /\ I /\ [Next]_vars => I'
  BY BoundsStep, CountsStep, AnswersStep
<1>4. I => CallsAnswered
  BY <1>2 DEF CallsAnswered
<1>5. Init => I
  BY <1>1
<1> HIDE DEF I
<1> QED  BY <1>3, <1>4, <1>5, TypeCorrect, PTL DEF Spec

-----------------------------------------------------------------------------
(* What agent_end reports.                                                  *)

EndsWith(c, s) ==
  Len(s) <= Len(c) /\ \A k \in 1..Len(s) : s[k] = c[Len(c) - Len(s) + k]

\* What agent_end will report ends the transcript, with the results of the
\* batch, and the prompts that are still to be emitted.
ReportInvariant ==
  /\ phase = "prompts" => EndsWith(transcript \o Users(pending), newMessages)
  /\ phase \in TurnPhases \ {"prompts"} => EndsWith(transcript, newMessages)
  /\ phase \in {"decide", "ending"} /\ ~stale => EndsWith(transcript, newMessages)
  /\ phase \in ToolPhases => EndsWith(transcript, newMessages \o batch.results)
  /\ phase \in ToolPhases \union {"decide", "turnEnd", "drain", "outer", "outerFollowUp", "ending"}
       => newMessages # <<>>

LEMMA EndsAppend ==
  ASSUME NEW S, NEW c \in Seq(S), NEW s \in Seq(S), NEW e \in S, EndsWith(c, s)
  PROVE  EndsWith(Append(c, e), Append(s, e)) /\ Append(s, e) # <<>>
<1> DEFINE d == Append(c, e)
           t == Append(s, e)
<1>1. /\ Len(d) = Len(c) + 1 /\ d[Len(c) + 1] = e /\ \A i \in 1..Len(c) : d[i] = c[i]
      /\ Len(t) = Len(s) + 1 /\ t[Len(s) + 1] = e /\ \A i \in 1..Len(s) : t[i] = s[i]
      /\ Len(c) \in Nat /\ Len(s) \in Nat
  OBVIOUS
<1>2. ASSUME NEW k \in 1..Len(t) PROVE t[k] = d[Len(d) - Len(t) + k]
  <2> HIDE DEF d, t
  <2>1. CASE k = Len(s) + 1
    BY <1>1, <2>1
  <2>2. CASE k \in 1..Len(s)
    <3>1. s[k] = c[Len(c) - Len(s) + k] /\ Len(c) - Len(s) + k \in 1..Len(c)
      BY <1>1, <2>2 DEF EndsWith
    <3> QED  BY <1>1, <2>2, <3>1
  <2> QED  BY <1>1, <2>1, <2>2
<1>3. Len(t) <= Len(d)
  BY <1>1 DEF EndsWith
<1>4. t # <<>>
  OBVIOUS
<1> HIDE DEF d, t
<1> QED  BY <1>2, <1>3, <1>4 DEF EndsWith, d, t

LEMMA EndsConcat ==
  ASSUME NEW c \in Seq(Entries), NEW u \in Seq(Entries)
  PROVE  EndsWith(c \o u, u)
BY DEF EndsWith

LEMMA EndsIsSuffix ==
  ASSUME NEW c \in Seq(Entries), NEW s \in Seq(Entries), EndsWith(c, s)
  PROVE  IsSuffix(s, c)
<1> DEFINE d == Reverse(c)
           t == Reverse(s)
<1>1. /\ d \in Seq(Entries) /\ t \in Seq(Entries) /\ Len(d) = Len(c) /\ Len(t) = Len(s)
      /\ \A i \in 1..Len(c) : d[i] = c[Len(c) - i + 1]
      /\ \A i \in 1..Len(s) : t[i] = s[Len(s) - i + 1]
  <2>1. d \in Seq(Entries) /\ Len(d) = Len(c)
    BY DEF Reverse
  <2>2. t \in Seq(Entries) /\ Len(t) = Len(s)
    BY DEF Reverse
  <2> QED  BY <2>1, <2>2 DEF Reverse
<1>2. ASSUME NEW i \in 1..Len(s) PROVE t[i] = d[i]
  <2>1. Len(s) - i + 1 \in 1..Len(s) /\ i \in 1..Len(c)
    BY DEF EndsWith
  <2>2. s[Len(s) - i + 1] = c[Len(c) - Len(s) + (Len(s) - i + 1)]
    BY <2>1 DEF EndsWith
  <2>3. Len(c) - Len(s) + (Len(s) - i + 1) = Len(c) - i + 1
    OBVIOUS
  <2> QED  BY <1>1, <2>1, <2>2, <2>3
<1> HIDE DEF d, t
<1>3. Len(t) <= Len(d)
  BY <1>1 DEF EndsWith
<1>4. SubSeq(t, 1, Len(t)) = SubSeq(d, 1, Len(t))
  BY <1>1, <1>2, <1>3
<1> QED  BY <1>3, <1>4 DEF IsSuffix, IsPrefix, d, t

LEMMA ReportStep ==
  ASSUME TextCallRecovery = FALSE, TypeOK, ReportInvariant, [Next]_vars
  PROVE  ReportInvariant'
<1> USE DEF queueVars, toolVars, loopVars, callVars, ghostVars, ToolPhases, TurnPhases
<1>1. /\ newMessages \in Seq(Entries) /\ transcript \in Seq(Entries)
      /\ batch.results \in Seq(Entries) /\ pending \in Seq(Messages)
      /\ reply \in AssistantEntries /\ batch.next \in Nat /\ Len(batch.results) + 1 \in Nat
  <2>1. batch.results \in Seq(ResultEntries) /\ batch.next \in Nat
    BY DEF TypeOK, Batches
  <2> QED  BY <2>1, EntryTypes DEF TypeOK
<1>2. ASSUME phase' \in {"idle", "failing"} PROVE ReportInvariant'
  BY <1>2 DEF ReportInvariant
<1>3. ASSUME phase' = phase, transcript' = transcript, newMessages' = newMessages,
             pending' = pending, stale \/ stale' = stale, stale => stale', 
             batch'.results = batch.results
      PROVE  ReportInvariant'
  <2>1. Users(pending)' = Users(pending)
    BY <1>3 DEF Users, User
  <2>2. (newMessages \o batch.results)' = newMessages \o batch.results
    BY <1>3
  <2>3. ~stale' => ~stale
    BY <1>3
  <2> QED  BY <1>3, <2>1, <2>2, <2>3 DEF ReportInvariant
<1>4. ASSUME NEW ms, NEW skip, ms \in Seq(Messages), Begin(ms, skip) PROVE ReportInvariant'
  <2>1. /\ newMessages' = Users(ms) /\ transcript' = transcript
        /\ pending' = ms /\ phase' = "prompts"
    BY <1>4 DEF Begin
  <2>2. Users(pending)' = Users(ms)
    BY <2>1 DEF Users, User
  <2>3. EndsWith(transcript \o Users(ms), Users(ms))
    BY <1>1, <1>4, EntryTypes, EndsConcat
  <2> QED  BY <2>1, <2>2, <2>3 DEF ReportInvariant
<1>5. CASE Caller
  <2>1. CASE (\E m \in Messages : Steer(m) \/ FollowUp(m)) \/ ClearAllQueues \/ Abort
    BY <1>3, <2>1 DEF Steer, FollowUp, ClearAllQueues, Abort
  <2>2. CASE Interrupt
    <3>1. Users(pending)' = Users(pending)
      BY <2>2 DEF Users, User, Interrupt
    <3> QED  BY <2>2, <3>1 DEF Interrupt, ReportInvariant
  <2>3. CASE DropLastAssistant
    BY <1>2, <2>3 DEF DropLastAssistant
  <2>4. CASE \E ms \in Prompts : Prompt(ms)
    BY <1>4, <2>4, PromptTypes DEF Prompt
  <2>5. CASE ContinueWithSteering \/ ContinueWithFollowUps
    BY <1>4, <2>5, DrainTypes DEF ContinueWithSteering, ContinueWithFollowUps, TypeOK
  <2>6. CASE ContinueTranscript
    <3>1. <<>> \in Seq(Messages)
      OBVIOUS
    <3> QED  BY <1>4, <2>6, <3>1 DEF ContinueTranscript
  <2> QED  BY <1>5, <2>1, <2>2, <2>3, <2>4, <2>5, <2>6 DEF Caller
<1>6. CASE Fault \/ FinishRun
  BY <1>2, <1>6 DEF Fault, Throw, ThrowFromTool, FinishRun
<1>7. CASE HandleRunFailure
  <2>1. PICK e \in AssistantEntries :
          transcript' = Append(transcript, e) /\ newMessages' = <<e>> /\ phase' = "ending"
    <3>1. Assistant(IF aborted THEN "aborted" ELSE "error", 0, 0) \in AssistantEntries
      BY EntryTypes DEF StopReasons
    <3> QED  BY <1>7, <3>1 DEF HandleRunFailure, FailureReport
  <2>2. e \in Entries
    BY EntryTypes
  <2>3. EndsWith(Append(transcript, e), <<e>>) /\ <<e>> # <<>>
    BY <1>1, <2>2 DEF EndsWith
  <2> QED  BY <2>1, <2>3 DEF ReportInvariant
<1>8. CASE EmitPrompt
  <2>1. /\ transcript' = Append(transcript, User(Head(pending))) /\ newMessages' = newMessages
        /\ pending' = Tail(pending) /\ phase = "prompts" /\ phase' = "prompts" /\ pending # <<>>
    BY <1>8 DEF EmitPrompt
  <2>2. transcript \o Users(pending)
          = Append(transcript, User(Head(pending))) \o Users(Tail(pending))
    BY <1>1, <2>1, EmitOne
  <2>3. Users(pending)' = Users(Tail(pending))
    BY <2>1 DEF Users, User
  <2>4. EndsWith(transcript' \o Users(Tail(pending)), newMessages)
    BY <2>1, <2>2 DEF ReportInvariant
  <2> QED  BY <2>1, <2>3, <2>4 DEF ReportInvariant
<1>9. CASE InitialPoll
  <2>1. /\ transcript' = transcript /\ newMessages' = newMessages /\ pending = <<>>
        /\ phase = "prompts" /\ phase' = "turn"
    BY <1>9 DEF InitialPoll
  <2>2. transcript \o Users(pending) = transcript
    <3>1. Users(<<>>) = <<>>
      BY DEF Users
    <3> QED  BY <1>1, <2>1, <3>1
  <2>3. EndsWith(transcript, newMessages)
    BY <2>1, <2>2 DEF ReportInvariant
  <2> QED  BY <2>1, <2>3 DEF ReportInvariant
<1>10. CASE InjectPending
  <2>1. /\ transcript' = Append(transcript, User(Head(pending))) /\ pending # <<>>
        /\ newMessages' = Append(newMessages, User(Head(pending)))
        /\ phase = "turn" /\ phase' = "turn"
    BY <1>10 DEF InjectPending
  <2>2. User(Head(pending)) \in Entries
    <3>1. Head(pending) \in Messages
      BY <1>1, <2>1
    <3> QED  BY <3>1, EntryTypes
  <2>3. EndsWith(transcript', newMessages')
    BY <1>1, <2>1, <2>2, EndsAppend DEF ReportInvariant
  <2> QED  BY <2>1, <2>3 DEF ReportInvariant
<1>11. CASE OpenStream \/ EndTurn \/ DrainSteering \/ OuterSteering \/ OuterFollowUp
  BY <1>11 DEF OpenStream, EndTurn, DrainSteering, OuterSteering, OuterFollowUp, ReportInvariant
<1>12. CASE StreamEnds
  <2>1. PICK raw \in Replies(requests + 1) : \E r \in Recovered(raw) :
          /\ newMessages' = Append(newMessages, r)
          /\ transcript' = IF stale THEN transcript ELSE Append(transcript, raw)
    BY <1>12 DEF StreamEnds
  <2>2. Recovered(raw) = {raw}
    BY DEF Recovered
  <2>3. raw \in Entries
    <3>1. requests + 1 \in Nat
      BY DEF TypeOK
    <3> QED  BY <3>1, ReplyTypes, EntryTypes
  <2>4. /\ phase = "streaming" /\ phase' = "decide" /\ stale' = stale
        /\ newMessages' = Append(newMessages, raw)
        /\ ~stale => transcript' = Append(transcript, raw)
    BY <1>12, <2>1, <2>2 DEF StreamEnds
  <2>5. EndsWith(Append(transcript, raw), Append(newMessages, raw))
        /\ Append(newMessages, raw) # <<>>
    BY <1>1, <2>3, <2>4, EndsAppend DEF ReportInvariant
  <2> QED  BY <2>4, <2>5 DEF ReportInvariant
<1>13. CASE Decide
  <2>1. /\ phase = "decide" /\ transcript' = transcript /\ newMessages' = newMessages
        /\ stale' = stale
        /\ \/ phase' = "ending"
           \/ phase' = "turnEnd" /\ ~stale
           \/ phase' = "prepare" /\ ~stale /\ batch'.results = <<>>
    BY <1>13, NewBatchFields DEF Decide
  <2>2. newMessages \o <<>> = newMessages
    BY <1>1
  <2> QED  BY <2>1, <2>2 DEF ReportInvariant
<1>14. ASSUME NEW k \in Nat, phase \in ToolPhases, phase' \in ToolPhases,
              newMessages' = newMessages,
              \/ /\ transcript' = transcript /\ batch'.results = batch.results
              \/ /\ transcript' = Append(transcript, Result(reply.turn, k))
                 /\ batch'.results = Append(batch.results, Result(reply.turn, k))
       PROVE  ReportInvariant'
  <2>1. EndsWith(transcript, newMessages \o batch.results) /\ newMessages # <<>>
    BY <1>14 DEF ReportInvariant
  <2>2. PICK e \in Entries : e = Result(reply.turn, k)
    <3>1. reply.turn \in Nat
      BY <1>1 DEF AssistantEntries
    <3> QED  BY <3>1, EntryTypes
  <2>3. newMessages \o batch.results \in Seq(Entries)
    BY <1>1
  <2>4. EndsWith(Append(transcript, e), newMessages \o Append(batch.results, e))
    <3>1. EndsWith(Append(transcript, e), Append(newMessages \o batch.results, e))
      BY <1>1, <2>1, <2>3, EndsAppend
    <3>2. Append(newMessages \o batch.results, e) = newMessages \o Append(batch.results, e)
      BY <1>1, AppendToBatch
    <3> QED  BY <3>1, <3>2
  <2>5. EndsWith(transcript', newMessages' \o batch'.results)
    BY <1>14, <2>1, <2>2, <2>4
  <2> QED  BY <1>14, <2>1, <2>5 DEF ReportInvariant
<1>15. CASE Tools /\ ~BatchEnds /\ ~(\E c \in executing : StrayToolEnds(c))
  <2>1. phase \in ToolPhases /\ phase' \in ToolPhases /\ newMessages' = newMessages
    BY <1>15 DEF Tools, FailTruncatedCall, BeginCall, RejectCall, AcceptCall, CheckAbort,
       BatchPrepared, SequentialToolEnds, ParallelToolEnds, ToolsSettled, EmitResult
  <2> QED  BY <1>1, <1>14, <1>15, <2>1, ToolsEmit
<1>16. CASE BatchEnds
  <2>1. /\ phase = "batchEnd" /\ transcript' = transcript
        /\ newMessages' = newMessages \o batch.results /\ phase' \in {"ending", "turnEnd"}
    BY <1>16 DEF BatchEnds
  <2>2. EndsWith(transcript, newMessages \o batch.results) /\ newMessages # <<>>
    BY <2>1 DEF ReportInvariant
  <2>3. newMessages \o batch.results # <<>>
    BY <1>1, <2>2
  <2> QED  BY <2>1, <2>2, <2>3 DEF ReportInvariant
<1>17. ASSUME NEW c \in executing, StrayToolEnds(c) PROVE ReportInvariant'
  BY <1>3, <1>17 DEF StrayToolEnds
<1>18. CASE UNCHANGED vars
  BY <1>3, <1>18 DEF vars
<1> QED
  BY <1>5, <1>6, <1>7, <1>8, <1>9, <1>10, <1>11, <1>12, <1>13, <1>15, <1>16, <1>17, <1>18
  DEF Next, Loop, Turns, Tools

(* What agent_end reports is the end of the transcript, unless the run was *)
(* made stale: AgentSession and WorkerSession decide on a retry from it.   *)
(* (Where no reply is rewritten after its message_end was emitted.)        *)
THEOREM ReportsFollowTranscript ==
  ASSUME TextCallRecovery = FALSE
  PROVE  Spec => []EndReportsTranscript
<1>1. Init => ReportInvariant
  BY DEF Init, ReportInvariant, ToolPhases, TurnPhases
<1>2. TypeOK /\ ReportInvariant /\ [Next]_vars => ReportInvariant'
  BY ReportStep
<1>3. TypeOK /\ ReportInvariant => EndReportsTranscript
  BY EndsIsSuffix DEF ReportInvariant, EndReportsTranscript, TypeOK
<1> QED  BY <1>1, <1>2, <1>3, TypeCorrect, PTL DEF Spec
=============================================================================
