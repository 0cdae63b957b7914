------------------------------ MODULE AgentLoop ------------------------------
(***************************************************************************)
(* One Agent of packages/agent: the class Agent (agent.ts) that owns the   *)
(* transcript, the two message queues and the run lifecycle, together with *)
(* the loop it runs (agent-loop.ts).                                       *)
(*                                                                         *)
(* Everything between two awaits of the code is one step.  While the loop  *)
(* awaits a listener, a hook, the model or a tool, its callers may queue   *)
(* messages, clear the queues, abort the run or make its epoch stale.      *)
(*                                                                         *)
(* A message body is abstracted to its identity; an assistant message to   *)
(* its stop reason and its number of tool calls; a tool result to the call *)
(* it answers.  A call is named <<turn, index>>, turn being the number of  *)
(* the model request whose reply contains it.                              *)
(***************************************************************************)
EXTENDS Naturals, SequencesExt

CONSTANTS
  Messages,           \* the messages callers may hand to the agent, each once
  SteeringMode,       \* "all" or "one-at-a-time"
  FollowUpMode,       \* "all" or "one-at-a-time"
  MaxCalls,           \* bound: tool calls in one assistant message
  MaxRequests,        \* bound: model requests after which no reply calls tools
                      \* and no run is resumed without a new message
  MaxFaults,          \* bound: exceptions thrown by listeners or hooks
  EpochCanGoStale,    \* TRUE: checkEpoch may start to answer false
  TextCallRecovery    \* TRUE: models may print a tool call as JSON text

Modes == {"all", "one-at-a-time"}

ASSUME AgentLoopAssumption ==
  /\ SteeringMode \in Modes
  /\ FollowUpMode \in Modes
  /\ MaxCalls \in Nat
  /\ MaxRequests \in Nat
  /\ MaxFaults \in Nat
  /\ EpochCanGoStale \in BOOLEAN
  /\ TextCallRecovery \in BOOLEAN

VARIABLES
  phase,             \* where the loop is; "idle" when there is no activeRun
  steeringQueue,     \* Agent.steeringQueue
  followUpQueue,     \* Agent.followUpQueue
  transcript,        \* Agent.state.messages
  pendingToolCalls,  \* Agent.state.pendingToolCalls
  aborted,           \* the signal of the active run
  stale,             \* checkEpoch answers false
  pending,           \* prompts not yet emitted, later the loop's pendingMessages
  context,           \* the loop's currentContext.messages
  newMessages,       \* the loop's newMessages, reported by agent_end
  skipPoll,          \* skipInitialSteeringPoll of the run
  hasMore,           \* the loop's hasMoreToolCalls
  reply,             \* the assistant message of the current turn
  batch,             \* the batch of tool calls being executed
  executing,         \* tool calls whose execute() has not settled
  requests,          \* model requests answered so far
  faults             \* exceptions thrown so far

\* Variables that no code reads: what the properties need to remember.
VARIABLES
  prompted,          \* messages given to prompt()
  steered,           \* messages given to steer(), in order
  followed,          \* messages given to followUp(), in order
  withdrawn,         \* messages removed by clearing the queues
  owed,              \* steering messages that waited when the last turn ended
  runStart           \* length of the transcript when the run began

queueVars == <<steeringQueue, followUpQueue>>
toolVars  == <<pendingToolCalls, batch, executing>>
loopVars  == <<context, newMessages, skipPoll, hasMore, reply, requests>>
callVars  == <<prompted, steered, followed, withdrawn>>
ghostVars == <<callVars, owed, runStart>>
vars == <<phase, queueVars, transcript, aborted, stale, pending, loopVars,
          toolVars, faults, ghostVars>>

-----------------------------------------------------------------------------
(* Messages                                                                *)

StopReasons == {"stop", "toolUse", "length", "error", "aborted"}

UsersUnwrapped(ms) == ms      \* mutant: prompts are not made into messages

User(m)            == [role |-> "user", id |-> m]
Users(ms)          == [i \in 1..Len(ms) |-> User(ms[i])]
Assistant(s, n, t) == [role |-> "assistant", stop |-> s, calls |-> n, turn |-> t]
Result(t, i)       == [role |-> "toolResult", turn |-> t, call |-> i]

DrainedNewest(q, mode) ==     \* mutant: takes from the wrong end
  IF mode = "all" \/ q = <<>> THEN q ELSE <<Last(q)>>
LeftNothing(q, mode) == <<>>  \* mutant: empties the queue in either mode
LeftAll(q, mode) == q         \* mutant: forgets to remove what it returned

\* The messages a drain returns, and what it leaves in the queue.
Drained(q, mode) == IF mode = "all" \/ q = <<>> THEN q ELSE <<Head(q)>>
Left(q, mode)    == IF mode = "all" \/ q = <<>> THEN <<>> ELSE Tail(q)

-----------------------------------------------------------------------------
(* Batches of tool calls                                                   *)

NoReply == Assistant("stop", 0, 0)
NoBatch == [mode |-> "none", next |-> 1, ready |-> {}, done |-> {},
            goOn |-> FALSE, results |-> <<>>]
NewBatch(mode) == [NoBatch EXCEPT !.mode = mode]

Call(i) == <<reply.turn, i>>

\* Call i is finalized; terminate is what its result says.
Finalized(b, i, terminate) ==
  [b EXCEPT !.done = @ \union {i}, !.goOn = @ \/ ~terminate]

WithoutResult(b, i) == b      \* mutant: the result stays out of the batch

\* Its result message has been emitted.
WithResult(b, i) == [b EXCEPT !.results = Append(@, Result(reply.turn, i))]

AnySettled == batch.ready = {} \/ batch.done # {}   \* mutant: Promise.race
SkipTheRest == reply.calls + 1                       \* mutant: no abort needed
UnansweredAfterAbort == IF aborted THEN {} ELSE BOOLEAN   \* mutant: the hook hangs

\* Promise.all over the tools of a parallel batch has every outcome.
AllSettled == batch.ready \subseteq batch.done

\* The call to prepare after this one: none when the run was aborted.
NextCall == IF aborted THEN reply.calls + 1 ELSE batch.next + 1

\* What an answer that did not come from the tool may say of termination.
RejectOutcomes == IF aborted THEN {FALSE} ELSE BOOLEAN

\* shouldTerminateToolBatch
BatchTerminates(b) == b.done # {} /\ ~b.goOn

-----------------------------------------------------------------------------
Init ==
  /\ phase = "idle"
  /\ steeringQueue = <<>> /\ followUpQueue = <<>>
  /\ transcript = <<>>
  /\ pendingToolCalls = {} /\ executing = {}
  /\ aborted = FALSE /\ stale = FALSE
  /\ pending = <<>> /\ context = <<>> /\ newMessages = <<>>
  /\ skipPoll = FALSE /\ hasMore = FALSE
  /\ reply = NoReply /\ batch = NoBatch
  /\ requests = 0 /\ faults = 0
  /\ prompted = {} /\ steered = <<>> /\ followed = <<>> /\ withdrawn = {}
  /\ owed = {} /\ runStart = 0

Sent == prompted \union ToSet(steered) \union ToSet(followed)
Fresh == Messages \ Sent

ContinuesAnyway == FALSE      \* mutant: continue() forgets its check

\* The test of continue() and of the callers that retry.
EndsWithAssistant == transcript # <<>> /\ Last(transcript).role = "assistant"

-----------------------------------------------------------------------------
(* What callers do                                                         *)

Steer(m) ==
  /\ m \in Fresh
  /\ steeringQueue' = Append(steeringQueue, m)
  /\ steered' = Append(steered, m)
  /\ UNCHANGED <<phase, followUpQueue, transcript, aborted, stale, pending,
                 loopVars, toolVars, faults, prompted, followed, withdrawn,
                 owed, runStart>>

FollowUp(m) ==
  /\ m \in Fresh
  /\ followUpQueue' = Append(followUpQueue, m)
  /\ followed' = Append(followed, m)
  /\ UNCHANGED <<phase, steeringQueue, transcript, aborted, stale, pending,
                 loopVars, toolVars, faults, prompted, steered, withdrawn,
                 owed, runStart>>

ClearAllQueues ==
  /\ steeringQueue # <<>> \/ followUpQueue # <<>>
  /\ withdrawn' = withdrawn \union ToSet(steeringQueue) \union ToSet(followUpQueue)
  /\ steeringQueue' = <<>>
  /\ followUpQueue' = <<>>
  /\ UNCHANGED <<phase, transcript, aborted, stale, pending, loopVars,
                 toolVars, faults, prompted, steered, followed, owed, runStart>>

\* abort() reaches the controller of the active run only.
Abort ==
  /\ phase # "idle"
  /\ ~aborted
  /\ aborted' = TRUE
  /\ UNCHANGED <<phase, queueVars, transcript, stale, pending, loopVars,
                 toolVars, faults, ghostVars>>

\* An interrupt makes the epoch of the run stale; its token is never renewed.
Interrupt ==
  /\ EpochCanGoStale
  /\ phase # "idle"
  /\ ~stale
  /\ stale' = TRUE
  /\ UNCHANGED <<phase, queueVars, transcript, aborted, pending, loopVars,
                 toolVars, faults, ghostVars>>

\* A caller retries: it removes the assistant message that ends the transcript
\* before it continues (AgentSession and WorkerSession do, while idle).
DropLastAssistant ==
  /\ phase = "idle"
  /\ EndsWithAssistant
  /\ requests < MaxRequests
  /\ transcript' = Front(transcript)
  /\ UNCHANGED <<phase, queueVars, aborted, stale, pending, loopVars, toolVars,
                 faults, ghostVars>>

-----------------------------------------------------------------------------
(* Starting and finishing a run                                            *)

\* runWithLifecycle up to the first await: the context is a copy of the
\* transcript extended with the prompts.
Begin(ms, skip) ==
  /\ phase' = "prompts"
  /\ pending' = ms
  /\ context' = transcript \o Users(ms)
  /\ newMessages' = Users(ms)
  /\ skipPoll' = skip
  /\ aborted' = FALSE
  /\ stale' = FALSE
  /\ runStart' = Len(transcript)
  /\ UNCHANGED <<transcript, hasMore, reply, toolVars, requests, faults, owed>>

Prompt(ms) ==
  /\ phase = "idle"
  /\ ToSet(ms) \subseteq Fresh
  /\ Begin(ms, FALSE)
  /\ prompted' = prompted \union ToSet(ms)
  /\ UNCHANGED <<queueVars, steered, followed, withdrawn>>

\* continue(): after an assistant message only with queued messages, steering
\* first; otherwise from the transcript as it is.
ContinueWithSteering ==
  /\ phase = "idle"
  /\ EndsWithAssistant
  /\ steeringQueue # <<>>
  /\ Begin(Drained(steeringQueue, SteeringMode), TRUE)
  /\ steeringQueue' = Left(steeringQueue, SteeringMode)
  /\ UNCHANGED <<followUpQueue, callVars>>

ContinueWithFollowUps ==
  /\ phase = "idle"
  /\ EndsWithAssistant
  /\ steeringQueue = <<>>
  /\ followUpQueue # <<>>
  /\ Begin(Drained(followUpQueue, FollowUpMode), FALSE)
  /\ followUpQueue' = Left(followUpQueue, FollowUpMode)
  /\ UNCHANGED <<steeringQueue, callVars>>

ContinueTranscript ==
  /\ phase = "idle"
  /\ transcript # <<>>
  /\ ~EndsWithAssistant
  /\ requests < MaxRequests
  /\ Begin(<<>>, FALSE)
  /\ UNCHANGED <<queueVars, callVars>>

\* finishRun, once the listeners of agent_end have settled.  The locals of the
\* loop are gone; tools that are still running are not.
FinishRun ==
  /\ phase = "ending"
  /\ phase' = "idle"
  /\ pendingToolCalls' = {}
  /\ aborted' = FALSE
  /\ stale' = FALSE
  /\ pending' = <<>> /\ context' = <<>> /\ newMessages' = <<>>
  /\ skipPoll' = FALSE /\ hasMore' = FALSE
  /\ reply' = NoReply /\ batch' = NoBatch
  /\ owed' = {} /\ runStart' = 0
  /\ UNCHANGED <<queueVars, transcript, executing, requests, faults, callVars>>

-----------------------------------------------------------------------------
(* Failure of a run                                                        *)

\* The phases in which a listener or a hook is awaited and no tool runs.
HookPhases == {"prompts", "turn", "streaming", "decide", "prepare", "preflight",
               "checkAbort", "results", "batchEnd", "turnEnd", "drain", "ending"}

\* A listener, getApiKey, convertToLlm, streamFn or prepareNextTurn throws and
\* the exception unwinds the loop.
Throw ==
  /\ phase \in HookPhases
  /\ faults < MaxFaults
  /\ faults' = faults + 1
  /\ phase' = "failing"
  /\ UNCHANGED <<queueVars, transcript, aborted, stale, pending, loopVars,
                 toolVars, ghostVars>>

\* The listener of an event of tool call i throws: the failure surfaces when
\* the tool has settled.  Promise.all rejects at once, so the other tools of a
\* parallel batch go on running.
ThrowFromTool(i) ==
  /\ \/ phase = "executing" /\ i = batch.next
     \/ phase = "running" /\ i \in batch.ready \ batch.done
  /\ faults < MaxFaults
  /\ faults' = faults + 1
  /\ phase' = "failing"
  /\ executing' = executing \ {Call(i)}
  /\ pendingToolCalls' \in {pendingToolCalls, pendingToolCalls \ {Call(i)}}
  /\ UNCHANGED <<queueVars, transcript, aborted, stale, pending, loopVars, batch,
                 ghostVars>>

ReportAll(failure) == Append(newMessages, failure)   \* mutant

\* The messages agent_end reports after a failure.
FailureReport(failure) == <<failure>>

\* handleRunFailure records an assistant message and emits agent_end.
HandleRunFailure ==
  /\ phase = "failing"
  /\ LET failure == Assistant(IF aborted THEN "aborted" ELSE "error", 0, 0)
     IN  /\ transcript' = Append(transcript, failure)
         /\ newMessages' = FailureReport(failure)
  /\ phase' = "ending"
  /\ UNCHANGED <<queueVars, aborted, stale, pending, context, skipPoll, hasMore,
                 reply, requests, toolVars, faults, ghostVars>>

-----------------------------------------------------------------------------
(* Turns                                                                   *)

\* runAgentLoop emits the prompts one by one.
EmitPrompt ==
  /\ phase = "prompts"
  /\ pending # <<>>
  /\ transcript' = Append(transcript, User(Head(pending)))
  /\ pending' = Tail(pending)
  /\ UNCHANGED <<phase, queueVars, aborted, stale, loopVars, toolVars, faults,
                 ghostVars>>

\* The poll of the steering queue before the first turn.
InitialPoll ==
  /\ phase = "prompts"
  /\ pending = <<>>
  /\ phase' = "turn"
  /\ IF skipPoll
     THEN UNCHANGED <<pending, steeringQueue>>
     ELSE /\ pending' = Drained(steeringQueue, SteeringMode)
          /\ steeringQueue' = Left(steeringQueue, SteeringMode)
  /\ skipPoll' = FALSE
  /\ UNCHANGED <<followUpQueue, transcript, aborted, stale, context, newMessages,
                 hasMore, reply, requests, toolVars, faults, ghostVars>>

InjectPending ==
  /\ phase = "turn"
  /\ pending # <<>>
  /\ transcript'  = Append(transcript, User(Head(pending)))
  /\ context'     = Append(context, User(Head(pending)))
  /\ newMessages' = Append(newMessages, User(Head(pending)))
  /\ pending' = Tail(pending)
  /\ UNCHANGED <<phase, queueVars, aborted, stale, skipPoll, hasMore, reply,
                 requests, toolVars, faults, ghostVars>>

\* The model is asked with the context as it now is.
OpenStream ==
  /\ phase = "turn"
  /\ pending = <<>>
  /\ phase' = "streaming"
  /\ UNCHANGED <<queueVars, transcript, aborted, stale, pending, loopVars,
                 toolVars, faults, ghostVars>>

\* The replies a model can give.  The calls of a reply that ends in error or
\* aborted are never looked at.
Replies(t) ==
  LET calls == IF requests < MaxRequests THEN 1..MaxCalls ELSE {}
  IN  {Assistant("stop", 0, t), Assistant("length", 0, t), Assistant("error", 0, t)}
        \union {Assistant(s, n, t) : s \in {"toolUse", "length"}, n \in calls}
        \union (IF aborted THEN {Assistant("aborted", 0, t)} ELSE {})

\* What recoverTextToolCall makes of a reply after its message_end was emitted.
Recovered(r) ==
  IF TextCallRecovery /\ r.stop \in {"stop", "length"} /\ r.calls = 0
                      /\ MaxCalls > 0 /\ requests < MaxRequests
  THEN {r, Assistant("toolUse", 1, r.turn)}
  ELSE {r}

\* The reply is complete: it enters the context, and the transcript unless the
\* epoch is stale.
StreamEnds ==
  /\ phase = "streaming"
  /\ \E raw \in Replies(requests + 1) :
       \E r \in Recovered(raw) :
         /\ reply' = r
         /\ context' = Append(context, r)
         /\ newMessages' = Append(newMessages, r)
         /\ transcript' = IF stale THEN transcript ELSE Append(transcript, raw)
  /\ requests' = requests + 1
  /\ phase' = "decide"
  /\ UNCHANGED <<queueVars, aborted, stale, pending, skipPoll, hasMore, toolVars,
                 faults, ghostVars>>

\* What the loop does with the reply, once the listeners of message_end are done.
Decide ==
  /\ phase = "decide"
  /\ \/ /\ reply.stop \in {"error", "aborted"} \/ stale
        /\ phase' = "ending"
        /\ UNCHANGED <<batch, hasMore>>
     \/ /\ reply.stop \notin {"error", "aborted"} /\ ~stale
        /\ reply.calls = 0
        /\ phase' = "turnEnd"
        /\ hasMore' = FALSE
        /\ UNCHANGED batch
     \/ /\ reply.stop \notin {"error", "aborted"} /\ ~stale
        /\ reply.calls > 0
        /\ phase' = "prepare"
        /\ batch' \in IF reply.stop = "length"
                      THEN {NewBatch("truncated")}
                      ELSE {NewBatch("sequential"), NewBatch("parallel")}
        /\ hasMore' = FALSE
  /\ UNCHANGED <<queueVars, transcript, aborted, stale, pending, context,
                 newMessages, skipPoll, reply, requests, pendingToolCalls,
                 executing, faults, ghostVars>>

-----------------------------------------------------------------------------
(* Tool calls                                                              *)

\* A call of a truncated reply is failed without being executed.
FailTruncatedCall ==
  /\ phase = "prepare"
  /\ batch.mode = "truncated"
  /\ batch.next <= reply.calls
  /\ transcript' = Append(transcript, Result(reply.turn, batch.next))
  /\ batch' = [WithResult(Finalized(batch, batch.next, FALSE), batch.next)
                 EXCEPT !.next = @ + 1]
  /\ UNCHANGED <<phase, queueVars, aborted, stale, pending, loopVars,
                 pendingToolCalls, executing, faults, ghostVars>>

\* tool_execution_start; the hook beforeToolCall is then awaited.
BeginCall ==
  /\ phase = "prepare"
  /\ batch.mode # "truncated"
  /\ batch.next <= reply.calls
  /\ pendingToolCalls' = pendingToolCalls \union {Call(batch.next)}
  /\ phase' = "preflight"
  /\ UNCHANGED <<queueVars, transcript, aborted, stale, pending, loopVars, batch,
                 executing, faults, ghostVars>>

\* The batch without a further call to prepare: a parallel one starts its tools.
BatchPrepared ==
  /\ phase = "prepare"
  /\ batch.next > reply.calls
  /\ phase' = IF batch.mode = "parallel" THEN "running" ELSE "batchEnd"
  /\ executing' = executing \union {Call(i) : i \in batch.ready}
  /\ UNCHANGED <<queueVars, transcript, aborted, stale, pending, loopVars, batch,
                 pendingToolCalls, faults, ghostVars>>

\* prepareToolCall answers by itself: unknown tool, invalid arguments, blocked,
\* answered by the hook, or aborted.  Only the hook's answer may terminate.
RejectCall ==
  /\ phase = "preflight"
  /\ \E terminate \in RejectOutcomes :
       LET b == Finalized(batch, batch.next, terminate)
       IN  IF batch.mode = "sequential"
           THEN /\ batch' = WithResult(b, batch.next)
                /\ transcript' = Append(transcript, Result(reply.turn, batch.next))
           ELSE /\ batch' = b
                /\ UNCHANGED transcript
  /\ pendingToolCalls' = pendingToolCalls \ {Call(batch.next)}
  /\ phase' = "checkAbort"
  /\ UNCHANGED <<queueVars, aborted, stale, pending, loopVars, executing, faults,
                 ghostVars>>

\* prepareToolCall lets the call through, which it never does after an abort.
AcceptCall ==
  /\ phase = "preflight"
  /\ ~aborted
  /\ \/ /\ batch.mode = "sequential"
        /\ phase' = "executing"
        /\ executing' = executing \union {Call(batch.next)}
        /\ UNCHANGED batch
     \/ /\ batch.mode = "parallel"
        /\ phase' = "checkAbort"
        /\ batch' = [batch EXCEPT !.ready = @ \union {batch.next}]
        /\ UNCHANGED executing
  /\ UNCHANGED <<queueVars, transcript, aborted, stale, pending, loopVars,
                 pendingToolCalls, faults, ghostVars>>

\* The loop over the calls stops when the run was aborted.
CheckAbort ==
  /\ phase = "checkAbort"
  /\ phase' = "prepare"
  /\ batch' = [batch EXCEPT !.next = NextCall]
  /\ UNCHANGED <<queueVars, transcript, aborted, stale, pending, loopVars,
                 pendingToolCalls, executing, faults, ghostVars>>

\* A tool of a sequential batch returned, failed or timed out.
SequentialToolEnds ==
  /\ phase = "executing"
  /\ \E terminate \in BOOLEAN :
       batch' = WithResult(Finalized(batch, batch.next, terminate), batch.next)
  /\ transcript' = Append(transcript, Result(reply.turn, batch.next))
  /\ executing' = executing \ {Call(batch.next)}
  /\ pendingToolCalls' = pendingToolCalls \ {Call(batch.next)}
  /\ phase' = "checkAbort"
  /\ UNCHANGED <<queueVars, aborted, stale, pending, loopVars, faults, ghostVars>>

\* A tool of a parallel batch did, in any order.
ParallelToolEnds(i) ==
  /\ phase = "running"
  /\ i \in batch.ready \ batch.done
  /\ \E terminate \in BOOLEAN : batch' = Finalized(batch, i, terminate)
  /\ executing' = executing \ {Call(i)}
  /\ pendingToolCalls' = pendingToolCalls \ {Call(i)}
  /\ UNCHANGED <<phase, queueVars, transcript, aborted, stale, pending, loopVars,
                 faults, ghostVars>>

ToolsSettled ==
  /\ phase = "running"
  /\ AllSettled
  /\ phase' = "results"
  /\ UNCHANGED <<queueVars, transcript, aborted, stale, pending, loopVars,
                 toolVars, faults, ghostVars>>

\* The result messages of a parallel batch, in the order of the calls.  The
\* calls that were finalized are the first of the reply, so the next result is
\* that of the call whose index is one more than the results emitted.
EmitResult ==
  /\ phase = "results"
  /\ LET i == Len(batch.results) + 1
     IN  IF i \in batch.done
         THEN /\ transcript' = Append(transcript, Result(reply.turn, i))
              /\ batch' = WithResult(batch, i)
              /\ UNCHANGED phase
         ELSE /\ phase' = "batchEnd"
              /\ UNCHANGED <<transcript, batch>>
  /\ UNCHANGED <<queueVars, aborted, stale, pending, loopVars, pendingToolCalls,
                 executing, faults, ghostVars>>

\* A tool that outlived its run ends.
StrayToolEnds(c) ==
  /\ c \in executing
  /\ phase \in {"failing", "ending", "idle"} \/ c[1] # reply.turn
  /\ executing' = executing \ {c}
  /\ pendingToolCalls' = pendingToolCalls \ {c}
  /\ UNCHANGED <<phase, queueVars, transcript, aborted, stale, pending, loopVars,
                 batch, faults, ghostVars>>

\* Back in runLoop with the results of the batch.
BatchEnds ==
  /\ phase = "batchEnd"
  /\ context' = context \o batch.results
  /\ newMessages' = newMessages \o batch.results
  /\ hasMore' = ~BatchTerminates(batch)
  /\ phase' = IF stale THEN "ending" ELSE "turnEnd"
  /\ batch' = NoBatch
  /\ UNCHANGED <<queueVars, transcript, aborted, stale, pending, skipPoll, reply,
                 requests, pendingToolCalls, executing, faults, ghostVars>>

-----------------------------------------------------------------------------
(* Between turns                                                           *)

EndTurnFollowUpsFirst ==      \* mutant: polls the wrong queue after a turn
  /\ phase = "turnEnd"
  /\ owed' = ToSet(steeringQueue)
  /\ phase' = "outerFollowUp"
  /\ UNCHANGED <<queueVars, transcript, aborted, stale, pending, loopVars,
                 toolVars, faults, callVars, runStart>>

\* turn_end and the hook prepareNextTurn, which may replace the context by the
\* transcript (AgentSession and WorkerSession do).
EndTurn ==
  /\ phase = "turnEnd"
  /\ context' \in {context, transcript}
  /\ owed' = ToSet(steeringQueue)
  /\ phase' = "drain"
  /\ UNCHANGED <<queueVars, transcript, aborted, stale, pending, newMessages,
                 skipPoll, hasMore, reply, requests, toolVars, faults, callVars,
                 runStart>>

\* The poll at the end of a turn.  A stale epoch ends the run with what was
\* drained still in hand.
DrainSteering ==
  /\ phase = "drain"
  /\ pending' = Drained(steeringQueue, SteeringMode)
  /\ steeringQueue' = Left(steeringQueue, SteeringMode)
  /\ phase' = IF stale THEN "ending"
              ELSE IF hasMore \/ pending' # <<>> THEN "turn" ELSE "outer"
  /\ UNCHANGED <<followUpQueue, transcript, aborted, stale, loopVars, toolVars,
                 faults, ghostVars>>

\* The agent would stop here: steering messages first, ...
OuterSteering ==
  /\ phase = "outer"
  /\ IF stale
     THEN /\ phase' = "ending"
          /\ UNCHANGED <<pending, steeringQueue>>
     ELSE /\ pending' = Drained(steeringQueue, SteeringMode)
          /\ steeringQueue' = Left(steeringQueue, SteeringMode)
          /\ phase' = IF pending' # <<>> THEN "turn" ELSE "outerFollowUp"
  /\ UNCHANGED <<followUpQueue, transcript, aborted, stale, loopVars, toolVars,
                 faults, ghostVars>>

\* ... then follow-ups, else agent_end.
OuterFollowUp ==
  /\ phase = "outerFollowUp"
  /\ pending' = Drained(followUpQueue, FollowUpMode)
  /\ followUpQueue' = Left(followUpQueue, FollowUpMode)
  /\ phase' = IF pending' # <<>> THEN "turn" ELSE "ending"
  /\ UNCHANGED <<steeringQueue, transcript, aborted, stale, loopVars, toolVars,
                 faults, ghostVars>>

-----------------------------------------------------------------------------
\* One message, or two at once (a prompt with messages queued for the next turn).
Prompts == {<<m>> : m \in Messages}
             \union {<<p[1], p[2]>> : p \in {q \in Messages \X Messages : q[1] # q[2]}}

Caller ==
  \/ \E m \in Messages : Steer(m) \/ FollowUp(m)
  \/ ClearAllQueues
  \/ Abort
  \/ Interrupt
  \/ DropLastAssistant
  \/ \E ms \in Prompts : Prompt(ms)
  \/ ContinueWithSteering
  \/ ContinueWithFollowUps
  \/ ContinueTranscript

Turns ==
  \/ EmitPrompt \/ InitialPoll \/ InjectPending \/ OpenStream \/ StreamEnds
  \/ Decide \/ EndTurn \/ DrainSteering \/ OuterSteering \/ OuterFollowUp
  \/ HandleRunFailure \/ FinishRun

Tools ==
  \/ FailTruncatedCall \/ BeginCall \/ RejectCall \/ AcceptCall \/ CheckAbort
  \/ BatchPrepared \/ SequentialToolEnds
  \/ \E i \in 1..MaxCalls : ParallelToolEnds(i)
  \/ ToolsSettled \/ EmitResult \/ BatchEnds
  \/ \E c \in executing : StrayToolEnds(c)

Loop == Turns \/ Tools

Fault == Throw \/ \E i \in 1..MaxCalls : ThrowFromTool(i)

Next == Caller \/ Fault \/ Loop

\* The event loop runs every continuation that is ready; a model request ends
\* and a tool settles, by itself, by its timeout or because of the abort.
Spec == Init /\ [][Next]_vars /\ WF_vars(Loop)
-----------------------------------------------------------------------------
(* What the agent promises                                                 *)

Phases == HookPhases \union {"idle", "executing", "running", "outer",
                             "outerFollowUp", "failing"}
CallIds == Nat \X Nat
AssistantEntries == [role : {"assistant"}, stop : StopReasons, calls : Nat, turn : Nat]
ResultEntries    == [role : {"toolResult"}, turn : Nat, call : Nat]
Entries == [role : {"user"}, id : Messages] \union AssistantEntries \union ResultEntries
Batches == [mode : {"none", "truncated", "sequential", "parallel"}, next : Nat,
            ready : SUBSET Nat, done : SUBSET Nat, goOn : BOOLEAN,
            results : Seq(ResultEntries)]

(* Every variable has its type, in every state of the agent and its loop.  *)
TypeOK ==
  /\ phase \in Phases
  /\ steeringQueue \in Seq(Messages) /\ followUpQueue \in Seq(Messages)
  /\ transcript \in Seq(Entries)
  /\ pendingToolCalls \in SUBSET CallIds /\ executing \in SUBSET CallIds
  /\ aborted \in BOOLEAN /\ stale \in BOOLEAN
  /\ pending \in Seq(Messages)
  /\ context \in Seq(Entries) /\ newMessages \in Seq(Entries)
  /\ skipPoll \in BOOLEAN /\ hasMore \in BOOLEAN
  /\ reply \in AssistantEntries
  /\ batch \in Batches
  /\ requests \in Nat /\ faults \in Nat
  /\ prompted \in SUBSET Messages /\ withdrawn \in SUBSET Messages
  /\ steered \in Seq(Messages) /\ followed \in Seq(Messages)
  /\ owed \in SUBSET Messages /\ runStart \in Nat

Delivered == {m \in Messages : \E i \in 1..Len(transcript) : transcript[i] = User(m)}
Waiting == ToSet(steeringQueue) \union ToSet(followUpQueue)

(* No message is lost: whatever a caller hands over is in a queue, in the  *)
(* hand of a run or in the transcript until the queues are cleared, across *)
(* aborts, failed replies, early ends of batches and resumed runs.  (Code: *)
(* the drains of runLoop and continue(), the injection, every return.)     *)
NoMessageLost == Sent \ withdrawn \subseteq Waiting \union ToSet(pending) \union Delivered

(* No message is delivered twice: it is in one place, once.  (Code: drain  *)
(* and the two polls, continue() with skipInitialSteeringPoll.)            *)
DeliveredOnce ==
  /\ \A q \in {steeringQueue, followUpQueue, pending} : IsInjective(q)
  /\ \A i, j \in 1..Len(transcript) :
       transcript[i].role = "user" /\ transcript[i] = transcript[j] => i = j
  /\ ToSet(steeringQueue) \intersect ToSet(followUpQueue) = {}
  /\ Waiting \intersect (ToSet(pending) \union Delivered) = {}
  /\ ToSet(pending) \intersect Delivered = {}

\* a stands before b in the transcript, or b is not there.
Before(a, b) ==
  \A j \in 1..Len(transcript) :
    transcript[j] = User(b) => \E i \in 1..(j - 1) : transcript[i] = User(a)

(* Steering messages, and follow-up messages, reach the transcript in the  *)
(* order in which they were queued, over any number of runs.               *)
QueuesAreFIFO ==
  \A s \in {steered, followed} : \A i, j \in 1..Len(s) :
    i < j /\ s[i] \notin withdrawn => Before(s[i], s[j])

(* A follow-up is taken up only after every steering message that waited   *)
(* when the last turn ended: "run only after the agent would otherwise     *)
(* stop" (agent.ts:297).                                                   *)
SteeringBeforeFollowUp ==
  ToSet(pending) \intersect ToSet(followed) # {} => owed \intersect ToSet(steeringQueue) = {}

(* The model is never asked with a context that ends in an assistant       *)
(* message, which providers reject or complete; over tool batches that     *)
(* stop early, retries and runs resumed with queued messages.              *)
NeverAskAfterAssistant ==
  phase = "streaming" => context # <<>> /\ Last(context).role # "assistant"

(* The model is asked with exactly the transcript: what the agent shows,   *)
(* persists and retries from is what the model saw.                        *)
AskWithTranscript == phase = "streaming" => context = transcript

(* In a run that is not aborted, the model is asked only when every tool   *)
(* call of the run's replies has its result, right after the reply and in  *)
(* the order of the calls, however the tools were run.                     *)
CallsAnswered ==
  phase = "streaming" /\ ~aborted =>
    \A i \in (runStart + 1)..Len(context) :
      LET r == context[i]
      IN  r.role = "assistant" => \A k \in 1..r.calls :
            i + k <= Len(context) /\ context[i + k] = Result(r.turn, k)

(* Every tool execution that was announced has ended when the turn ends,   *)
(* whatever mixture of rejected, executed and aborted calls the batch had. *)
NoCallPendingAtTurnEnd == phase = "turnEnd" => pendingToolCalls = {}

(* What agent_end reports is the end of the transcript, unless the run was *)
(* made stale: AgentSession and WorkerSession decide on a retry from it.   *)
EndReportsTranscript ==
  phase = "ending" /\ ~stale => newMessages # <<>> /\ IsSuffix(newMessages, transcript)

(* Preflight of a tool call happens with the assistant message that asks   *)
(* for it in the agent's state (packages/agent/README.md:129).             *)
RequesterInTranscript ==
  phase = "preflight" /\ ~stale => \E i \in 1..Len(transcript) : transcript[i] = reply

(* agent_end is the final event of a run: once it is emitted the run only  *)
(* becomes idle (agent.ts:257, packages/agent/README.md:147).              *)
AgentEndIsFinal == [][phase = "ending" => phase' \in {"ending", "idle"}]_vars

(* Every run ends, aborted or not, also one that throws, since models stop *)
(* calling tools and callers run out of messages.  Liveness under the      *)
(* fairness of the loop.                                                   *)
RunSettles == phase # "idle" ~> phase = "idle"

-----------------------------------------------------------------------------
(* Why the model is asked with the right context: the invariant that the   *)
(* steps of a turn maintain, phase by phase.                               *)

ToolPhases == {"prepare", "preflight", "checkAbort", "executing", "running",
               "results", "batchEnd"}

\* The model may be asked with this conversation.
Askable(c) == c # <<>> /\ Last(c).role # "assistant"

\* A call of the batch has been answered, or will be before the batch ends.
Underway == IF batch.mode = "parallel" THEN 1 \in batch.ready \union batch.done
                                       ELSE batch.results # <<>>

\* No batch ends without a result.
BatchAnswers ==
  phase \in ToolPhases =>
    /\ reply.calls > 0 /\ batch.mode # "none"
    /\ batch.results # <<>> => Askable(transcript)
    /\ phase \in {"prepare", "preflight", "executing"} => batch.next = 1 \/ Underway
    /\ phase = "checkAbort" => Underway
    /\ phase \in {"preflight", "checkAbort"} => batch.mode # "truncated"
    /\ phase = "executing" => batch.mode = "sequential"
    /\ phase = "running" => 1 \in batch.ready \union batch.done
    /\ phase = "results" => 1 \in batch.done
    /\ phase = "batchEnd" => batch.results # <<>>

\* The next request follows a message for the model.
RequestInvariant ==
  /\ BatchAnswers
  /\ phase \in {"prompts", "streaming"} => Askable(context)
  /\ phase = "turn" => pending # <<>> \/ Askable(context)
  /\ phase \in {"turnEnd", "drain"} /\ hasMore => Askable(context) /\ Askable(transcript)

\* How far the transcript is behind the context, or ahead of it.
ContextInvariant ==
  /\ phase = "prompts" => context = transcript \o Users(pending)
  /\ phase \in {"turn", "streaming", "turnEnd", "drain", "outer", "outerFollowUp"}
       => context = transcript
  /\ phase = "decide" /\ ~stale => context = transcript
  /\ phase \in ToolPhases => transcript = context \o batch.results

-----------------------------------------------------------------------------
(* Why messages are neither lost nor doubled.                              *)

\* What is anywhere was handed over by a caller, so a new message is nowhere.
DeliveryInvariant ==
  /\ DeliveredOnce
  /\ Waiting \union ToSet(pending) \union Delivered \subseteq Sent

\* Only a run that is about to emit messages has any in hand (while nothing
\* throws and no epoch goes stale).
HandsInvariant ==
  /\ phase \notin {"prompts", "turn"} => pending = <<>>
  /\ phase # "failing" /\ ~stale

-----------------------------------------------------------------------------
\* Where a message is; "lost" is no place of the abstract specification.
Place(m) ==
  IF m \in withdrawn THEN "withdrawn"
  ELSE IF m \in ToSet(pending) THEN "inHand"
  ELSE IF \E i \in 1..Len(transcript) : transcript[i] = User(m) THEN "delivered"
  ELSE IF m \in Waiting THEN "waiting"
  ELSE IF m \in Sent THEN "lost"
  ELSE "caller"

\* What Place and the activity of the agent depend on.
placed == <<phase = "idle", pending, transcript, steeringQueue, followUpQueue, withdrawn,
            prompted, steered, followed>>

Delivery == INSTANCE MessageDelivery
              WITH busy <- phase # "idle", place <- [m \in Messages |-> Place(m)]

(* The agent implements MessageDelivery: messages are taken up only with   *)
(* empty hands, delivered once, withdrawn only while they wait, and a run  *)
(* never settles with a message in hand.  (Holds while nothing throws and  *)
(* no epoch goes stale.)                                                   *)
ImplementsDelivery ==
  Delivery!Init /\ [][UNCHANGED placed \/ UNCHANGED Delivery!vars \/ Delivery!Next]_vars
=============================================================================
