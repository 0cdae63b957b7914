---------------------------- MODULE AgentSession ----------------------------
(***************************************************************************)
(* One coding-agent session: how prompt(), steer(), followUp(), abort(),   *)
(* compact() and recorded shell commands share one agent.                  *)
(*                                                                         *)
(* The code runs on one JavaScript thread, so an action below is what runs *)
(* between two awaits.  A caller that awaits is a record of `call': where  *)
(* it waits (`at'), whether it is still in prompt()'s preflight (`pre'),   *)
(* the messages it carries, and whether the compaction it awaits retries   *)
(* the failed request.  The agent itself (module AgentLoop) is abstracted  *)
(* to what the session sees of it: a run that drains the queues, emits     *)
(* messages, calls tools, and ends.                                        *)
(***************************************************************************)
EXTENDS Naturals, SequencesExt

CONSTANTS
    NoOne,        \* no caller: the agent is not running
    Callers,      \* the clients of the session: editor, RPC, extensions
    Prompters,    \* those that call prompt() (the others only queue, abort, compact)
    Msgs,         \* message texts, each sent once
    Bashes,       \* results of shell commands the user ran
    MaxRetries,   \* settings.retry.maxRetries
    MaxRuns,      \* bound: the provider fails no more once this many runs began
                  \* (a run calls tools at most once, another bound)
    ManualCompaction,     \* TRUE: compact() is called
    PreflightCompaction,  \* TRUE: prompt() may find the transcript over its limit
    QueueClearing         \* TRUE: clearQueue() is called

ASSUME SessionAssumption ==
    /\ NoOne \notin Callers
    /\ Prompters \subseteq Callers
    /\ Msgs \cap Bashes = {}
    /\ MaxRetries \in Nat /\ MaxRuns \in Nat
    /\ {ManualCompaction, PreflightCompaction, QueueClearing} \subseteq BOOLEAN

VARIABLES
    active,         \* _isAgentRunActive
    call,           \* where each caller of the session waits
    run,            \* the agent's run: "none", "running", "ending" (agent_end listeners)
    owner,          \* the caller whose promise the run resolves
    signal,         \* the last run's abort signal
    pending,        \* messages the run holds and has not emitted yet
    calling,        \* tool calls of the run: "no", "open", "done"
    steering,       \* the agent's steering queue
    followUps,      \* the agent's follow-up queue
    shownSteering,  \* _steeringMessages: the texts the session displays
    shownFollowUps, \* _followUpMessages
    nextTurn,       \* _pendingNextTurnMessages
    context,        \* what agent.state.messages holds or a summary in it covers
    persisted,      \* what the session file holds
    lastRole,       \* role of the last message of the context
    pendingBash,    \* _pendingBashMessages
    connected,      \* _unsubscribeAgent is set: agent events reach the session
    lastAssistant,  \* _lastAssistantMessage: how it ended
    retryAttempt,   \* _retryAttempt
    overflowTried,  \* _overflowRecoveryAttempted
    epoch, interrupted, token,  \* EpochInterruptCoordinator, _turnEpochToken (0: none)
    used,           \* messages and results accepted so far
    returned,       \* messages given back: by clearQueue(), by a prompt() that rejects
    runs            \* number of runs begun

agent    == <<run, owner, signal, pending, calling, runs>>
queues   == <<steering, followUps>>
shown    == <<shownSteering, shownFollowUps>>
log      == <<context, persisted, lastRole>>
retry    == <<lastAssistant, retryAttempt, overflowTried>>
epochs   == <<epoch, interrupted, token>>
vars     == <<active, call, agent, queues, shown, nextTurn, log, pendingBash,
              connected, retry, epochs, used, returned>>

Places == {"ready", "preflight", "before", "run", "post", "sleep", "cancelled",
           "compact", "again", "finish", "settling", "waiting", "stopping", "compacting"}
Outcomes == {"ok", "aborted", "error", "full"}

(* A caller that awaits nothing. *)
Ready == [at |-> "ready", pre |-> FALSE, msgs |-> <<>>, willRetry |-> FALSE]

At(c, place) == call[c].at = place
Goto(c, place) == call' = [call EXCEPT ![c].at = place]

HasQueued == steering # <<>> \/ followUps # <<>>

(* Mutant: one retry too many. *)
WillRetryOnceMore == lastAssistant = "error" /\ retryAttempt <= MaxRetries

(* The run's agent_end will be followed by a retry. *)
WillRetry == lastAssistant = "error" /\ retryAttempt < MaxRetries

Init ==
    /\ active = FALSE
    /\ call = [c \in Callers |-> Ready]
    /\ run = "none" /\ owner = NoOne /\ signal = FALSE /\ pending = <<>>
    /\ calling = "no" /\ runs = 0
    /\ steering = <<>> /\ followUps = <<>>
    /\ shownSteering = <<>> /\ shownFollowUps = <<>>
    /\ nextTurn = <<>>
    /\ context = {} /\ persisted = {} /\ lastRole = "none"
    /\ pendingBash = {}
    /\ connected = TRUE
    /\ lastAssistant = "none" /\ retryAttempt = 0 /\ overflowTried = FALSE
    /\ epoch = 0 /\ interrupted = {} /\ token = 0
    /\ used = {} /\ returned = {}

-----------------------------------------------------------------------------
(* Queues, shell results, and what a caller may do without waiting.        *)

Accept(m) == m \in (Msgs \cup Bashes) \ used /\ used' = used \cup {m}

(* steer(), and prompt() with streamingBehavior "steer" while streaming. *)
Steer(m) ==
    /\ Accept(m) /\ m \in Msgs
    /\ shownSteering' = Append(shownSteering, m)
    /\ steering' = Append(steering, m)
    /\ UNCHANGED <<active, call, agent, followUps, shownFollowUps, nextTurn, log,
                   pendingBash, connected, retry, epochs, returned>>

(* followUp(), and prompt() with streamingBehavior "followUp". *)
FollowUp(m) ==
    /\ Accept(m) /\ m \in Msgs
    /\ shownFollowUps' = Append(shownFollowUps, m)
    /\ followUps' = Append(followUps, m)
    /\ UNCHANGED <<active, call, agent, steering, shownSteering, nextTurn, log,
                   pendingBash, connected, retry, epochs, returned>>

(* sendCustomMessage() with deliverAs "nextTurn". *)
NextTurn(m) ==
    /\ Accept(m) /\ m \in Msgs
    /\ nextTurn' = Append(nextTurn, m)
    /\ UNCHANGED <<active, call, agent, queues, shown, log, pendingBash, connected,
                   retry, epochs, returned>>

(* Mutant: a shell result never waits. *)
NeverDeferred == FALSE

(* A shell result waits while the session is streaming. *)
Deferred == active

(* recordBashResult(): deferred while streaming, else into context and file. *)
RecordBash(b) ==
    /\ Accept(b) /\ b \in Bashes
    /\ IF Deferred
       THEN /\ pendingBash' = pendingBash \cup {b}
            /\ UNCHANGED log
       ELSE /\ context' = context \cup {b}
            /\ persisted' = persisted \cup {b}
            /\ lastRole' = "user"
            /\ UNCHANGED pendingBash
    /\ UNCHANGED <<active, call, agent, queues, shown, nextTurn, connected, retry,
                   epochs, returned>>

(* clearQueue(): the texts on display go back to the editor. *)
ClearQueue ==
    /\ QueueClearing
    /\ HasQueued \/ shownSteering # <<>> \/ shownFollowUps # <<>>
    /\ returned' = returned \cup ToSet(shownSteering) \cup ToSet(shownFollowUps)
    /\ shownSteering' = <<>> /\ shownFollowUps' = <<>>
    /\ steering' = <<>> /\ followUps' = <<>>
    /\ UNCHANGED <<active, call, agent, nextTurn, log, pendingBash, connected, retry,
                   epochs, used>>

(* Mutant: the deferred results stay where they are. *)
FlushNothing == UNCHANGED <<log, pendingBash>>

(* _flushPendingBashMessages() *)
Flush ==
    /\ context' = context \cup pendingBash
    /\ persisted' = persisted \cup pendingBash
    /\ lastRole' = IF pendingBash = {} THEN lastRole ELSE "user"
    /\ pendingBash' = {}

-----------------------------------------------------------------------------
(* The agent, as the session sees it.                                      *)

(* A run of the agent begins for caller c with the messages ms in hand. *)
StartRun(c, ms) ==
    /\ run' = "running" /\ owner' = c /\ signal' = FALSE
    /\ pending' = ms /\ calling' = "no" /\ runs' = runs + 1

(* The loop polls a queue: follow-ups only when there is no steering, and   *)
(* in an aborted run only the steering that follows a tool batch.  The      *)
(* messages wait for turn_start's listeners before they are emitted.        *)
Drain ==
    /\ run = "running" /\ pending = <<>> /\ calling # "open"
    /\ \/ /\ steering # <<>> /\ (~signal \/ calling = "done")
          /\ pending' = <<Head(steering)>> /\ steering' = Tail(steering)
          /\ UNCHANGED followUps
       \/ /\ steering = <<>> /\ followUps # <<>> /\ ~signal
          /\ pending' = <<Head(followUps)>> /\ followUps' = Tail(followUps)
          /\ UNCHANGED steering
    /\ UNCHANGED <<active, call, run, owner, signal, calling, runs, shown, nextTurn, log,
                   pendingBash, connected, retry, epochs, used, returned>>

(* Mutant: only a steering message is taken off the display. *)
TakeOffSteering(m) ==
    /\ shownSteering' = RemoveFirst(shownSteering, m)
    /\ UNCHANGED shownFollowUps

(* A message the model is about to see is no longer displayed as queued:   *)
(* its text leaves the steering texts, or else the follow-up texts.        *)
TakeOffDisplay(m) ==
    IF m \in ToSet(shownSteering)
    THEN /\ shownSteering' = RemoveFirst(shownSteering, m)
         /\ UNCHANGED shownFollowUps
    ELSE /\ shownFollowUps' = RemoveFirst(shownFollowUps, m)
         /\ UNCHANGED shownSteering

(* A message is emitted: the session takes it off the display and saves it. *)
EmitMessage ==
    /\ run = "running" /\ pending # <<>>
    /\ LET m == Head(pending) IN
       /\ context' = context \cup {m}
       /\ IF connected
          THEN /\ persisted' = persisted \cup {m}
               /\ TakeOffDisplay(m)
          ELSE UNCHANGED <<persisted, shown>>
    /\ lastRole' = "user"
    /\ pending' = Tail(pending)
    /\ UNCHANGED <<active, call, run, owner, signal, calling, runs, queues, nextTurn,
                   pendingBash, connected, retry, epochs, used, returned>>

(* message_end of an assistant message: what retry and compaction go by. *)
AssistantEnds(outcome) ==
    /\ lastRole' = IF outcome \in {"error", "full"} THEN "error" ELSE "assistant"
    /\ IF connected
       THEN /\ lastAssistant' = outcome
            /\ retryAttempt' = IF outcome \in {"error", "full"} THEN retryAttempt ELSE 0
       ELSE UNCHANGED <<lastAssistant, retryAttempt>>
    /\ UNCHANGED overflowTried

(* The model answers with tool calls. *)
CallTools ==
    /\ run = "running" /\ ~signal /\ pending = <<>> /\ calling = "no"
    /\ calling' = "open"
    /\ AssistantEnds("ok")
    /\ UNCHANGED <<active, call, run, owner, signal, pending, runs, queues, shown, nextTurn,
                   context, persisted, pendingBash, connected, epochs, used, returned>>

(* The results of its calls follow. *)
ToolsAnswered ==
    /\ run = "running" /\ calling = "open"
    /\ calling' = "done"
    /\ lastRole' = "user"
    /\ UNCHANGED <<active, call, run, owner, signal, pending, runs, queues, shown, nextTurn,
                   context, persisted, pendingBash, connected, retry, epochs, used, returned>>

(* How the last reply of a run may end: a normal one only once the queues  *)
(* are empty; an aborted run does not look at them.                        *)
Ends(outcome) ==
    \/ outcome = "aborted" /\ signal
    \/ outcome = "ok" /\ ~signal /\ ~HasQueued
    \/ outcome \in {"error", "full"} /\ ~signal /\ runs < MaxRuns

RunEnds(outcome) ==
    /\ run = "running" /\ pending = <<>> /\ calling # "open"
    /\ Ends(outcome)
    /\ run' = "ending"
    /\ AssistantEnds(outcome)
    /\ UNCHANGED <<active, call, owner, signal, pending, calling, runs, queues, shown,
                   nextTurn, context, persisted, pendingBash, connected, epochs, used,
                   returned>>

(* The listeners of agent_end are done and the caller's promise resolves. *)
RunFinishes ==
    /\ run = "ending"
    /\ run' = "none" /\ owner' = NoOne
    /\ token' = IF connected /\ ~WillRetry THEN 0 ELSE token
    /\ Goto(owner, "post")
    /\ UNCHANGED <<active, signal, pending, calling, runs, queues, shown, nextTurn, log,
                   pendingBash, connected, retry, epoch, interrupted, used, returned>>

-----------------------------------------------------------------------------
(* prompt(), and what follows a run of the agent.                          *)

(* Mutant: the messages for the next turn are dropped. *)
EnterBeforeAlone(c, ms) ==
    /\ call' = [call EXCEPT ![c] = [Ready EXCEPT !.at = "before", !.msgs = ms]]
    /\ nextTurn' = <<>>

(* The preflight is over: messages for the next turn join the prompt's own. *)
EnterBefore(c, ms) ==
    /\ call' = [call EXCEPT ![c] = [Ready EXCEPT !.at = "before", !.msgs = ms \o nextTurn]]
    /\ nextTurn' = <<>>

(* prompt() of an idle session, up to its first await. *)
Prompt(c, m) ==
    /\ At(c, "ready") /\ c \in Prompters /\ m \in Msgs
    /\ ~active
    /\ Accept(m)
    /\ Flush
    /\ \/ /\ EnterBefore(c, <<m>>)
          /\ UNCHANGED overflowTried
       \/ \E willRetry \in BOOLEAN :
          /\ PreflightCompaction /\ runs > 0
          /\ willRetry => lastRole = "error" /\ ~overflowTried
          /\ overflowTried' = (overflowTried \/ willRetry)
          /\ call' = [call EXCEPT ![c] = [at |-> "preflight", pre |-> TRUE, msgs |-> <<m>>,
                                          willRetry |-> willRetry]]
          /\ UNCHANGED nextTurn
    /\ UNCHANGED <<active, agent, queues, shown, connected, lastAssistant, retryAttempt,
                   epochs, returned>>

(* Mutant: the session does not mark that it streams. *)
StayUnmarked == UNCHANGED active

(* The session streams from here until it settles. *)
MarkActive == active' = TRUE

(* before_agent_start's handlers are done: a new turn, and the agent's run. *)
(* If the agent already runs, its prompt() throws and only the clean-up of  *)
(* _runAgentPrompt happens.                                                 *)
RunAgentPrompt(c) ==
    /\ At(c, "before")
    /\ epoch' = epoch + 1 /\ token' = epoch + 1
    /\ MarkActive
    /\ IF run # "none"
       THEN /\ call' = [call EXCEPT ![c] = [Ready EXCEPT !.at = "finish"]]
            /\ returned' = returned \cup {Head(call[c].msgs)}
            /\ UNCHANGED agent
       ELSE /\ call' = [call EXCEPT ![c] = [Ready EXCEPT !.at = "run"]]
            /\ StartRun(c, call[c].msgs)
            /\ UNCHANGED returned
    /\ UNCHANGED <<queues, shown, nextTurn, log, pendingBash, connected, retry, interrupted,
                   used>>

(* No compaction after this run: stale steering leaves the display, and the *)
(* agent continues if something is queued.                                  *)
AfterNoCompaction(c) ==
    /\ shownSteering' = <<>>
    /\ Goto(c, IF HasQueued THEN "again" ELSE "finish")

(* _checkCompaction(): whether a compaction starts after a run that ended so. *)
MayCompact(outcome, willRetry) ==
    \/ outcome = "full" /\ willRetry /\ ~overflowTried
    \/ outcome \in {"ok", "error"} /\ ~willRetry

CheckCompaction(c, outcome) ==
    /\ \/ /\ outcome = "full" => overflowTried
          /\ overflowTried' = (overflowTried /\ outcome # "ok")
          /\ AfterNoCompaction(c)
       \/ \E willRetry \in BOOLEAN :
          /\ MayCompact(outcome, willRetry)
          /\ overflowTried' = (willRetry \/ (overflowTried /\ outcome # "ok"))
          /\ call' = [call EXCEPT ![c].at = "compact", ![c].willRetry = willRetry]
          /\ UNCHANGED shownSteering
    /\ UNCHANGED shownFollowUps

(* _handlePostAgentRun(), up to its first await. *)
PostRun(c) ==
    /\ At(c, "post")
    /\ lastAssistant' = "none"
    /\ \/ /\ lastAssistant = "none"
          /\ Goto(c, "finish")
          /\ UNCHANGED <<retryAttempt, overflowTried, shown, lastRole>>
       \/ /\ WillRetry
          /\ retryAttempt' = retryAttempt + 1
          /\ lastRole' = IF lastRole \in {"assistant", "error"} THEN "user" ELSE lastRole
          /\ Goto(c, "sleep")
          /\ UNCHANGED <<overflowTried, shown>>
       \/ /\ lastAssistant # "none" /\ ~WillRetry
          /\ retryAttempt' = IF lastAssistant \in {"error", "full"} THEN 0 ELSE retryAttempt
          /\ CheckCompaction(c, lastAssistant)
          /\ UNCHANGED lastRole
    /\ UNCHANGED <<active, agent, queues, nextTurn, context, persisted, pendingBash,
                   connected, epochs, used, returned>>

(* The backoff of a retry elapses. *)
SleepEnds(c) ==
    /\ At(c, "sleep")
    /\ Goto(c, "again")
    /\ UNCHANGED <<active, agent, queues, shown, nextTurn, log, pendingBash, connected,
                   retry, epochs, used, returned>>

(* The backoff was aborted: the error goes on as one that is not retried. *)
SleepCancelled(c) ==
    /\ At(c, "cancelled")
    /\ retryAttempt' = 0
    /\ CheckCompaction(c, "error")
    /\ UNCHANGED <<active, agent, queues, nextTurn, log, pendingBash, connected,
                   lastAssistant, epochs, used, returned>>

(* _runAutoCompaction() ends: the context is rebuilt from the session, by a *)
(* summary or by the fallback that keeps a tail, or stays.                  *)
Compacted(c, how) ==
    /\ context' = IF how = "failed" THEN context ELSE persisted
    /\ lastRole' = IF how = "summary" /\ call[c].willRetry /\ lastRole = "error"
                   THEN "user" ELSE lastRole
    /\ UNCHANGED persisted

Continues(c, how) ==
    \/ how = "summary" /\ (call[c].willRetry \/ HasQueued)
    \/ how = "fallback" /\ HasQueued

PreflightCompactionEnds(c, how) ==
    /\ At(c, "preflight")
    /\ Compacted(c, how)
    /\ IF Continues(c, how)
       THEN Goto(c, "again") /\ UNCHANGED nextTurn
       ELSE EnterBefore(c, call[c].msgs)
    /\ UNCHANGED <<active, agent, queues, shown, pendingBash, connected, retry, epochs, used,
                   returned>>

AutoCompactionEnds(c, how) ==
    /\ At(c, "compact")
    /\ Compacted(c, how)
    /\ IF Continues(c, how)
       THEN Goto(c, "again") /\ UNCHANGED shownSteering
       ELSE AfterNoCompaction(c)
    /\ UNCHANGED <<active, agent, queues, shownFollowUps, nextTurn, pendingBash, connected,
                   retry, epochs, used, returned>>

(* agent.continue() throws: it runs already, or has nothing to answer. *)
CannotContinue ==
    run # "none" \/ (lastRole \in {"assistant", "error"} /\ ~HasQueued)

(* agent.continue(): after an assistant message it starts from a queue, *)
(* otherwise from the transcript.                                       *)
ContinueAgent(c) ==
    /\ At(c, "again") /\ ~CannotContinue
    /\ Goto(c, "run")
    /\ \/ /\ lastRole \notin {"assistant", "error"}
          /\ StartRun(c, <<>>)
          /\ UNCHANGED queues
       \/ /\ lastRole \in {"assistant", "error"} /\ steering # <<>>
          /\ StartRun(c, <<Head(steering)>>)
          /\ steering' = Tail(steering) /\ UNCHANGED followUps
       \/ /\ lastRole \in {"assistant", "error"} /\ steering = <<>>
          /\ StartRun(c, <<Head(followUps)>>)
          /\ followUps' = Tail(followUps) /\ UNCHANGED steering
    /\ UNCHANGED <<active, shown, nextTurn, log, pendingBash, connected, retry, epochs, used,
                   returned>>

(* The preflight's loop ends, normally or by a throw that rejects prompt(). *)
PreflightEnds(c) ==
    /\ call[c].pre
    /\ Flush
    /\ \/ /\ At(c, "finish")
          /\ EnterBefore(c, call[c].msgs)
          /\ UNCHANGED returned
       \/ /\ At(c, "again") /\ CannotContinue
          /\ call' = [call EXCEPT ![c] = Ready]
          /\ returned' = returned \cup {Head(call[c].msgs)}
          /\ UNCHANGED nextTurn
    /\ UNCHANGED <<active, agent, queues, shown, connected, retry, epochs, used>>

(* _runAgentPrompt()'s finally: results of shell commands are flushed, and  *)
(* the session is idle while agent_settled's handlers run.                  *)
Settle(c) ==
    /\ ~call[c].pre
    /\ At(c, "finish") \/ (At(c, "again") /\ CannotContinue)
    /\ Flush
    /\ active' = FALSE
    /\ Goto(c, "settling")
    /\ UNCHANGED <<agent, queues, shown, nextTurn, connected, retry, epochs, used, returned>>

(* Mutant: nobody is told. *)
ReleasedNever(c) == call[c]

(* Whoever waits for the session to be idle goes on, if it still is. *)
Released(c) ==
    CASE active -> call[c]
      [] At(c, "waiting") -> Ready
      [] At(c, "stopping") -> [Ready EXCEPT !.at = "compacting"]
      [] OTHER -> call[c]

Settled(c) ==
    /\ At(c, "settling")
    /\ call' = [x \in Callers |-> IF x = c THEN Ready ELSE Released(x)]
    /\ UNCHANGED <<active, agent, queues, shown, nextTurn, log, pendingBash, connected, retry,
                   epochs, used, returned>>

-----------------------------------------------------------------------------
(* abort() and compact()                                                   *)

(* Mutant: the turn keeps its token. *)
InterruptEpochOnly == interrupted' = interrupted \cup {epoch} /\ UNCHANGED <<epoch, token>>

(* abort() interrupts the epoch and drops the turn's token. *)
InterruptEpoch == interrupted' = interrupted \cup {epoch} /\ token' = 0 /\ UNCHANGED epoch

(* What abort() does before it waits: c waits at w, or goes on to p. *)
AbortThen(c, w, p) ==
    /\ InterruptEpoch
    /\ signal' = (signal \/ run # "none")
    /\ call' = [x \in Callers |->
                   IF x = c THEN [Ready EXCEPT !.at = IF active THEN w ELSE p]
                   ELSE IF At(x, "sleep") THEN [call[x] EXCEPT !.at = "cancelled"]
                   ELSE call[x]]
    /\ UNCHANGED <<run, owner, pending, calling, runs>>

Abort(c) ==
    /\ At(c, "ready")
    /\ AbortThen(c, "waiting", "ready")
    /\ UNCHANGED <<active, queues, shown, nextTurn, log, pendingBash, connected, retry, used,
                   returned>>

(* compact(): events are cut off first, then the run is aborted. *)
Compact(c) ==
    /\ ManualCompaction
    /\ At(c, "ready")
    /\ \A x \in Callers : ~At(x, "stopping") /\ ~At(x, "compacting")
    /\ connected' = FALSE
    /\ AbortThen(c, "stopping", "compacting")
    /\ UNCHANGED <<active, queues, shown, nextTurn, log, pendingBash, retry, used, returned>>

CompactEnds(c) ==
    /\ At(c, "compacting")
    /\ connected' = TRUE
    /\ context' \in {context, persisted}
    /\ call' = [call EXCEPT ![c] = Ready]
    /\ UNCHANGED <<active, agent, queues, shown, nextTurn, persisted, lastRole, pendingBash,
                   retry, epochs, used, returned>>

-----------------------------------------------------------------------------
Compactions == {"summary", "fallback", "failed"}

Client(c) ==
    \/ \E m \in Msgs : Prompt(c, m)
    \/ Abort(c)
    \/ Compact(c)

Inputs ==
    \/ \E m \in Msgs : Steer(m) \/ FollowUp(m) \/ NextTurn(m)
    \/ \E b \in Bashes : RecordBash(b)
    \/ ClearQueue

(* The agent's own steps. *)
Agent ==
    \/ Drain \/ EmitMessage \/ CallTools \/ ToolsAnswered \/ RunFinishes
    \/ \E outcome \in Outcomes : RunEnds(outcome)

(* The steps that resume a caller whose await is over. *)
Resume(c) ==
    \/ RunAgentPrompt(c) \/ PostRun(c) \/ SleepEnds(c) \/ SleepCancelled(c)
    \/ ContinueAgent(c) \/ PreflightEnds(c) \/ Settle(c) \/ Settled(c)
    \/ CompactEnds(c)
    \/ \E how \in Compactions : PreflightCompactionEnds(c, how) \/ AutoCompactionEnds(c, how)

Next == Inputs \/ Agent \/ \E c \in Callers : Client(c) \/ Resume(c)

Spec == Init /\ [][Next]_vars

(* The provider and the tools answer, listeners and handlers return, timers *)
(* fire, and a compaction ends or is stopped by its timeout.                *)
FairSpec == Spec /\ WF_vars(Agent) /\ \A c \in Callers : WF_vars(Resume(c))

-----------------------------------------------------------------------------
(* Properties                                                              *)

(* Every variable has its type. *)
TypeOK ==
    /\ {active, signal, connected, overflowTried} \subseteq BOOLEAN
    /\ call \in [Callers -> [at : Places, pre : BOOLEAN, msgs : Seq(Msgs),
                             willRetry : BOOLEAN]]
    /\ run \in {"none", "running", "ending"} /\ owner \in Callers \cup {NoOne}
    /\ calling \in {"no", "open", "done"}
    /\ {pending, steering, followUps, shownSteering, shownFollowUps, nextTurn}
         \subseteq Seq(Msgs)
    /\ context \cup persisted \cup used \subseteq Msgs \cup Bashes
    /\ lastRole \in {"none", "user", "assistant", "error"}
    /\ pendingBash \subseteq Bashes
    /\ lastAssistant \in Outcomes \cup {"none"}
    /\ retryAttempt \in 0..MaxRetries
    /\ {epoch, token, runs} \subseteq Nat /\ interrupted \subseteq 0..epoch
    /\ returned \subseteq Msgs

(* ctx.isIdle() "is false while Pi is processing an agent run, automatic    *)
(* retry, auto-compaction retry, or queued continuation": when _isAgentRun- *)
(* Active is false, nothing the session started is still going on.          *)
IdleMeansQuiet ==
    ~active => /\ run = "none"
               /\ \A c \in Callers : call[c].at \notin {"preflight", "compact", "sleep", "again"}

(* A message the session accepted is somewhere: saved in the session file,  *)
(* queued, in the hands of a run or of a prompt, or given back to its       *)
(* sender.  So is the result of a shell command.                            *)
NoMessageLost ==
    used \subseteq persisted \cup pendingBash \cup returned
        \cup ToSet(steering) \cup ToSet(followUps) \cup ToSet(nextTurn) \cup ToSet(pending)
        \cup UNION {ToSet(call[c].msgs) : c \in Callers}

(* recordBashResult() defers "to avoid breaking tool_use/tool_result         *)
(* ordering": no shell result enters the context between the tool calls of   *)
(* a message and their results.                                              *)
BashKeepsCallsTogether ==
    [][calling = "open" => context' \cap Bashes = context \cap Bashes]_vars

(* A deferred shell result is not left behind: an idle session holds none,   *)
(* however its run ended and whoever ended it.                               *)
NoBashLeftBehind == ~active => pendingBash = {}

(* What is displayed as queued is still to be delivered: the display may     *)
(* forget a message (_handlePostAgentRun empties it) but never shows one     *)
(* the model has already seen.                                               *)
ShownIsPending ==
    ToSet(shownSteering) \cup ToSet(shownFollowUps)
        \subseteq ToSet(steering) \cup ToSet(followUps) \cup ToSet(pending)

(* checkEpoch() of the session's agent never finds its token stale: abort()  *)
(* drops the token in the very step that interrupts its epoch, and a new     *)
(* turn replaces it.  The leader's agent loop is one where epochs do not go  *)
(* stale (EpochCanGoStale = FALSE in AgentLoop).                             *)
EpochNeverStale == token # 0 => token = epoch /\ token \notin interrupted

(* abort() is to "abort current operation": after a run that was aborted the *)
(* agent starts again only for a caller that prompts, never by itself.       *)
AbortEndsTheOperation ==
    [][run = "none" /\ signal /\ run' = "running" => \E c \in Callers : At(c, "before")]_vars

(* Every call returns: prompt() through retries, compactions, continuations  *)
(* and other callers' aborts, abort() and compact() although the run they    *)
(* wait for may be settled by another caller's failing prompt().             *)
CallsReturn == \A c \in Callers : ~At(c, "ready") ~> At(c, "ready")

=============================================================================
