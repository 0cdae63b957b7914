# TLA+ models of piki

piki is a coding agent: a program that keeps a conversation with a language
model, lets the model call tools (shell, editing, search), and persists the
conversation so that it can be resumed, branched and compacted. Its state is
changed by the model's replies, by tools that end in any order, by workers that
run beside the leading agent, and by clients (the editor, the RPC mode,
extensions, an orchestrator daemon) that may call it at any moment. This
directory holds TLA+ modules of its core, the TLC configurations that check
them, and TLAPS proofs of what matters most.

Paths below are relative to `src/packages/`; line numbers are those of the
commit in `src/`. The exact lines each definition stands for are in
`PROJECT.json`, under `map`.

| Module | What it is | Checked by | Proved in |
| --- | --- | --- | --- |
| `MessageDelivery` | what an agent promises about messages, without queues, turns or tools | as a property of `AgentLoop` | `AgentLoopDelivery` (`AgentDelivers`) |
| `AgentLoop` | `agent/src/agent.ts` and `agent/src/agent-loop.ts` | `MCAgentLoop`, `AgentLoop_*.cfg` | `AgentLoopProofs`, `AgentLoopDelivery` |
| `AgentSession` | `coding-agent/src/core/agent-session.ts` over an abstract agent | `MCAgentSession`, `AgentSession_*.cfg` | `AgentSessionProofs` |
| `Workers` | fork runtime, event queue, worker executor, effect runtime and worker sessions of `coding-agent/src/core`, with the event sink and roles of `event-core` | `MCWorkers`, `Workers*.cfg` | `WorkersProofs` |
| `SessionTree` | `coding-agent/src/core/session-manager.ts`, with the cut point of `compaction/compaction.ts` and the fork of `agent-session-runtime.ts` | `MCSessionTree`, `SessionTree*.cfg` | `SessionTreePaths`, `SessionTreeProofs`, `SessionTreeMemory` |
| `Supervisor` | the daemon of `orchestrator/src`, with Radius as an external service | `MCSupervisor`, `Supervisor*.cfg` | `SupervisorProofs` |

## 1. Inventory

The repository is a monorepo. Its core logic is the agent loop, the session
built on it, the event-driven worker system (`/fork`), the orchestrator daemon,
and the storage of sessions. The rest is rendering, provider wire formats,
configuration and pure text processing.

### Agent and agent loop (`agent/src/agent.ts`, `agent-loop.ts`)
- **State**: the transcript, streaming message and pending tool calls
  (`AgentState`), the steering and follow-up queues with their modes, the active
  run (promise, abort controller); inside a run: the loop's own copy of the
  context, the list of new messages, pending messages, the tool batch.
- **Operations**: `prompt`, `continue`, `steer`, `followUp`, clearing the queues,
  `abort`, `waitForIdle`; the loop's turn (poll, inject, stream, decide, tools,
  end of turn, polls again), and the failure path of `runWithLifecycle`.
- **Interaction**: the model provider streams a reply; hooks (`beforeToolCall`,
  `afterToolCall`, `prepareNextTurn`, `checkEpoch`) and listeners are awaited, so
  every emission is a point where callers run.
- **Hard**: polls against callers that queue; parallel tools with preflights and
  an abort in between; listeners that throw; epochs that go stale between a
  drain and its use; resumption after a failed reply.
- **Correct when**: no message is lost, duplicated or reordered; the model is
  asked with the transcript, in a shape providers accept; every call is answered
  once; every run settles.

### Leader session (`coding-agent/src/core/agent-session.ts`)
- **State**: whether a run is active, the displayed mirrors of the two queues,
  messages for the next turn, deferred shell results, the last assistant message
  and the retry and overflow counters, the turn's epoch token, abort controllers
  for retry and compaction, the subscription to the agent, the session file.
- **Operations**: `prompt` with its preflight, `_runAgentPrompt`,
  `_handlePostAgentRun`, `_prepareRetry`, `_checkCompaction` and
  `_runAutoCompaction`, `steer`, `followUp`, `sendCustomMessage`, `clearQueue`,
  `recordBashResult`, `abort`, `compact`, `waitForIdle`, tree navigation.
- **Interaction**: subscribes to the agent's events and appends to the session
  manager; tells extensions; its callers share one agent.
- **Hard**: two callers in each other's awaits; abort during backoff or
  compaction; compaction that rebuilds the context under a run.
- **Correct when**: what was accepted is saved or given back, "idle" is true,
  shell results keep out of open tool calls, every call returns.

### Worker sessions and executor (`worker-session.ts`, `worker-executor.ts`, `worker-effect-runtime.ts`, `worker-lifecycle-registry.ts`)
- **State**: the registered sessions, the sets of finalised and intentionally
  killed workers, a bounded message queue and a fiber per worker, a lifecycle
  status per worker; in a session, its agent with a steering queue.
- **Operations**: `onAgentCreated`, `onWorkerMessaged`, `onWorkerKilled`,
  `finalizeWorker`, `cleanupWorker`, `publishTerminalSpawnFailure`;
  `offerMessage`, `drainMessages`, `killSession`, `removeWorker`;
  `deliverMessage`, `runLoop`, `finish`.
- **Interaction**: a role of the event core: it handles events of the leader's
  tool calls and publishes events itself; it tells the leader of a worker's end.
- **Hard**: a kill before the session is registered, a message before, during
  and after the start, a queue at its limit, an end that is noticed twice.
- **Correct when**: a killed worker stops, the end of a worker is told once, a
  message goes to a live worker, once, and nothing waits for ever.

### Fork runtime and session orchestrator (`fork-runtime.ts`, `session-orchestrator.ts`)
- **State**: task assignees, fork ids by worker, the mutation semaphore, the
  event queue.
- **Operations**: `spawnWorker`, `messageWorker`, `killWorker`,
  `reassignWorker`, the queue's consumer, the task-dispatcher role.
- **Hard**: facts read before the semaphore and used under it.
- **Correct when**: a task has at most one worker, and its owner is the one the
  published events name.

### Event core (`event-core/src`)
- **State**: a publish chain, projections, the appended log, interrupts by fork.
- **Operations**: publish (apply, append, signals, roles), hydrate.
- **Hard**: an append that fails after the projection was applied; roles that are
  not awaited while the next event is published.
- **Correct when**: a role handles the events of one key in the log's order.

### Session storage (`session-manager.ts`)
- **State**: entries forming a tree, in memory and as lines of a JSONL file; the
  leaf and the labels; a sidecar with the leaf.
- **Operations**: append, label, branch, reset or summarise a branch, open,
  fork, build the context, compaction entries.
- **Hard**: a write that fails half way, a crash between the append and the
  sidecar, forks that drop entries others refer to, a compaction whose summary
  is awaited while the leaf moves.
- **Correct when**: damage stays local, a restart resumes where the user was, and
  the model is asked with every message of the branch, itself or summarised.

### Orchestrator (`orchestrator/src`)
- **State**: live instances with child processes and their resources,
  `instances.json`, Radius registrations, heartbeats.
- **Operations**: spawn, stop, rpc, child exit, heartbeat and re-registration,
  shutdown, recovery at start.
- **Interaction**: requests on a socket, one per connection; JSON lines to and
  from each child; HTTP to Radius.
- **Hard**: a child that exits, or a stop, during a spawn; a registration in
  flight while a record is removed; Radius errors half way; a restart.
- **Correct when**: a record that says online has a live child, every child that
  lives has an owner, every request is answered.

### The others
Agent harness and turn harness (`agent/src/harness`, `harness/src/turn`), session
hosting (`agent-session-runtime.ts`: replaces the session of a client), permissions
and shell classification (a decision per command), providers (`ai`), credentials
and settings (locked read-modify-write of small files), snapshots and shadow VCS,
detached processes (a kill timer per process), extensions (user code in hooks),
terminal interface and modes, skills, roles, logging. `PROJECT.json` says of
each why it is or is not modelled.

## 2. Plan

Most important behaviour first; each step is a module, its runs, its proofs.

1. **`AgentLoop`, `MessageDelivery`** - done. Everything else runs on it.
2. **`AgentSession`** - its core is done. Left: `sendCustomMessage`'s immediate
   forms, aborts by tool validation, the payload guard (2068-2081), several manual
   compactions sharing one controller, `agent_end` as extensions see it.
3. **`Workers`** - done for spawn, message, kill, reassign and the life of a
   worker; the event sink and the roles are part of it. Left: yields, goals and
   escalations, and dispose() of the orchestrator, which shuts the queue under
   publications that wait.
4. **`Supervisor`** - done.
5. **`SessionTree`** - done.
6. Left, in this order: the pending-write queue of the agent harness; the
   replacement of a running session by `agent-session-runtime.ts`; cancellation
   and retries inside a worker.

Every invariant and step property of the passing runs, and the refinement of
`MessageDelivery`, is a theorem (section 5). Worth proving next: `MessageKept`'s
counterpart for order (the messages to one worker are read in the order they were
published), which no run checks yet; and the theorems of the modules still to come.

## 3. How the models correspond to the code

The code runs on one JavaScript thread. A step is what runs between two
`await`s: nothing else can happen inside it, everything may happen after it.

### AgentLoop

`phase` is the place where the loop awaits; the phases follow `runLoop`
(`agent-loop.ts:155-311`) and `executeToolCalls*` (`agent-loop.ts:587-778`).

| Action | Code |
| --- | --- |
| `Steer`, `FollowUp`, `ClearAllQueues`, `Abort` | the queue and abort methods of `Agent` |
| `Interrupt` | `checkEpoch` starts to answer false |
| `DropLastAssistant` | the session removes a failed reply before it retries |
| `Prompt`, `ContinueWith*`, `ContinueTranscript` | `prompt()`, the branches of `continue()` |
| `EmitPrompt`, `InitialPoll`, `InjectPending`, `OpenStream` | the head of a run and of a turn |
| `StreamEnds`, `Decide` | the reply, what its stop reason and epoch lead to |
| `FailTruncatedCall`, `BeginCall`, `RejectCall`, `AcceptCall`, `CheckAbort` | preflight of one call, sequential or parallel |
| `SequentialToolEnds`, `ParallelToolEnds`, `ToolsSettled`, `EmitResult`, `BatchEnds` | execution and results |
| `EndTurn`, `DrainSteering`, `OuterSteering`, `OuterFollowUp` | `turn_end`, the polls |
| `Throw`, `ThrowFromTool`, `HandleRunFailure`, `StrayToolEnds` | a listener or hook throws; `handleRunFailure`; tools left running |
| `FinishRun` | listeners of `agent_end` done, `finishRun` |

A message is its identity, an assistant message its stop reason, number of calls
and turn, a result the call it answers. The transcript (`Agent.state.messages`)
and the loop's own `context` are separate variables, because the code keeps
them separately and several properties say how they relate. Six variables
(`prompted`, `steered`, `followed`, `withdrawn`, `owed`, `runStart`) only
remember history for the properties.

Details that surprised us and are in the model: parallel tools accepted before
an abort still start, with an aborted signal (`agent-loop.ts:711-717`); when a
listener rejects, the other tools of the batch run on after the run has ended
(`StrayToolEnds`); steering drained just before the epoch is found stale is gone
(`agent-loop.ts:294-303`). Calls left unanswered by an abort are repaired when
the next request is built (`ai/src/api/transform-messages.ts:158-220`), which is
why `CallsAnswered` speaks of the current, unaborted run.

### MessageDelivery

A message is with its caller, waiting, in the hand of the run, delivered, or
withdrawn. `AgentLoop` implements it under the mapping `Place`: `busy` is "there
is an active run", and each action of the loop is a `Queue`, `Withdraw`, `Begin`,
`TakeUp`, `Deliver`, `Settle`, or a stutter. That the run delivers what it has in
hand follows from `RunSettles`, since it settles with empty hands only.

### AgentSession

The agent is abstracted to what the session sees of a run: it drains the queues
(`Drain`), emits messages (`EmitMessage`), calls tools and answers them, and ends
with one of four outcomes. `call` maps each client to where its call waits:

| `at` | the call awaits |
| --- | --- |
| `preflight` | `prompt()`'s own compaction, before the session is active |
| `before` | extension handlers of `before_agent_start` |
| `run` | the agent's promise |
| `post` | nothing: `_handlePostAgentRun` is next |
| `sleep`, `cancelled` | the backoff of a retry, or its abort |
| `compact` | `_runAutoCompaction` |
| `again` | nothing: `agent.continue()` is next |
| `finish`, `settling` | the clean-up of `_runAgentPrompt`, handlers of `agent_settled` |
| `waiting`, `stopping`, `compacting` | `waitForIdle` of `abort()` or `compact()`; the summary |

`context` is what `agent.state.messages` holds or a summary in it covers,
`persisted` what the session file holds; a compaction sets the first to the
second, as rebuilding the context from the session does. `epoch`, `interrupted`
and `token` are `EpochInterruptCoordinator` and `_turnEpochToken`.

### Workers

Three threads of control meet: the leader's tool calls, which run in parallel
(`calls`, each with where it waits); the consumer of the event queue, which
publishes one event at a time (`queue`); and the roles, which handle the events
of one concurrency key in order (`forkChain`, `msgChain`, `dispatch`).

| Action | Code |
| --- | --- |
| `SpawnWorker`, `MessageWorker`, `KillWorker`, `ReassignWorker` | the tools of `role-control-tool.ts`, up to the first await in `ForkRuntime` |
| `Acquire` | `withMutation`: the call gets the permit and publishes its first event |
| `AgentCreated`, `Killed`, `TaskAssigned`, `WorkerMessaged`, `Confirmed` | the consumer publishes an event of a call; what awaits it goes on in the same step |
| `ForkCleaned`, `FailurePublished` | the same for the executor's own events |
| `AppendFails` | `store.append` rejects: no role runs, the publisher gets the error |
| `CreationBegins`, `SpawnFails`, `StartSession` | `onAgentCreated` |
| `KillBegins`, `KillSession` | `onWorkerKilled`; the fiber's observer finalises the worker |
| `OnWorkerMessaged`, `DrainMessages` | a message goes to the session or to the mailbox, and from the mailbox to the session |
| `Dispatch` | the task-dispatcher role messages a new assignee |
| `Consume`, `LoopEnds` | the worker's agent reads its steering queue; `finish()` |

Worker ids stand for agent ids and fork ids, as each agent id is spawned once.
The semaphore is not first-in first-out in the model: any waiting call may get
the permit. `worker_finished` and `worker_error`, which no role of the model
matches, are counted in `told` instead of being queued. An agent's run is
`Consume` steps and an end; the turn limit is one of the ways to end. Of the
messages only the number of the call that sent them is kept, so that a copy can
be told from another message.

### Supervisor

`request` maps each request on the socket, and the stop that `shutdown()` awaits
(handler 0), to where it waits: for the child (`get_state`, `rpc`, `sync`), for
Radius (`register`, `disconnect`), for the child's exit (`dispose`). A promise
that settled runs its continuation before the next I/O event: while a request is
at one of the places in `Micro`, only continuations may run (`Quiet`).

| Action | Code |
| --- | --- |
| `Spawn`, `GotState`, `Registered`, `RegisterFails`, `SpawnLost` | `spawnInstance` and its `failSpawn` |
| `Stop`, `Disconnected`, `Finish` | `stopInstance`, `cleanupAcquiredResources`, `dispose`, and the `finally` blocks |
| `HandleRpc`, `GotResponse`, `Synced`, `RpcLost` | `handleRpc`, with the synchronisation of the record after a command that may change the session |
| `ChildAnswers`, `ChildExits`, `ExitDisconnected` | the child's lines and its exit, `handleUnexpectedRpcExit` |
| `Signal`, `ShutdownNext`, `ShutdownEnds` | `serve.ts`'s `shutdown`, `supervisor.shutdown`, `radiusPresence.stop` |
| `Crash`, `RecoverAfterRestart`, `RecoverNext` | the daemon dies, perhaps while it writes the file; the next start |
| `HeartbeatMissed`, `ReRegistered`, `MachineForgotten`, `MachineNext` | `RadiusPresence` on 404 answers |
| `RadiusForgets` | external: a presence expires at Radius |

A record is its status and its Pi (the registration at Radius). `record` is
`live.record`, which a handler keeps after the entry was deleted, `file` is
`instances.json`. Children read end of file and exit when the daemon dies. A
stream opened while an instance was live keeps its process, hence the guard of
`HandleRpc`. One unanswered heartbeat is followed only where it matters: when
`disconnectPi` deletes the state it was posted for (`beats`). Radius is always
enabled. `late`, `leaked`, `lost` and `owner` are history.

### SessionTree

Every operation of `SessionManager` is synchronous, so it is one step with the
outcome of its two writes as a choice: both done; the sidecar not written; the
append throws with nothing written, with a part of the line, or with all of it
but its newline. A crash between the two writes is the step in which the second
fails, followed by `Crash`.

| Action | Code |
| --- | --- |
| `AppendMessage`, `AppendLabelChange` | `_appendEntry` with `_persist` under the append methods |
| `Branch`, `ResetLeaf`, `BranchWithSummary` | the three moves of `navigateTree` |
| `PrepareCompaction`, `AppendCompaction`, `CompactionFails` | `compact` and `_runAutoCompaction`: the branch is read, the summary awaited, the entry appended |
| `Fork` | `/fork` and `/clone`: `createBranchedSession` on the file opened anew |
| `Crash`, `Restart`, `ForkFrom` | the process ends; `setSessionFile`; a copy of the file under a new name |

Ids are numbers in the order of creation, so parents are smaller. Messages stand
for every entry the model reads, tool results included; names, settings and
extension entries behave as labels do: the model does not read them and the cut
point moves over them. Any cut point may be chosen, since token counts are
abstracted. `Path`, `Context`, `FirstKept`, `Summarised` and `Rechained` are the
code's functions on the tree.

## 4. What each run checks

The runs need between ten seconds and two minutes with two workers.

| Run | Question | Answer |
| --- | --- | --- |
| `agentloop_delivery` | do messages and tool batches of an agent behave, in every interleaving with its callers, and does it implement `MessageDelivery`? | yes |
| `agentloop_hostile` | what survives a listener or hook that throws anywhere, and an epoch that goes stale at any time? | no duplicate, no malformed request, a true report, every run settles |
| `session_runs` | one prompting client, one that queues, aborts and runs shell commands | nothing lost, idle is quiet, shell results keep out of calls, the display is honest |
| `session_all` | two prompting clients, manual and preflight compactions, cleared queues | every call returns, the token stays current, no shell result stays deferred |
| `session_compact` | is a message saved when `compact()` interrupts its run? | no (finding 1) |
| `session_clear` | does `clearQueue()` return all it removes? | no (finding 2) |
| `workers` | parallel spawn, message, kill and reassign calls, an append that fails, sessions that start, fail, end and are killed | no message lost or doubled on its way, no kill lost, ends told once, everything settles |
| `workers_task` | can two workers own one task? | yes (finding 3) |
| `supervisor` | spawn, stop, rpc and shutdown against child exits, Radius, heartbeats, a crash and a restart | children are owned, the file is true, every request is answered, but for the races the properties name |
| `supervisor_shutdown` | does a signal end the daemon? | no, if Radius fails meanwhile (finding 4) |
| `tree` | half-written lines, unsaved sidecars, crashes, forks, moves during a compaction, repeated compactions | damage stays local, no branch is cut off, nothing falls out of the context, leaf and labels survive |
| `tree_clone` | does a clone keep the context? | no, if its last compaction kept from a label (finding 5) |

Six more configurations lie beside the runs. They show what the code does where
a checked property would not hold, and are described under the findings:
`AgentLoop_recovery.cfg`, `AgentLoop_throw.cfg`, `AgentSession_idle.cfg`,
`AgentSession_abort.cfg`, `Workers_stranded.cfg` and `SessionTree_moves.cfg`.

Properties worth a word:

- `DeliveredOnce` holds even with faults; `NoMessageLost` of the loop does not:
  a throw or a stale epoch drops what the run has in hand. This is what the code
  does, and why the run for it has `MaxFaults = 0` and `EpochCanGoStale = FALSE`.
  In a leader session the second hypothesis is a theorem (`TokenStaysCurrent`).
- `NoCallPendingAtTurnEnd` is about the agent's state (`pendingToolCalls`). After a
  listener's failure the code leaves tools running that are not in it any more.
- `IdleMeansQuiet` and the session's `NoMessageLost` are checked with one
  prompting client and without the features that break them.
- `ShownIsPending` goes one way: the display may forget a queued message (that is
  finding 2) but shows none that the model has seen.
- `MessageKept` follows each message of the log to the worker's agent: exactly
  one copy on the way until it is read or the worker is over, none after that
  twice. `EndsOnce` is about three ways to notice one end. `KillTakesHold` is
  what the executor's concurrency keys are for: with a key of its own a kill
  would pass the creation it must follow (the property's mutant).
- `NoOrphan`, `NoGhost`, `FileAgrees` and `NoLeakedPi` name the exceptions the
  code has (`leaked`, `late`, `lost`) instead of excluding the races that cause
  them: the races run, and what they do not touch stays true.
- `DamageBounded` counts entries that a reader of the file does not find; a torn
  line costs itself and the next one, which is glued to it. That the next one is a
  valid entry is worth knowing: a test (`coding-agent/test/s7-session-parity.test.ts:41`)
  says the manager "skips a malformed line and keeps valid entries".
- `NothingForgottenWhereKept` needs its condition: a branch that lacks the entry
  a compaction kept from forgets (`SessionTree_moves.cfg`, `tree_clone`).

### Bounds

- **Messages**: three in `agentloop_delivery`, `session_runs`: two in a queue
  (order) and one to start the run. Two where liveness is checked without
  symmetry. Symmetry permutes messages only, and only in runs without liveness
  properties (`ImplementsDelivery` and `BashKeepsCallsTogether` are properties of
  single steps and treat messages alike).
- **`MaxCalls = 2`** (`AgentLoop`): two calls are needed for a batch that is partly
  rejected, partly executed, and for results in another order than the calls.
- **`MaxRequests`**: after so many replies no reply calls tools, and no run
  resumes without a new message; 2 gives a tool turn, a turn after it, a retry.
- **`MaxFaults = 1`**: one throw, one failed append, one crash or Radius error, one
  failed write, anywhere. A second throw while the first is being reported
  escapes the run in the code and is not modelled.
- **`MaxRuns`, `MaxRetries`**: a provider that fails for ever is retried at most
  `MaxRetries` times per prompt; failing stops once `MaxRuns` runs began, so that
  the state space is finite. Two or three runs give a retry, a continuation
  after it, and a second prompt. One tool batch per run of the abstract agent and
  one manual compaction at a time (`AgentSession`).
- **`Workers`**: two workers and one task give the contest for a task; three calls,
  of which a failed append takes one, give a spawn with a message and a kill, or
  two spawns and a reassignment. The mailbox holds one message, so that the second
  one waits; its real limit of 100 differs in nothing else.
- **`Supervisor`**: two instances, one live at a time, two requests, two
  registrations, one missed heartbeat before registering again: enough for each
  race between two requests, between a request and the child's exit, between a
  restart and a spawn. Two live instances and three requests were checked once
  (some three million states) with the same answers.
- **`SessionTree`**: entry ids up to 6, less one for each fault, move and fork. Six
  entries are the least that show a second compaction starting in the wrong
  place (its mutant), four a compaction that keeps a label. `MaxLabels` counts the
  entries that set a label; clearing it is free.

The queue modes differ between the runs of `AgentLoop`, so that draining one
message and draining all is covered for both queues.

`CHECK_DEADLOCK FALSE` appears where the system may stop: an idle agent whose
callers have no message left, workers that are cleaned up, a session tree or a
daemon that reached a bound. A session can always be aborted.

### Fairness

`AgentLoop`: `WF_vars(Loop)`. The event loop runs whatever continuation is ready,
a request to the model ends (answer, error, or abort of its signal) and a tool
settles. Callers and faults are never forced.

`AgentSession`: `WF_vars(Agent)` as above, and for each caller `WF_vars(Resume(c))`:
listeners and handlers return, the retry timer fires, a compaction ends or is
stopped by its timeout (`COMPACTION_TIMEOUT` in `agent-session.ts`).

`Workers`: the semaphore grants each waiting call its turn, the queue's consumer
publishes, each role handles its events, a drain loop takes its messages, an
agent reads its queue and ends, which the turn limit sees to. The leader's calls,
failures of a set-up and of the store are not forced.

`Supervisor`: continuations run, a request to Radius is answered or fails, a child
answers or exits, and one that was sent SIGTERM exits (SIGKILL follows after five
seconds, `rpc-process.ts:201`). Nothing is assumed of clients, heartbeats or the next
start. Two of these are assumptions about the environment and not about the code:
`radius.ts` sets no timeout on its `fetch`, and nothing limits how long a child takes
to answer `get_state`. `Answered` says that no request is forgotten; it says nothing
of a Radius or a child that keeps silent.

No strong fairness is used anywhere. `RunSettles`, `CallsReturn` and
`EverythingSettles` also rest on the bounds above: a model that calls tools for
ever keeps its run going for ever, in the code too.

## 5. What is proved

TLAPS checks every theorem for all values of the constants that satisfy the
modules' assumptions: any number of messages, callers, calls, workers, entries,
retries, requests, faults.

| Module | Theorem | Property | Hypotheses | Argument |
| --- | --- | --- | --- | --- |
| `AgentLoopProofs` | `TypeCorrect` | `TypeOK` | none | inductive; one lemma per group of actions |
| | `RequestsFollowMessages` | `NeverAskAfterAssistant` | none | `RequestInvariant` |
| | `RequestsCarryTranscript` | `AskWithTranscript` | recovery off | `ContextInvariant` |
| | `TurnsEndWithNoCallPending` | `NoCallPendingAtTurnEnd` | none | `BatchBounds`, `PendingCalls` |
| | `RequestsCarryResults` | `CallsAnswered` | none | `BatchBounds`, `BatchCounts`, `AnswersInvariant` |
| | `ReportsFollowTranscript` | `EndReportsTranscript` | recovery off | `ReportInvariant` |
| `AgentLoopDelivery` | `DeliveryOnce` | `DeliveredOnce` | none | `DeliveryInvariant` |
| | `NothingLost` | `NoMessageLost` | steady | `HandsInvariant` |
| | `SteeringComesFirst` | `SteeringBeforeFollowUp` | none | `QueuesInvariant`, `OwedInvariant` |
| | `QueuesKeepOrder` | `QueuesAreFIFO` | steady | `OrderInvariant` |
| | `AgentDelivers` | `ImplementsDelivery` | steady | `Placement`, then each step maps to a step or a stutter |
| `AgentSessionProofs` | `TypeCorrect` | `TypeOK` | none | `Typed` |
| | `TokenStaysCurrent` | `EpochNeverStale` | none | `Epochs` |
| | `BashFlushed` | `NoBashLeftBehind` | none | inductive once the steps that touch it are named (`BashStep`) |
| | `DisplayIsTrue` | `ShownIsPending` | no `compact()` | `Displayed` |
| | `MessagesAreKept` | `NoMessageLost` | one prompter, no `compact()`, no `clearQueue()` | `Hands`, `Bystanders`, `Kept` |
| | `IdleIsQuiet` | `IdleMeansQuiet` | one prompter, no preflight compaction | `Driven` |
| | `CallsStayTogether` | `BashKeepsCallsTogether` | one prompter, no preflight compaction | `SameResults`, `Driven` |
| `WorkersProofs` | `TypeCorrect` | `TypeOK` | none | `Typed`, `Handlers` |
| | `BindingsFollowEvents` | `BindingFollowsEvents` | none | `Ordered`, `OwnersFollow` |
| | `RunningStaysRegistered` | `RunningIsRegistered` | none | `Ordered`, `Lives` |
| | `KillsTakeHold` | `KillTakesHold` | none | `Ordered`, `Lives`, `KillsHeld` |
| | `EveryEndIsToldOnce` | `EndsOnce` | none | `Ordered`, `Lives`, `EndsKnown` |
| | `MessagesReachTheAgent` | `MessageKept` | none | `Ordered`, `Lives`, `SentOnce`, `MailKept` |
| `SessionTreeProofs` | `TypeCorrect` | `TypeOK` | none | `Typed`, which adds that every parent is an earlier entry |
| | `DamageStaysBounded` | `DamageBounded` | none | `DamagePaid` |
| | `CutsOnlyByDamage` | `CutOnlyByDamage` | none | `HeldTogether` |
| | `RestartsKeepLeaf` | `RestartKeepsLeaf` | none | `LeafSaved` |
| | `LabelsAlwaysSurvive` | `LabelsSurvive` | none | `LabelsKnown` |
| `SessionTreeMemory` | `CompactionForgetsNothing` | `NothingForgottenWhereKept` | none | `SummariesAnswer` |
| `SupervisorProofs` | `TypeCorrect` | `TypeOK` | none | `Typed` |
| | `ChildrenHaveOwners` | `NoOrphan` | none | `Children` |
| | `NobodyWaitsForTheDead` | `NoWaitOnDead` | none | `Children` |
| | `FileFollowsMemory` | `FileAgrees` | none | `Children`, `StatusesHold` |
| | `NobodyHaunts` | `NoGhost` | none | `Children`, `StatusesHold` |
| | `RegistrationsAreFound` | `NoLeakedPi` | none | `Children`, `StatusesHold`, `Registrations` |

The hypotheses switch a feature off or say how many callers there are, and without
them the property is false:

- *recovery off* is `TextCallRecovery = FALSE`: a call recovered from text changes
  the loop's context and not the transcript (finding 6, `AgentLoop_recovery.cfg`).
- *steady* is `MaxFaults = 0 /\ EpochCanGoStale = FALSE`: a listener that throws, or
  a stale epoch, drops what the run has in hand. For the leader the second half is a
  theorem of its own: `TokenStaysCurrent` says that its token is never stale. Workers
  have their own epochs.
- *no `compact()`* (`ManualCompaction = FALSE`) and *no `clearQueue()`*
  (`QueueClearing = FALSE`) exclude findings 1 and 2, which `session_compact` and
  `session_clear` show with every other hypothesis in place.
- *no preflight compaction* (`PreflightCompaction = FALSE`) excludes finding 8
  (`AgentSession_idle.cfg`).
- *one prompter* (`\A c, d \in Prompters : c = d`): any number of other callers may
  queue, clear, abort, run shell commands and wait. With two prompters `session_runs`
  fails for all three properties: a prompt that finds the agent running is refused, its
  clean-up unmarks the session under the run of the other, and the next-turn messages
  it had taken (`agent-session.ts:2017-2020`) are gone.

Why the properties need strengthening:

- `NeverAskAfterAssistant` speaks of the phase `streaming` only. What makes it
  true is decided earlier: a batch answers at least one call
  (`BatchAnswers`), so a turn that has more to do leaves a context the model can
  be asked with, and a turn without tools goes on only with messages in hand.
  `RequestInvariant` says this phase by phase.
- `AskWithTranscript` needs to know how far the loop's context and the agent's
  transcript are apart in every phase: by the prompts still to emit, by the
  results of the batch, or not at all. That is `ContextInvariant`. The
  hypothesis is needed because recovery from text changes only one of the two.
- `DeliveredOnce` needs that whatever is anywhere was handed over by a caller,
  so that a new message is in no other place.
- `NoMessageLost` needs that a run polls only with empty hands
  (`HandsInvariant`): otherwise a poll would overwrite what it holds.
- `EpochNeverStale` needs that interrupted epochs are at most the current one
  (`interrupted \subseteq 0..epoch`), so the next turn's number is fresh.
- `NoCallPendingAtTurnEnd` needs that a pending call is one of the current batch
  whose tool runs, or the one in preparation (`PendingCalls`), and how far a batch is
  in each phase (`BatchBounds`). It holds with faults: a tool that outlives its run
  (`StrayToolEnds`) is not pending in the agent's state any more.
- `CallsAnswered` needs to count: the results of a batch are those of its first
  calls, in order, and none is missing when it ends unaborted (`BatchCounts`); of the
  earlier replies each has its results, in the context and in the transcript, and the
  last has those emitted so far (`AnswersInvariant`).
- `EndReportsTranscript` is about `agent_end`. In each phase the new messages, with
  the results of the batch or without the prompts still to come, end the transcript
  (`ReportInvariant`).
- `SteeringBeforeFollowUp` and `QueuesAreFIFO` rest on a queue being the end of all
  that was ever put into it, and nothing being put twice (`QueuesInvariant`). What a
  follow-up must wait for has left the steering queue by the time follow-ups are
  polled (`OwedInvariant`); of two messages of a queue the later one is not in the
  transcript, or in hand, before the earlier one (`OrderInvariant`).
- `ImplementsDelivery` needs that each message is in exactly one place, a withdrawn
  one included (`Placement`), so that the refinement mapping is a partition.
- The session: a run belongs to the one caller that waits for it, holds no message
  once it has ended, and leaves no call open (`Owned`, part of `Typed`); `Handed` says
  which callers carry messages. A text is displayed once and only if it was sent, so
  the one removed when a message is emitted was the only one (`Displayed`). `Hands`
  and `Bystanders` say that with one prompter every caller with messages in its hands
  holds exactly its own, and the others only wait; then what was accepted is in the
  file, deferred, given back, queued or carried (`Kept`). The session is marked as
  active exactly while a caller drives a run or what follows it (`Driven`); context and
  file hold the same shell results, so a compaction moves none into an open call
  (`SameResults`).
- The workers' properties are about events that are still in a queue. `Handlers`
  says which event a waiting handler waits for; `EventsMatch` and `CallsInTurn`
  that each event in the queue belongs to a call that waits for it, that one
  mutation at a time has published, and that a worker is spawned once. On that
  rest `OwnersFollow` (the owner of a task differs from the published one only
  while the event that will say so is queued), `Lives` (a worker is created once,
  before anything else happens to it), `KillsHeld` (a kill stands behind the
  creation in its fork's chain, or has told the session) and `EndsKnown` (an end is
  told, and `fork_cleaned` queued, exactly when the worker is finalised or its
  set-up has failed).
- `MessageKept` counts copies. `SentOnce` says that the message of a call is in at
  most one place before its publication (`task.assigned`, the dispatcher's chain,
  `worker_messaged`) and in none after it, so a message is published to a worker once;
  `MailKept` that one which was published has one copy in chain, mailbox, steering
  queue and what was read, or the worker is over and it may have none, and one which
  was not has none. `Lives` is needed for the mailbox that `removeWorker()` drops:
  it belongs to a worker that is finalised, which has ended, or whose set-up failed.
- The supervisor: who deals with a child says what may be true of it. `Children` ties
  each place of a request to the state of its child, so that a child that lives is in
  the tables, or a handler disposes of it. `StatusesHold` says at every moment, not only
  between continuations, that the file follows memory, that an active record has a
  watched child, and that who lets go of an instance has recorded it first.
  `Registrations` says where the newest registration of an instance is while each
  kind of handler holds it; only then does a crash at any point leave it in the file.
- `DamageBounded` needs to count what the end of the file still owes: an open line
  can cost two entries later, a torn one costs one more
  (`Cardinality(Lost) + Owed <= 2 * tears`).
- `CutOnlyByDamage` is not inductive because a fork drops entries that others have
  as parents: `HeldTogether` adds that the log itself is connected.
- `RestartKeepsLeaf` needs that with an intact file the sidecar names the leaf, or
  the leaf is the last entry (`LeafSaved`); `LabelsSurvive` that the labels in
  memory are those the entries of the file give (`LabelsKnown`).
- `NothingForgottenWhereKept` speaks of the latest compaction of the current
  branch. `SummariesAnswer` says it of every compaction, on every set of ids that a
  later process may read from the file: what comes before the entry it kept from is
  in its summary, provided each compaction below finds its own kept entry.

`Path`, the way from an entry to the root, is a recursive function. What it
computes cannot be had from an induction theorem that takes an operator, so
`SessionTreePaths` argues from the least counterexample (`WFMin`): the equation of
`Path`, that a path holds every smaller path, that it depends only on the entries
it meets, and what it is in a chain.

Each strengthening was run through TLC as an invariant, under the bounds of the
runs above, before its proof was written.

Model-checked only: the liveness properties (`RunSettles`, `CallsReturn`,
`EverythingSettles`, `Answered`). Liveness under fairness, `ENABLED`, and induction
over data are out of the prover's reach. The findings are counterexamples of TLC.

## 6. Findings

Each of the first five is a run that TLC must find violated; the trace is the
scenario.

1. **A message lost by `compact()`** (`agent-session.ts:2693`). Events are cut off
   before the run is aborted; what the run emits in between is not saved, and the
   rebuilt context forgets it.
2. **A message lost by `clearQueue()`** (`agent-session.ts:1790`). The display of
   steering messages is emptied after a run while the queue keeps them. With two
   queued when a run ends in an abort or an error, the first goes into the next
   run and the second stays, hidden; clearing the queue removes it without
   returning it, although `clearQueue()` is to "clear all queued messages and
   return them" (2371).
3. **Two workers on one task** (`fork-runtime.ts:140`). The owner of a task is read
   before the mutation semaphore is waited for. Two `spawn_worker` calls of one
   turn, which run in parallel, both find the task free. The comment at 135 says
   that this is prevented.
4. **A shutdown that does not end** (`orchestrator/src/serve.ts:69`). Radius fails to
   disconnect an instance, the shutdown promise rejects, and the handler of
   unhandled rejections awaits that promise again, which rejects again. The daemon
   neither serves nor exits.
5. **A clone that forgets** (`session-manager.ts:1606`). A compaction may record a
   label as the first entry it kept (`compaction/compaction.ts:544`); a fork writes
   labels anew under other ids, so the compaction's entry is not found and what it
   kept is not in the context of the clone.

Shown by a configuration beside the runs:

6. **Recovered tool calls** (`agent-loop.ts:201`, `AgentLoop_recovery.cfg`,
   `RequesterInTranscript`). A call printed as text is turned into a tool call in
   the loop's context after the text was emitted. The agent's state keeps the text,
   and then gets a result without its call; `agent/README.md:129` promises that
   preflight sees the requesting message.
7. **`agent_end` is not final** (`agent.ts:510`, `AgentLoop_throw.cfg`,
   `AgentEndIsFinal`). A listener that throws on it sends the finished run through
   the failure path; `agent.ts:257` and `agent/README.md:157` call it the last event.
8. **Idle while compacting** (`agent-session.ts:1988`, `AgentSession_idle.cfg`,
   `IdleMeansQuiet`). A prompt's preflight compacts, and may continue the agent,
   before the session is marked active; `isIdle` is documented to be false then
   (`agent-session.ts:1335`, `coding-agent/docs/extensions.md:1009`).
9. **A run after an abort** (`agent-session.ts:1794`, `AgentSession_abort.cfg`,
   `AbortEndsTheOperation`). An aborted run does not poll its queues, and the session
   continues the agent when one is not empty; `abort()` is to "wait for agent to
   become idle" (2405), and the comment at 1792 assumes drained queues.
10. **A stranded message** (`worker-session.ts:269`, `Workers_stranded.cfg`,
    `NoStrandedMessage`). The comment says "nobody drains it. Re-enter the loop so the
    message is processed"; a message that `onWorkerMessaged` delivers between
    `finish()` and `cleanupWorker()` is not.
11. **A compaction on another branch** (`agent-session.ts:2776`,
    `SessionTree_moves.cfg`, `NothingForgotten`). `navigateTree` (4187) does not ask
    whether a compaction is under way; the entry is appended where the leaf is by
    then, and hides messages of that branch that its summary does not hold.

Exceptions that properties of the supervisor name, each a race in the code: a
registration answered after the instance was stopped or its child has exited
writes the record back as online and starts a heartbeat (`supervisor.ts:302-304`,
`late`); a re-registration writes a copy of the record taken before its await
(`radius.ts:421-441`); an error of `disconnectPi` in `cleanupAcquiredResources` skips
the disposal of the child (`supervisor.ts:157-174`, `leaked`); the recovery saves a
list read before its awaits over instances spawned meanwhile
(`supervisor.ts:244-255`, `lost`); `instances.json` is not written atomically, and one
that does not parse is taken for an empty one (`storage.ts:19-32`).

Seen while reading, without a configuration: two `compact()` calls share one
controller field (2826); extensions are not told of `agent_end` when a retry is
predicted and then aborted (986, against `docs/extensions.md:553`); the queue's
mirror is emptied without the `queue_update` that `docs/json.md:23` promises
(1790); a killed worker may be reported to the leader as failed
(`worker-executor.ts:432`); a task stays bound to a worker whose spawn failed; the
null leaf of `resetLeaf` is not restored after a restart, and `forkFrom` forgets the
selected leaf, as no sidecar is copied; a sidecar that could not be rewritten
overrides the JSONL file, which the comment at `session-manager.ts:831` calls
authoritative.

## 7. What is not modelled

Of the modelled components:

- Agent: `reset()` (no caller in `src`), `shouldStopAfterTurn` (the `Agent` does not
  pass it), partial tool results, the wrapper `agentLoop` around `runAgentLoop`.
- Session: `sendCustomMessage`'s immediate forms, aborts by tool validation, the
  payload guard, concurrent manual compactions, model switches, turn caps of the
  leader. The interactive mode's Escape calls `agent.abort()` directly; the model has
  the session's `abort()`. `IdenticalContinueTracker` never stops a continuation in
  practice, because the transcript grows between two of them, and is left out.
- Workers: yields, `createTask` and `updateTask`, goals, escalations and the advisor;
  retries, compaction and the cancellation scope inside a worker; dispose() of the
  executor and the orchestrator; projections and their signals, whose content none
  of these steps reads; hydration. The event queue's limit of 1024 is not reached.
- Supervisor: running without Radius, its OAuth, a startup that fails, session ids
  and labels of a record, requests for unknown instances (refused at once), `list`
  and `status`, which read.
- Session tree: migration of old files, sessions in memory, a rewrite of the whole
  file that fails (it throws and changes nothing), compactions supplied by an
  extension, a file deleted by someone else, and the implementation of sessions in
  `agent/src/harness`.

Message bodies, token counts, usage and wording are abstracted everywhere;
compaction is what it does to the set of messages the context covers.

Most of the repository's lines are tables of models, terminal rendering, wire
formats of providers, command-line and text processing: they have little state
whose order matters, and no model of them would say more than the code. The
components without a module, and why, are in `PROJECT.json`; those the plan above
names are the ones that would come next.
