------------------------------ MODULE Workers ------------------------------
(***************************************************************************)
(* The leader's workers.  Its role tools call ForkRuntime, which publishes *)
(* events through one queue; the event sink persists each event and hands  *)
(* it to the roles; WorkerExecutor is the role that starts, messages and   *)
(* kills the worker sessions, and WorkerEffectRuntime keeps their message  *)
(* queues and fibers.                                                      *)
(*                                                                         *)
(* The leader runs tool calls in parallel, the queue is served one event   *)
(* at a time, and roles are not awaited: a role handles the events of one  *)
(* concurrency key in order, those of different keys in any order.         *)
(***************************************************************************)
EXTENDS Naturals, Sequences, FiniteSets

CONSTANTS
    MaxWorkers,     \* bound: the agent ids the leader chooses, in order; each is spawned once
    Tasks,          \* the task ids
    None,           \* no task, no assignee
    MaxCalls,       \* bound: tool calls of the leader and failed appends together
    MailboxSize,    \* Queue.bounded: messages that wait for a worker to come up
    MaxFaults       \* bound: events that the store fails to append

ASSUME WorkersAssumption ==
    /\ {MaxWorkers, MaxCalls, MailboxSize, MaxFaults} \subseteq Nat
    /\ None \notin Nat \cup Tasks

Workers == 1..MaxWorkers

VARIABLES
    calls,      \* the leader's tool calls, in the order it made them
    assignee,   \* taskAssignees
    forks,      \* workerForkIds: the workers whose fork is known
    queue,      \* eventQueue: the events that wait to be published
    forkChain,  \* WorkerExecutor's pending events, by fork: "create" and "kill"
    handling,   \* how far the first of them is
    msgChain,   \* its pending worker_messaged events, by worker
    dispatch,   \* task-dispatcher's pending events, by assignee
    workers,    \* workers: the sessions registered
    finalized,  \* finalizedWorkers
    intentionallyKilled,
    lifecycle,  \* the status in WorkerLifecycleRegistry
    session,    \* the WorkerSession
    mailbox,    \* messageQueues: the messages that wait for the session
    draining,   \* the workers whose drainMessages() loop runs
    faults,     \* appends that have failed
    story,      \* history: the events about each worker that were published
    sent,       \* history: the messages to each worker that were published
    consumed,   \* history: the messages each worker's agent has read
    told,       \* history: how often the leader heard of the worker's end
    bound       \* history: the owner of each task according to the published events

leader   == <<calls, assignee, forks>>
roles    == <<forkChain, handling, msgChain, dispatch>>
executor == <<workers, finalized, intentionallyKilled, lifecycle>>
effects  == <<session, mailbox, draining>>
history  == <<story, sent, consumed, told, bound>>
vars == <<leader, queue, roles, executor, effects, faults, history>>

Ops == {"spawn", "message", "kill", "reassign"}
Call(op, w, t, at) == [op |-> op, worker |-> w, task |-> t, at |-> at]
Event(type, w, i) == [type |-> type, worker |-> w, call |-> i]

Outcomes == {"finished", "error", "max_turns"}   (* how a session ends *)
NoSession == [status |-> "none", killed |-> FALSE, steer |-> <<>>]

Init ==
    /\ calls = <<>>
    /\ assignee = [t \in Tasks |-> None]
    /\ forks = {}
    /\ queue = <<>>
    /\ forkChain = [w \in Workers |-> <<>>]
    /\ handling = [w \in Workers |-> "idle"]
    /\ msgChain = [w \in Workers |-> <<>>]
    /\ dispatch = [w \in Workers |-> <<>>]
    /\ workers = {} /\ finalized = {} /\ intentionallyKilled = {}
    /\ lifecycle = [w \in Workers |-> "none"]
    /\ session = [w \in Workers |-> NoSession]
    /\ mailbox = [w \in Workers |-> <<>>]
    /\ draining = {}
    /\ faults = 0
    /\ story = [w \in Workers |-> <<>>]
    /\ sent = [w \in Workers |-> {}]
    /\ consumed = [w \in Workers |-> <<>>]
    /\ told = [w \in Workers |-> 0]
    /\ bound = [t \in Tasks |-> None]

(* WorkerLifecycleRegistry.apply() *)
Status(w, s) == lifecycle' = [lifecycle EXCEPT ![w] = s]

-----------------------------------------------------------------------------
(* ForkRuntime: the leader's tool calls.                                   *)

Made(c) ==
    /\ Len(calls) + faults < MaxCalls
    /\ c.worker = 1 \/ \E i \in DOMAIN calls : calls[i].worker \in {c.worker, c.worker - 1}
    /\ calls' = Append(calls, c)

(* The task's owner is read before the mutation semaphore is waited for. *)
SpawnWorker(w, t) ==
    /\ \A i \in DOMAIN calls : calls[i].op = "spawn" => calls[i].worker # w
    /\ t # None => assignee[t] \in {None, w}
    /\ Made(Call("spawn", w, t, "waiting"))
    /\ UNCHANGED <<assignee, forks, queue, roles, executor, effects, faults, history>>

(* A message takes no semaphore. *)
MessageWorker(w) ==
    /\ Made(Call("message", w, None, "publishing"))
    /\ queue' = Append(queue, Event("worker_messaged", w, Len(calls) + 1))
    /\ UNCHANGED <<assignee, forks, roles, executor, effects, faults, history>>

(* The kill_worker tool names a task; its worker is looked up at once. *)
KillWorker(t) ==
    /\ assignee[t] # None
    /\ Made(Call("kill", assignee[t], t, "waiting"))
    /\ UNCHANGED <<assignee, forks, queue, roles, executor, effects, faults, history>>

ReassignWorker(t, w) ==
    /\ Made(Call("reassign", w, t, "waiting"))
    /\ UNCHANGED <<assignee, forks, queue, roles, executor, effects, faults, history>>

(* Mutant: mutations do not exclude each other. *)
NoPermit == TRUE

(* mutationSemaphore: one spawn, kill or reassignment publishes at a time. *)
PermitFree == \A i \in DOMAIN calls :
    calls[i].op # "message" => calls[i].at \notin {"publishing", "confirming"}

FirstEvent == [spawn |-> "agent_created", kill |-> "agent_finished", reassign |-> "task.assigned"]

(* withMutation(): the call has the permit and publishes its first event.  *)
(* A reassignment binds the task before it publishes.                      *)
Acquire(i) ==
    /\ calls[i].at = "waiting" /\ PermitFree
    /\ calls' = [calls EXCEPT ![i].at = "publishing"]
    /\ queue' = Append(queue, Event(FirstEvent[calls[i].op], calls[i].worker, i))
    /\ assignee' = IF calls[i].op = "reassign"
                   THEN [assignee EXCEPT ![calls[i].task] = calls[i].worker] ELSE assignee
    /\ UNCHANGED <<forks, roles, executor, effects, faults, history>>

-----------------------------------------------------------------------------
(* The event queue's consumer: it publishes the first event, runs what     *)
(* waits for that publication and hands the event to the roles.            *)

Publishes(type) == queue # <<>> /\ Head(queue).type = type
Of == Head(queue).worker
By == Head(queue).call
Told(type) == story' = [story EXCEPT ![Of] = Append(@, type)]
Returns == calls' = [calls EXCEPT ![By].at = "returned"]

(* spawnWorker(): the fork and the task are bound once agent_created is out. *)
AgentCreated ==
    /\ Publishes("agent_created")
    /\ Told("created")
    /\ forkChain' = [forkChain EXCEPT ![Of] = Append(@, "create")]
    /\ forks' = forks \cup {Of}
    /\ IF calls[By].task = None THEN UNCHANGED <<assignee, bound>>
       ELSE /\ assignee' = [assignee EXCEPT ![calls[By].task] = Of]
            /\ bound' = [bound EXCEPT ![calls[By].task] = Of]
    /\ calls' = [calls EXCEPT ![By].at = "confirming"]
    /\ queue' = Append(Tail(queue), Event("fork_created", Of, By))
    /\ UNCHANGED <<handling, msgChain, dispatch, executor, effects, faults, sent, consumed, told>>

(* The second event of a spawn or a kill: the call returns. *)
Confirmed ==
    /\ Publishes("fork_created") \/ Publishes("worker_killed")
    /\ Returns
    /\ queue' = Tail(queue)
    /\ UNCHANGED <<assignee, forks, roles, executor, effects, faults, history>>

(* Mutant: the kill has a concurrency key of its own. *)
KilledAhead ==
    /\ Publishes("agent_finished") /\ By # 0
    /\ Told("killed")
    /\ forkChain' = IF Of \in forks /\ handling[Of] = "idle"
                    THEN [forkChain EXCEPT ![Of] = <<"kill">> \o @] ELSE forkChain
    /\ calls' = [calls EXCEPT ![By].at = "confirming"]
    /\ queue' = Append(Tail(queue), Event("worker_killed", Of, By))
    /\ UNCHANGED <<assignee, forks, handling, msgChain, dispatch, executor, effects, faults,
                   sent, consumed, told, bound>>

(* killWorker() publishes agent_finished{killed}; WorkerExecutor handles   *)
(* it under the key of the fork, behind the creation it may still handle.  *)
(* A worker whose fork is unknown has no session, now or before it is      *)
(* spawned: nothing to handle.                                             *)
Killed ==
    /\ Publishes("agent_finished") /\ By # 0
    /\ Told("killed")
    /\ forkChain' = IF Of \in forks THEN [forkChain EXCEPT ![Of] = Append(@, "kill")]
                    ELSE forkChain
    /\ calls' = [calls EXCEPT ![By].at = "confirming"]
    /\ queue' = Append(Tail(queue), Event("worker_killed", Of, By))
    /\ UNCHANGED <<assignee, forks, handling, msgChain, dispatch, executor, effects, faults,
                   sent, consumed, told, bound>>

TaskAssigned ==
    /\ Publishes("task.assigned")
    /\ Returns
    /\ dispatch' = [dispatch EXCEPT ![Of] = Append(@, By)]
    /\ bound' = [bound EXCEPT ![calls[By].task] = Of]
    /\ queue' = Tail(queue)
    /\ UNCHANGED <<assignee, forks, forkChain, handling, msgChain, executor, effects, faults,
                   story, sent, consumed, told>>

(* By: the message.  A dispatcher's message is that of a reassignment,     *)
(* which has returned.                                                     *)
WorkerMessaged ==
    /\ Publishes("worker_messaged")
    /\ Returns
    /\ msgChain' = [msgChain EXCEPT ![Of] = Append(@, By)]
    /\ sent' = [sent EXCEPT ![Of] = @ \cup {By}]
    /\ queue' = Tail(queue)
    /\ UNCHANGED <<assignee, forks, forkChain, handling, dispatch, executor, effects, faults,
                   story, consumed, told, bound>>

(* Mutant: the queue is dropped but not shut down. *)
QueueDropped(w) ==
    /\ mailbox' = [mailbox EXCEPT ![w] = <<>>]
    /\ UNCHANGED draining

(* removeWorker(): the queue is shut down, which ends the drain loop. *)
RemoveWorker(w) ==
    /\ mailbox' = [mailbox EXCEPT ![w] = <<>>]
    /\ draining' = draining \ {w}

(* fork_cleaned by finalizeWorker(), which then runs cleanupWorker(); the  *)
(* one of a failed spawn (call 0) waits for nothing.                       *)
ForkCleaned ==
    /\ Publishes("fork_cleaned")
    /\ Told("cleaned")
    /\ IF Of \in finalized
       THEN /\ workers' = workers \ {Of}
            /\ RemoveWorker(Of)
            /\ Status(Of, "cleaned")
       ELSE UNCHANGED <<workers, mailbox, draining, lifecycle>>
    /\ queue' = Tail(queue)
    /\ UNCHANGED <<leader, roles, finalized, intentionallyKilled, session, faults,
                   sent, consumed, told, bound>>

(* The store cannot append: the publication rejects and no role runs.  A   *)
(* call returns its error; finalizeWorker() never cleans up; the handler   *)
(* of a failed spawn throws.                                               *)
AppendFails ==
    /\ queue # <<>>
    /\ faults < MaxFaults /\ Len(calls) + faults < MaxCalls /\ faults' = faults + 1
    /\ IF By # 0 THEN Returns ELSE UNCHANGED calls
    /\ IF Publishes("agent_finished") /\ By = 0
       THEN /\ forkChain' = [forkChain EXCEPT ![Of] = Tail(@)]
            /\ handling' = [handling EXCEPT ![Of] = "idle"]
       ELSE UNCHANGED <<forkChain, handling>>
    /\ queue' = Tail(queue)
    /\ UNCHANGED <<assignee, forks, msgChain, dispatch, executor, effects, history>>

-----------------------------------------------------------------------------
(* WorkerExecutor: one handler at a time for each fork.                    *)

Heads(w, kind, at) ==
    forkChain[w] # <<>> /\ Head(forkChain[w]) = kind /\ handling[w] = at
Handled(w) == forkChain' = [forkChain EXCEPT ![w] = Tail(@)]

(* onAgentCreated(), up to the first await. *)
CreationBegins(w) ==
    /\ Heads(w, "create", "idle")
    /\ handling' = [handling EXCEPT ![w] = "setup"]
    /\ Status(w, "created")
    /\ UNCHANGED <<leader, queue, forkChain, msgChain, dispatch, workers, finalized,
                   intentionallyKilled, effects, faults, history>>

(* No model, or the set-up throws: publishTerminalSpawnFailure(). *)
SpawnFails(w) ==
    /\ Heads(w, "create", "setup")
    /\ handling' = [handling EXCEPT ![w] = "failing"]
    /\ queue' = Append(queue, Event("agent_finished", w, 0))
    /\ UNCHANGED <<leader, forkChain, msgChain, dispatch, executor, effects, faults, history>>

(* The failure is published; the event is also handled, as a kill. *)
FailurePublished ==
    /\ Publishes("agent_finished") /\ By = 0
    /\ Told("failed")
    /\ forkChain' = [forkChain EXCEPT ![Of] = Append(Tail(@), "kill")]
    /\ handling' = [handling EXCEPT ![Of] = "idle"]
    /\ queue' = Append(Tail(queue), Event("fork_cleaned", Of, 0))
    /\ told' = [told EXCEPT ![Of] = @ + 1]
    /\ RemoveWorker(Of)
    /\ UNCHANGED <<leader, msgChain, dispatch, executor, session, faults, sent, consumed, bound>>

(* The session is registered, started, then drains what came before it. *)
StartSession(w) ==
    /\ Heads(w, "create", "setup")
    /\ Handled(w)
    /\ handling' = [handling EXCEPT ![w] = "idle"]
    /\ workers' = workers \cup {w}
    /\ session' = [session EXCEPT ![w].status = "running"]
    /\ Status(w, "running")
    /\ draining' = draining \cup {w}
    /\ UNCHANGED <<leader, queue, msgChain, dispatch, finalized, intentionallyKilled, mailbox,
                   faults, history>>

(* onWorkerKilled(), up to the first await: without a session it returns. *)
KillBegins(w) ==
    /\ Heads(w, "kill", "idle")
    /\ IF w \in workers
       THEN /\ intentionallyKilled' = intentionallyKilled \cup {w}
            /\ Status(w, "killed")
            /\ handling' = [handling EXCEPT ![w] = "marked"]
            /\ UNCHANGED forkChain
       ELSE /\ Handled(w)
            /\ UNCHANGED <<intentionallyKilled, lifecycle, handling>>
    /\ UNCHANGED <<leader, queue, msgChain, dispatch, workers, finalized, effects, faults, history>>

(* Mutant: finalizedWorkers is not consulted. *)
FinalizeAgain(w, reason) ==
    /\ queue' = Append(queue, Event("fork_cleaned", w, 0))
    /\ finalized' = finalized \cup {w}
    /\ intentionallyKilled' = intentionallyKilled \ {w}
    /\ Status(w, reason)

(* finalizeWorker(): once for each worker; the mark of the kill goes. *)
Finalize(w, reason) ==
    IF w \in finalized
    THEN UNCHANGED <<queue, finalized, intentionallyKilled, lifecycle>>
    ELSE /\ queue' = Append(queue, Event("fork_cleaned", w, 0))
         /\ finalized' = finalized \cup {w}
         /\ intentionallyKilled' = intentionallyKilled \ {w}
         /\ Status(w, reason)

(* Mutant: the fiber is interrupted but the session not told. *)
OnlyInterrupted(w) ==
    /\ Heads(w, "kill", "marked")
    /\ Handled(w)
    /\ handling' = [handling EXCEPT ![w] = "idle"]
    /\ IF session[w].status = "running" THEN Finalize(w, "killed")
       ELSE UNCHANGED <<queue, finalized, intentionallyKilled, lifecycle>>
    /\ UNCHANGED <<leader, msgChain, dispatch, workers, effects, faults, history>>

(* killSession(): the session is told, its fiber interrupted; the fiber's  *)
(* observer finalizes the worker while the aborted run still unwinds.      *)
KillSession(w) ==
    /\ Heads(w, "kill", "marked")
    /\ Handled(w)
    /\ handling' = [handling EXCEPT ![w] = "idle"]
    /\ session' = [session EXCEPT ![w].killed = TRUE]
    /\ IF session[w].status = "running" /\ ~session[w].killed
       THEN Finalize(w, "killed")
       ELSE UNCHANGED <<queue, finalized, intentionallyKilled, lifecycle>>
    /\ UNCHANGED <<leader, msgChain, dispatch, workers, mailbox, draining, faults, history>>

(* deliverMessage(): nobody reads the queue of a session that has finished. *)
DeliverMessage(w, m) == session' = [session EXCEPT ![w].steer = Append(@, m)]

(* Mutant: the mailbox has no limit. *)
OfferUnbounded(w) ==
    /\ msgChain[w] # <<>>
    /\ msgChain' = [msgChain EXCEPT ![w] = Tail(@)]
    /\ IF w \in workers
       THEN DeliverMessage(w, Head(msgChain[w])) /\ UNCHANGED mailbox
       ELSE mailbox' = [mailbox EXCEPT ![w] = Append(@, Head(msgChain[w]))] /\ UNCHANGED session
    /\ UNCHANGED <<leader, queue, forkChain, handling, dispatch, executor, draining, faults, history>>

(* onWorkerMessaged(): to the session, else to the mailbox, when it has    *)
(* room.  The offer waits and holds up the later messages of that worker.  *)
OnWorkerMessaged(w) ==
    /\ msgChain[w] # <<>>
    /\ msgChain' = [msgChain EXCEPT ![w] = Tail(@)]
    /\ IF w \in workers
       THEN DeliverMessage(w, Head(msgChain[w])) /\ UNCHANGED mailbox
       ELSE /\ Len(mailbox[w]) < MailboxSize
            /\ mailbox' = [mailbox EXCEPT ![w] = Append(@, Head(msgChain[w]))]
            /\ UNCHANGED session
    /\ UNCHANGED <<leader, queue, forkChain, handling, dispatch, executor, draining, faults, history>>

(* Mutant: the message is read from the mailbox, not taken. *)
PeekMessages(w) ==
    /\ w \in draining /\ mailbox[w] # <<>>
    /\ DeliverMessage(w, Head(mailbox[w]))
    /\ UNCHANGED <<leader, queue, roles, executor, mailbox, draining, faults, history>>

(* drainMessages() *)
DrainMessages(w) ==
    /\ w \in draining /\ mailbox[w] # <<>>
    /\ mailbox' = [mailbox EXCEPT ![w] = Tail(@)]
    /\ DeliverMessage(w, Head(mailbox[w]))
    /\ UNCHANGED <<leader, queue, roles, executor, draining, faults, history>>

(* task-dispatcher: it messages the new assignee of the task. *)
Dispatch(w) ==
    /\ dispatch[w] # <<>>
    /\ dispatch' = [dispatch EXCEPT ![w] = Tail(@)]
    /\ queue' = Append(queue, Event("worker_messaged", w, Head(dispatch[w])))
    /\ UNCHANGED <<leader, forkChain, handling, msgChain, executor, effects, faults, history>>

-----------------------------------------------------------------------------
(* WorkerSession: runLoop() runs its agent until nothing is queued.        *)

(* The agent reads the next steering message. *)
Consume(w) ==
    /\ session[w].status = "running" /\ ~session[w].killed /\ session[w].steer # <<>>
    /\ session' = [session EXCEPT ![w].steer = Tail(@)]
    /\ consumed' = [consumed EXCEPT ![w] = Append(@, Head(session[w].steer))]
    /\ UNCHANGED <<leader, queue, roles, executor, mailbox, draining, faults, story, sent, told, bound>>

(* finish(): with no message left, at the turn limit, or killed.  The      *)
(* executor asks whether the worker is marked as killed, finalizes it and, *)
(* unless it is, tells the leader: worker_finished or worker_error is      *)
(* published, which no role here matches, and a message is sent to it.     *)
LoopEnds(w, outcome) ==
    /\ session[w].status = "running"
    /\ session[w].steer # <<>> => session[w].killed \/ outcome = "max_turns"
    /\ session[w].killed => outcome = "error"
    /\ session' = [session EXCEPT ![w].status = outcome]
    /\ IF w \in intentionallyKilled
       THEN Finalize(w, "killed") /\ UNCHANGED told
       ELSE /\ told' = [told EXCEPT ![w] = @ + 1]
            /\ Finalize(w, IF outcome = "error" THEN "error" ELSE "finished")
    /\ UNCHANGED <<leader, roles, workers, mailbox, draining, faults, story, sent, consumed, bound>>

-----------------------------------------------------------------------------
LeaderCalls ==
    \/ \E w \in Workers : MessageWorker(w) \/ \E t \in Tasks \cup {None} : SpawnWorker(w, t)
    \/ \E t \in Tasks : KillWorker(t) \/ \E w \in Workers : ReassignWorker(t, w)

Publish == AgentCreated \/ Confirmed \/ Killed \/ TaskAssigned \/ WorkerMessaged
           \/ ForkCleaned \/ FailurePublished

HandleFork(w) == CreationBegins(w) \/ StartSession(w) \/ KillBegins(w) \/ KillSession(w)
Ends(w) == \E outcome \in Outcomes : LoopEnds(w, outcome)

Next ==
    \/ LeaderCalls
    \/ \E i \in DOMAIN calls : Acquire(i)
    \/ Publish \/ AppendFails
    \/ \E w \in Workers :
        HandleFork(w) \/ SpawnFails(w) \/ OnWorkerMessaged(w) \/ DrainMessages(w) \/ Dispatch(w)
        \/ Consume(w) \/ Ends(w)

Spec == Init /\ [][Next]_vars

(* The store's failures and a worker's way to end are nobody's promise; the *)
(* semaphore, the queue's consumer, the roles and the agents' loops, which  *)
(* the turn limit bounds, all proceed.                                      *)
Fairness ==
    /\ \A i \in 1..MaxCalls : WF_vars(i \in DOMAIN calls /\ Acquire(i))
    /\ WF_vars(Publish)
    /\ \A w \in Workers :
        /\ WF_vars(HandleFork(w))
        /\ WF_vars(OnWorkerMessaged(w))
        /\ WF_vars(DrainMessages(w))
        /\ WF_vars(Dispatch(w))
        /\ WF_vars(Consume(w))
        /\ WF_vars(Ends(w))

FairSpec == Spec /\ Fairness

-----------------------------------------------------------------------------
Elements(s) == {s[i] : i \in DOMAIN s}
Count(s, x) == Cardinality({i \in DOMAIN s : s[i] = x})

(* Every variable has its type. *)
TypeOK ==
    /\ \A i \in DOMAIN calls :
        /\ calls[i].op \in Ops /\ calls[i].worker \in Workers
        /\ calls[i].at \in {"waiting", "publishing", "confirming", "returned"}
    /\ assignee \in [Tasks -> Workers \cup {None}]
    /\ \A i \in DOMAIN queue : queue[i].call \in 0..Len(calls) /\ queue[i].worker \in Workers
    /\ forks \cup workers \cup finalized \cup intentionallyKilled \cup draining \subseteq Workers
    /\ \A w \in Workers :
        /\ Elements(forkChain[w]) \subseteq {"create", "kill"}
        /\ handling[w] \in {"idle", "setup", "failing", "marked"}
        /\ lifecycle[w] \in {"none", "created", "running", "killed", "cleaned"} \cup Outcomes
        /\ session[w].status \in {"none", "running"} \cup Outcomes
        /\ Len(mailbox[w]) <= MailboxSize
    /\ faults \in 0..MaxFaults

Over(w) == session[w].status \in Outcomes \/ session[w].killed \/ "failed" \in Elements(story[w])
Copies(w, m) == Count(msgChain[w], m) + Count(mailbox[w], m)
                + Count(session[w].steer, m) + Count(consumed[w], m)

(* A message that was published to a worker, before its session is up or   *)
(* after, is in exactly one place on its way to the agent until that has   *)
(* read it or has ended, and is never read twice: offerMessage(),          *)
(* drainMessages(), deliverMessage() and runLoop() hand it on.             *)
MessageKept == \A w \in Workers : \A m \in sent[w] :
    Copies(w, m) = 1 \/ (Over(w) /\ Copies(w, m) = 0)

(* A kill that the roles have handled leaves no session running on, in     *)
(* whatever order the spawn, its creation and the kill were handled: this  *)
(* is what the executor's concurrency keys and the semaphore are for.      *)
KillTakesHold == \A w \in Workers :
    (/\ \E j, k \in DOMAIN story[w] : j < k /\ story[w][j] = "created" /\ story[w][k] = "killed"
     /\ "kill" \notin Elements(forkChain[w]))
    => ~(session[w].status = "running" /\ ~session[w].killed)

(* A session that runs is registered, so that a message, a kill and the    *)
(* orchestrator's dispose() reach it; only one that was killed may unwind  *)
(* after cleanupWorker() has forgotten it.                                 *)
RunningIsRegistered == \A w \in Workers :
    session[w].status = "running" /\ ~session[w].killed => w \in workers /\ lifecycle[w] # "cleaned"

(* However a worker's end is noticed, by its loop, by the observer of its  *)
(* fiber or by a failed set-up, the leader hears of it at most once and    *)
(* its fork is cleaned at most once.                                       *)
EndsOnce == \A w \in Workers : told[w] <= 1 /\ Count(story[w], "cleaned") <= 1

(* Whenever no tool call is under way, the owner ForkRuntime has for a     *)
(* task is the one its published events give it (a failed append aside):   *)
(* spawns and reassignments do not overtake each other.                    *)
BindingFollowsEvents ==
    (faults = 0 /\ \A i \in DOMAIN calls : calls[i].at \notin {"publishing", "confirming"})
    => assignee = bound

(* The leader's calls all return, and every worker that was created ends   *)
(* up cleaned and forgotten, unless the store has failed: neither the      *)
(* semaphore, nor a full mailbox, nor a loop that waits, nor a kill that   *)
(* races a worker's end holds one for ever.                                *)
Settled ==
    /\ \A i \in DOMAIN calls : calls[i].at = "returned"
    /\ \A w \in Workers : "created" \in Elements(story[w]) =>
        faults > 0 \/ ("cleaned" \in Elements(story[w]) /\ w \notin workers \cup draining)
EverythingSettles == []<>Settled

(* ForkRuntime: "This prevents two workers from being silently attached to *)
(* the same task."  Two spawns do attach to one task.                      *)
OneWorkerPerTask == \A i, j \in DOMAIN calls :
    (/\ calls[i].op = "spawn" /\ calls[j].op = "spawn"
     /\ calls[i].task = calls[j].task /\ calls[i].task # None
     /\ "created" \in Elements(story[calls[i].worker])
     /\ "created" \in Elements(story[calls[j].worker]))
    => i = j \/ \E k \in DOMAIN calls : calls[k].op = "reassign"

(* WorkerSession.deliverMessage(): "Re-enter the loop so the message is    *)
(* processed."  A session that ended by itself leaves no message behind.   *)
NoStrandedMessage == \A w \in Workers :
    session[w].status = "finished" /\ ~session[w].killed => session[w].steer = <<>>
=============================================================================
