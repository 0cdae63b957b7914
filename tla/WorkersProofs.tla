--------------------------- MODULE WorkersProofs ---------------------------
(***************************************************************************)
(* What holds of the leader's workers for any number of workers, calls and *)
(* failures of the store: a kill takes hold, a session that runs can be    *)
(* reached, an end is told once, tasks follow the published events, and a  *)
(* message that was published is neither lost on its way nor read twice.   *)
(***************************************************************************)
EXTENDS Workers, TLAPS, FiniteSetTheorems

LEMMA BoundsAreNat ==
    /\ MaxWorkers \in Nat /\ MaxCalls \in Nat /\ MailboxSize \in Nat /\ MaxFaults \in Nat
BY WorkersAssumption

-----------------------------------------------------------------------------
(* Types.                                                                   *)

Stages == {"waiting", "publishing", "confirming", "returned"}
EventTypes == {"agent_created", "agent_finished", "fork_created", "worker_killed",
               "task.assigned", "worker_messaged", "fork_cleaned"}
Calls == {c \in [op : Ops, worker : Workers, task : Tasks \cup {None}, at : Stages] :
            /\ c.op = "message" => c.at # "waiting"
            /\ c.op = "reassign" => c.task \in Tasks}
Events == [type : EventTypes, worker : Workers, call : Nat]
Sessions == [status : {"none", "running"} \cup Outcomes, killed : BOOLEAN,
             steer : Seq(Nat)]
Statuses == {"none", "created", "running", "killed", "cleaned"} \cup Outcomes
Told3 == {"created", "killed", "failed", "cleaned"}

\* The events of q belong to the first n calls; those of no call are the ones
\* that WorkerExecutor publishes by itself.
EventFits(e, n) ==
    /\ e \in Events /\ e.call \in 0 .. n
    /\ e.call = 0 => e.type \in {"agent_finished", "fork_cleaned"}
QueueFits(q, n) == q \in Seq(Events) /\ \A k \in DOMAIN q : EventFits(q[k], n)

LeaderTyped ==
    /\ calls \in Seq(Calls)
    /\ assignee \in [Tasks -> Workers \cup {None}]
    /\ forks \in SUBSET Workers
    /\ QueueFits(queue, Len(calls))
RolesTyped ==
    /\ forkChain \in [Workers -> Seq({"create", "kill"})]
    /\ handling \in [Workers -> {"idle", "setup", "failing", "marked"}]
    /\ msgChain \in [Workers -> Seq(Nat)]
    /\ dispatch \in [Workers -> Seq(Nat)]
    /\ \A w \in Workers : \A k \in DOMAIN dispatch[w] : dispatch[w][k] \in 1 .. Len(calls)
ExecutorTyped ==
    /\ workers \in SUBSET Workers /\ finalized \in SUBSET Workers
    /\ intentionallyKilled \in SUBSET Workers
    /\ lifecycle \in [Workers -> Statuses]
EffectsTyped ==
    /\ session \in [Workers -> Sessions]
    /\ mailbox \in [Workers -> Seq(Nat)]
    /\ \A w \in Workers : Len(mailbox[w]) <= MailboxSize
    /\ draining \in SUBSET Workers
HistoryTyped ==
    /\ faults \in 0 .. MaxFaults
    /\ story \in [Workers -> Seq(Told3)]
    /\ told \in [Workers -> Nat]
    /\ bound \in [Tasks -> Workers \cup {None}]
Typed == LeaderTyped /\ RolesTyped /\ ExecutorTyped /\ EffectsTyped /\ HistoryTyped

\* A handler that waits is that of the first pending event, and a failed spawn
\* waits for the one event it has published.
Failure(e) == e.type = "agent_finished" /\ e.call = 0
Handlers ==
    /\ \A w \in Workers : handling[w] # "idle" =>
        /\ forkChain[w] # <<>>
        /\ Head(forkChain[w]) = IF handling[w] = "marked" THEN "kill" ELSE "create"
    /\ \A k \in DOMAIN queue : Failure(queue[k]) => handling[queue[k].worker] = "failing"
    /\ \A j, k \in DOMAIN queue :
        Failure(queue[j]) /\ Failure(queue[k]) /\ queue[j].worker = queue[k].worker => j = k

LEMMA TypedImpliesTypeOK == Typed => TypeOK
<1> SUFFICES ASSUME Typed PROVE TypeOK
    OBVIOUS
<1> USE DEF Typed
<1>1. \A i \in DOMAIN calls :
        /\ calls[i].op \in Ops /\ calls[i].worker \in Workers /\ calls[i].at \in Stages
  <2> SUFFICES ASSUME NEW i \in DOMAIN calls
               PROVE  calls[i].op \in Ops /\ calls[i].worker \in Workers /\ calls[i].at \in Stages
      OBVIOUS
  <2>1. calls[i] \in Calls BY DEF LeaderTyped
  <2> QED BY <2>1 DEF Calls
<1>2. \A k \in DOMAIN queue : queue[k].call \in 0 .. Len(calls) /\ queue[k].worker \in Workers
    BY DEF LeaderTyped, QueueFits, EventFits, Events
<1>3. forks \cup workers \cup finalized \cup intentionallyKilled \cup draining \subseteq Workers
    BY DEF LeaderTyped, ExecutorTyped, EffectsTyped
<1>4. ASSUME NEW w \in Workers
      PROVE  /\ Elements(forkChain[w]) \subseteq {"create", "kill"}
             /\ handling[w] \in {"idle", "setup", "failing", "marked"}
             /\ lifecycle[w] \in Statuses
             /\ session[w].status \in {"none", "running"} \cup Outcomes
             /\ Len(mailbox[w]) <= MailboxSize
  <2>1. forkChain[w] \in Seq({"create", "kill"}) BY DEF RolesTyped
  <2>2. Elements(forkChain[w]) \subseteq {"create", "kill"} BY <2>1 DEF Elements
  <2>3. session[w] \in Sessions BY DEF EffectsTyped
  <2> QED BY <2>2, <2>3 DEF RolesTyped, ExecutorTyped, EffectsTyped, Sessions
<1> QED BY <1>1, <1>2, <1>3, <1>4 DEF TypeOK, Stages, Statuses, LeaderTyped, HistoryTyped

LEMMA TypedInit == Init => Typed
<1> SUFFICES ASSUME Init PROVE Typed
    OBVIOUS
<1>1. LeaderTyped BY DEF Init, LeaderTyped, QueueFits
<1>2. RolesTyped BY DEF Init, RolesTyped
<1>3. ExecutorTyped BY DEF Init, ExecutorTyped, Statuses
<1>4. EffectsTyped BY BoundsAreNat DEF Init, EffectsTyped, NoSession, Sessions
<1>5. HistoryTyped BY BoundsAreNat DEF Init, HistoryTyped
<1> QED BY <1>1, <1>2, <1>3, <1>4, <1>5 DEF Typed

\* How the operations change the calls and the queue.
LEMMA QueueGrows ==
  ASSUME NEW q, NEW n \in Nat, NEW m \in Nat, n <= m, QueueFits(q, n),
         NEW e, EventFits(e, m)
  PROVE  /\ QueueFits(Append(q, e), m) /\ Len(Append(q, e)) = Len(q) + 1
         /\ DOMAIN Append(q, e) = 1 .. Len(q) + 1
         /\ \A k \in DOMAIN q : Append(q, e)[k] = q[k]
         /\ Append(q, e)[Len(q) + 1] = e
<1>1. q \in Seq(Events) /\ e \in Events BY DEF QueueFits, EventFits
<1>2. Append(q, e) \in Seq(Events) /\ Len(Append(q, e)) = Len(q) + 1
    BY <1>1
<1>3. /\ DOMAIN Append(q, e) = 1 .. Len(q) + 1 /\ DOMAIN q = 1 .. Len(q)
      /\ \A k \in DOMAIN q : Append(q, e)[k] = q[k]
      /\ Append(q, e)[Len(q) + 1] = e
    BY <1>1
<1>4. \A k \in DOMAIN q : EventFits(q[k], m)
    BY DEF QueueFits, EventFits
<1>5. \A k \in DOMAIN Append(q, e) : EventFits(Append(q, e)[k], m)
    BY <1>1, <1>3, <1>4
<1> QED BY <1>2, <1>3, <1>5 DEF QueueFits

LEMMA QueueShrinks ==
  ASSUME NEW q, NEW n \in Nat, QueueFits(q, n), q # <<>>
  PROVE  /\ QueueFits(Tail(q), n) /\ EventFits(Head(q), n)
         /\ Head(q) = q[1] /\ 1 \in DOMAIN q
         /\ \A k \in DOMAIN Tail(q) : k + 1 \in DOMAIN q /\ k + 1 > 1 /\ Tail(q)[k] = q[k + 1]
<1>1. q \in Seq(Events) BY DEF QueueFits
<1>2. /\ Tail(q) \in Seq(Events) /\ Head(q) = q[1] /\ 1 \in DOMAIN q
      /\ \A k \in DOMAIN Tail(q) : k + 1 \in DOMAIN q /\ k + 1 > 1 /\ Tail(q)[k] = q[k + 1]
    BY <1>1
<1> QED BY <1>2 DEF QueueFits

LEMMA CallMoves ==
  ASSUME calls \in Seq(Calls), NEW i \in DOMAIN calls, NEW s \in Stages \ {"waiting"},
         calls' = [calls EXCEPT ![i].at = s]
  PROVE  /\ calls' \in Seq(Calls) /\ Len(calls') = Len(calls) /\ DOMAIN calls' = DOMAIN calls
         /\ \A j \in DOMAIN calls : /\ calls'[j].op = calls[j].op /\ calls'[j].worker = calls[j].worker
                                   /\ calls'[j].task = calls[j].task
                                   /\ calls'[j].at = IF j = i THEN s ELSE calls[j].at
<1>1. \A j \in DOMAIN calls : calls[j] \in Calls OBVIOUS
<1>2. DOMAIN calls' = DOMAIN calls /\ DOMAIN calls = 1 .. Len(calls) /\ Len(calls) \in Nat OBVIOUS
<1>3. \A j \in DOMAIN calls : calls'[j] = IF j = i THEN [calls[j] EXCEPT !.at = s] ELSE calls[j]
    OBVIOUS
<1>4. \A j \in DOMAIN calls : calls'[j] \in Calls
    BY <1>1, <1>3 DEF Calls
<1>5. calls' \in Seq(Calls) /\ Len(calls') = Len(calls)
    BY <1>2, <1>4
<1>6. \A j \in DOMAIN calls : /\ calls'[j].op = calls[j].op /\ calls'[j].worker = calls[j].worker
                              /\ calls'[j].task = calls[j].task
                              /\ calls'[j].at = IF j = i THEN s ELSE calls[j].at
    BY <1>1, <1>3 DEF Calls
<1> QED BY <1>2, <1>5, <1>6

LEMMA CallAdded ==
  ASSUME calls \in Seq(Calls), NEW c \in Calls, Made(c)
  PROVE  /\ calls' \in Seq(Calls) /\ Len(calls') = Len(calls) + 1
         /\ DOMAIN calls' = DOMAIN calls \cup {Len(calls) + 1} /\ DOMAIN calls = 1 .. Len(calls)
         /\ \A j \in DOMAIN calls : calls'[j] = calls[j]
         /\ calls'[Len(calls) + 1] = c
BY DEF Made

-----------------------------------------------------------------------------
(* The types are inductive.                                                *)

LEMMA RolesKept ==
  ASSUME LeaderTyped, RolesTyped, UNCHANGED roles, Len(calls') \in Nat, Len(calls) <= Len(calls')
  PROVE  RolesTyped'
BY DEF LeaderTyped, RolesTyped, roles

LEMMA ExecutorKept == ExecutorTyped /\ UNCHANGED executor => ExecutorTyped'
BY DEF ExecutorTyped, executor

LEMMA EffectsKept == EffectsTyped /\ UNCHANGED effects => EffectsTyped'
BY DEF EffectsTyped, effects

LEMMA HistoryKept ==
    HistoryTyped /\ UNCHANGED <<faults, story, told, bound>> => HistoryTyped'
BY DEF HistoryTyped

LEMMA LeaderCallsTyped == Typed /\ LeaderCalls => Typed'
<1> SUFFICES ASSUME Typed, LeaderCalls PROVE Typed'
    OBVIOUS
<1>0. /\ calls \in Seq(Calls) /\ Len(calls) \in Nat /\ QueueFits(queue, Len(calls))
      /\ assignee \in [Tasks -> Workers \cup {None}]
    BY DEF Typed, LeaderTyped
<1>1. \E c \in Calls : /\ Made(c)
                        /\ \/ UNCHANGED queue
                           \/ queue' = Append(queue, Event("worker_messaged", c.worker, Len(calls) + 1))
  <2>1. CASE \E w \in Workers : MessageWorker(w)
    <3>1. PICK w \in Workers : MessageWorker(w) BY <2>1
    <3>2. Call("message", w, None, "publishing") \in Calls BY DEF Call, Calls, Ops, Stages
    <3> QED BY <3>1, <3>2 DEF MessageWorker, Call
  <2>2. CASE \E w \in Workers, t \in Tasks \cup {None} : SpawnWorker(w, t)
    <3>1. PICK w \in Workers, t \in Tasks \cup {None} : SpawnWorker(w, t) BY <2>2
    <3>2. Call("spawn", w, t, "waiting") \in Calls BY DEF Call, Calls, Ops, Stages
    <3> QED BY <3>1, <3>2 DEF SpawnWorker
  <2>3. CASE \E t \in Tasks : KillWorker(t)
    <3>1. PICK t \in Tasks : KillWorker(t) BY <2>3
    <3>2. assignee[t] \in Workers BY <1>0, <3>1 DEF KillWorker
    <3>3. Call("kill", assignee[t], t, "waiting") \in Calls BY <3>2 DEF Call, Calls, Ops, Stages
    <3> QED BY <3>1, <3>3 DEF KillWorker
  <2>4. CASE \E t \in Tasks, w \in Workers : ReassignWorker(t, w)
    <3>1. PICK t \in Tasks, w \in Workers : ReassignWorker(t, w) BY <2>4
    <3>2. Call("reassign", w, t, "waiting") \in Calls BY DEF Call, Calls, Ops, Stages
    <3> QED BY <3>1, <3>2 DEF ReassignWorker
  <2> QED BY <2>1, <2>2, <2>3, <2>4 DEF LeaderCalls
<1>2. PICK c \in Calls : /\ Made(c)
                         /\ \/ UNCHANGED queue
                            \/ queue' = Append(queue, Event("worker_messaged", c.worker, Len(calls) + 1))
    BY <1>1
<1>3. calls' \in Seq(Calls) /\ Len(calls') = Len(calls) + 1
    BY <1>0, <1>2, CallAdded
<1>4. UNCHANGED <<assignee, forks, roles, executor, effects, faults, history>>
    BY DEF LeaderCalls, MessageWorker, SpawnWorker, KillWorker, ReassignWorker
<1>5. QueueFits(queue', Len(calls'))
  <2>1. CASE UNCHANGED queue
      BY <1>0, <1>3, <2>1 DEF QueueFits, EventFits
  <2>2. CASE queue' = Append(queue, Event("worker_messaged", c.worker, Len(calls) + 1))
    <3>1. EventFits(Event("worker_messaged", c.worker, Len(calls) + 1), Len(calls) + 1)
        BY <1>0 DEF EventFits, Event, Events, EventTypes, Calls
    <3> QED BY <1>0, <1>3, <2>2, <3>1, QueueGrows
  <2> QED BY <1>2, <2>1, <2>2
<1>6. LeaderTyped' BY <1>0, <1>3, <1>4, <1>5 DEF Typed, LeaderTyped
<1>7. RolesTyped' BY <1>0, <1>3, <1>4, RolesKept DEF Typed
<1>8. ExecutorTyped' /\ EffectsTyped' /\ HistoryTyped'
    BY <1>4, ExecutorKept, EffectsKept, HistoryKept DEF Typed, history
<1> QED BY <1>6, <1>7, <1>8 DEF Typed

LEMMA AcquireTyped ==
  ASSUME Typed, NEW i \in DOMAIN calls, Acquire(i)
  PROVE  Typed'
<1>0. /\ calls \in Seq(Calls) /\ Len(calls) \in Nat /\ QueueFits(queue, Len(calls))
      /\ assignee \in [Tasks -> Workers \cup {None}] /\ i \in 1 .. Len(calls)
      /\ calls[i] \in Calls
    BY DEF Typed, LeaderTyped
<1>1. calls' \in Seq(Calls) /\ Len(calls') = Len(calls)
    BY <1>0, CallMoves DEF Acquire, Stages
<1>2. QueueFits(queue', Len(calls'))
  <2> DEFINE e == Event(FirstEvent[calls[i].op], calls[i].worker, i)
  <2>1. calls[i].op # "message"
      BY <1>0 DEF Acquire, Calls
  <2>2. EventFits(e, Len(calls))
      BY <1>0, <2>1 DEF EventFits, Event, Events, EventTypes, Calls, FirstEvent, Ops
  <2> QED BY <1>0, <1>1, <2>2, QueueGrows DEF Acquire
<1>3. assignee' \in [Tasks -> Workers \cup {None}]
    BY <1>0 DEF Acquire, Calls
<1>4. LeaderTyped' BY <1>1, <1>2, <1>3 DEF Typed, LeaderTyped, Acquire
<1>5. RolesTyped' BY <1>0, <1>1, RolesKept DEF Typed, Acquire
<1>6. ExecutorTyped' /\ EffectsTyped' /\ HistoryTyped'
    BY ExecutorKept, EffectsKept, HistoryKept DEF Typed, history, Acquire
<1> QED BY <1>4, <1>5, <1>6 DEF Typed

\* The first event of the queue, and what publishing it needs to know.
LEMMA HeadFits ==
  ASSUME Typed, queue # <<>>
  PROVE  /\ calls \in Seq(Calls) /\ Len(calls) \in Nat /\ DOMAIN calls = 1 .. Len(calls)
         /\ QueueFits(queue, Len(calls)) /\ QueueFits(Tail(queue), Len(calls))
         /\ Of \in Workers /\ By \in 0 .. Len(calls)
         /\ By = 0 => Head(queue).type \in {"agent_finished", "fork_cleaned"}
         /\ By # 0 => By \in DOMAIN calls /\ calls[By] \in Calls
<1>1. calls \in Seq(Calls) /\ Len(calls) \in Nat /\ QueueFits(queue, Len(calls))
      /\ DOMAIN calls = 1 .. Len(calls)
    BY DEF Typed, LeaderTyped
<1>2. QueueFits(Tail(queue), Len(calls)) /\ EventFits(Head(queue), Len(calls))
    BY <1>1, QueueShrinks
<1>3. Of \in Workers /\ By \in 0 .. Len(calls)
      /\ (By = 0 => Head(queue).type \in {"agent_finished", "fork_cleaned"})
    BY <1>2 DEF EventFits, Events, Of, By
<1>4. By # 0 => By \in DOMAIN calls /\ calls[By] \in Calls
    BY <1>1, <1>3
<1> QED BY <1>1, <1>2, <1>3, <1>4

LEMMA PublishTyped == Typed /\ Handlers /\ Publish => Typed'
<1> SUFFICES ASSUME Typed, Handlers, Publish PROVE Typed'
    OBVIOUS
<1>0. queue # <<>>
    BY DEF Publish, AgentCreated, Confirmed, Killed, TaskAssigned, WorkerMessaged,
           ForkCleaned, FailurePublished, Publishes
<1>1. /\ calls \in Seq(Calls) /\ Len(calls) \in Nat /\ DOMAIN calls = 1 .. Len(calls)
      /\ QueueFits(queue, Len(calls)) /\ QueueFits(Tail(queue), Len(calls))
      /\ Of \in Workers /\ By \in 0 .. Len(calls)
      /\ By = 0 => Head(queue).type \in {"agent_finished", "fork_cleaned"}
      /\ By # 0 => By \in DOMAIN calls /\ calls[By] \in Calls
    BY <1>0, HeadFits
<1>2. /\ LeaderTyped /\ RolesTyped /\ ExecutorTyped /\ EffectsTyped /\ HistoryTyped
    BY DEF Typed
<1>3. ASSUME NEW type \in {"fork_created", "worker_killed"}, By # 0
      PROVE  QueueFits(Append(Tail(queue), Event(type, Of, By)), Len(calls))
  <2>1. EventFits(Event(type, Of, By), Len(calls))
      BY <1>1, <1>3 DEF EventFits, Event, Events, EventTypes
  <2> QED BY <1>1, <2>1, QueueGrows
<1>4. CASE AgentCreated
  <2>1. By # 0 BY <1>1, <1>4 DEF AgentCreated, Publishes
  <2>2. calls' \in Seq(Calls) /\ Len(calls') = Len(calls)
      BY <1>1, <1>4, <2>1, CallMoves DEF AgentCreated, Stages
  <2>3. QueueFits(queue', Len(calls'))
      BY <1>3, <1>4, <2>1, <2>2 DEF AgentCreated
  <2>4. LeaderTyped'
      BY <1>1, <1>2, <1>4, <2>1, <2>2, <2>3 DEF AgentCreated, LeaderTyped, Calls
  <2>5. RolesTyped' BY <1>1, <1>2, <1>4, <2>2 DEF AgentCreated, RolesTyped
  <2>6. HistoryTyped' BY <1>1, <1>2, <1>4, <2>1 DEF AgentCreated, HistoryTyped, Told, Told3, Calls
  <2> QED BY <1>2, <1>4, <2>4, <2>5, <2>6, ExecutorKept, EffectsKept DEF AgentCreated, Typed
<1>5. CASE Confirmed
  <2>1. By # 0 BY <1>1, <1>5 DEF Confirmed, Publishes
  <2>2. calls' \in Seq(Calls) /\ Len(calls') = Len(calls)
      BY <1>1, <1>5, <2>1, CallMoves DEF Confirmed, Returns, Stages
  <2>3. LeaderTyped' BY <1>1, <1>2, <1>5, <2>2 DEF Confirmed, LeaderTyped
  <2> QED BY <1>1, <1>2, <1>5, <2>2, <2>3, RolesKept, ExecutorKept, EffectsKept, HistoryKept
          DEF Confirmed, Typed, history
<1>6. CASE Killed
  <2>1. By # 0 BY <1>6 DEF Killed
  <2>2. calls' \in Seq(Calls) /\ Len(calls') = Len(calls)
      BY <1>1, <1>6, <2>1, CallMoves DEF Killed, Stages
  <2>3. QueueFits(queue', Len(calls'))
      BY <1>3, <1>6, <2>1, <2>2 DEF Killed
  <2>4. LeaderTyped' BY <1>2, <1>6, <2>2, <2>3 DEF Killed, LeaderTyped
  <2>5. RolesTyped' BY <1>1, <1>2, <1>6, <2>2 DEF Killed, RolesTyped
  <2>6. HistoryTyped' BY <1>1, <1>2, <1>6 DEF Killed, HistoryTyped, Told, Told3
  <2> QED BY <1>2, <1>6, <2>4, <2>5, <2>6, ExecutorKept, EffectsKept DEF Killed, Typed
<1>7. CASE TaskAssigned
  <2>1. By # 0 BY <1>1, <1>7 DEF TaskAssigned, Publishes
  <2>2. calls' \in Seq(Calls) /\ Len(calls') = Len(calls)
      BY <1>1, <1>7, <2>1, CallMoves DEF TaskAssigned, Returns, Stages
  <2>3. LeaderTyped' BY <1>1, <1>2, <1>7, <2>2 DEF TaskAssigned, LeaderTyped
  <2>4. dispatch' \in [Workers -> Seq(Nat)]
        /\ \A w \in Workers : \A k \in DOMAIN dispatch'[w] : dispatch'[w][k] \in 1 .. Len(calls)
      BY <1>1, <1>2, <1>7, <2>1 DEF TaskAssigned, RolesTyped
  <2>5. RolesTyped' BY <1>2, <1>7, <2>2, <2>4 DEF TaskAssigned, RolesTyped
  <2>6. HistoryTyped' BY <1>1, <1>2, <1>7, <2>1 DEF TaskAssigned, HistoryTyped, Calls
  <2> QED BY <1>2, <1>7, <2>3, <2>5, <2>6, ExecutorKept, EffectsKept DEF TaskAssigned, Typed
<1>8. CASE WorkerMessaged
  <2>1. By # 0 BY <1>1, <1>8 DEF WorkerMessaged, Publishes
  <2>2. calls' \in Seq(Calls) /\ Len(calls') = Len(calls)
      BY <1>1, <1>8, <2>1, CallMoves DEF WorkerMessaged, Returns, Stages
  <2>3. LeaderTyped' BY <1>1, <1>2, <1>8, <2>2 DEF WorkerMessaged, LeaderTyped
  <2>4. RolesTyped' BY <1>1, <1>2, <1>8, <2>2 DEF WorkerMessaged, RolesTyped
  <2> QED BY <1>2, <1>8, <2>3, <2>4, ExecutorKept, EffectsKept, HistoryKept
          DEF WorkerMessaged, Typed
<1>9. CASE ForkCleaned
  <2>1. LeaderTyped' BY <1>1, <1>2, <1>9 DEF ForkCleaned, LeaderTyped, leader
  <2>2. UNCHANGED roles /\ Len(calls') = Len(calls) BY <1>9 DEF ForkCleaned, leader
  <2>3. ExecutorTyped' BY <1>1, <1>2, <1>9 DEF ForkCleaned, ExecutorTyped, Status, Statuses
  <2>4. EffectsTyped'
    <3>1. CASE Of \in finalized
      <4>1. UNCHANGED session /\ mailbox' = [mailbox EXCEPT ![Of] = <<>>]
            /\ draining' = draining \ {Of}
          BY <1>9, <3>1 DEF ForkCleaned, RemoveWorker
      <4> QED BY <1>1, <1>2, <4>1, BoundsAreNat DEF EffectsTyped
    <3>2. CASE Of \notin finalized
        BY <1>2, <1>9, <3>2, EffectsKept DEF ForkCleaned, effects
    <3> QED BY <3>1, <3>2
  <2>5. HistoryTyped' BY <1>1, <1>2, <1>9 DEF ForkCleaned, HistoryTyped, Told, Told3
  <2> QED BY <1>1, <1>2, <2>1, <2>2, <2>3, <2>4, <2>5, RolesKept DEF Typed
<1>10. CASE FailurePublished
  <2>1. QueueFits(queue', Len(calls))
    <3>1. EventFits(Event("fork_cleaned", Of, 0), Len(calls))
        BY <1>1 DEF EventFits, Event, Events, EventTypes
    <3> QED BY <1>1, <1>10, <3>1, QueueGrows DEF FailurePublished
  <2>2. LeaderTyped' BY <1>2, <1>10, <2>1 DEF FailurePublished, LeaderTyped, leader
  <2>3. RolesTyped'
    <3>1. Failure(Head(queue)) /\ Head(queue) = queue[1] /\ 1 \in DOMAIN queue
        BY <1>1, <1>10, QueueShrinks DEF FailurePublished, Publishes, By, Failure
    <3>2. forkChain[Of] # <<>> BY <1>1, <3>1 DEF Handlers, Of
    <3>3. Append(Tail(forkChain[Of]), "kill") \in Seq({"create", "kill"})
        BY <1>1, <1>2, <3>2 DEF RolesTyped
    <3> QED BY <1>1, <1>2, <1>10, <3>3 DEF FailurePublished, RolesTyped, leader
  <2>4. EffectsTyped'
      BY <1>1, <1>2, <1>10, BoundsAreNat DEF FailurePublished, EffectsTyped, RemoveWorker
  <2>5. HistoryTyped' BY <1>1, <1>2, <1>10 DEF FailurePublished, HistoryTyped, Told, Told3
  <2> QED BY <1>2, <1>10, <2>2, <2>3, <2>4, <2>5, ExecutorKept DEF FailurePublished, Typed
<1> QED BY <1>4, <1>5, <1>6, <1>7, <1>8, <1>9, <1>10 DEF Publish

LEMMA AppendFailsTyped == Typed /\ Handlers /\ AppendFails => Typed'
<1> SUFFICES ASSUME Typed, Handlers, AppendFails PROVE Typed'
    OBVIOUS
<1>0. queue # <<>> BY DEF AppendFails
<1>1. /\ calls \in Seq(Calls) /\ Len(calls) \in Nat
      /\ QueueFits(Tail(queue), Len(calls))
      /\ Of \in Workers /\ (By # 0 => By \in DOMAIN calls)
    BY <1>0, HeadFits
<1>2. /\ LeaderTyped /\ RolesTyped /\ ExecutorTyped /\ EffectsTyped /\ HistoryTyped
    BY DEF Typed
<1>3. calls' \in Seq(Calls) /\ Len(calls') = Len(calls)
    BY <1>1, CallMoves DEF AppendFails, Returns, Stages
<1>4. LeaderTyped' BY <1>1, <1>2, <1>3 DEF AppendFails, LeaderTyped
<1>5. RolesTyped'
  <2>1. CASE Publishes("agent_finished") /\ By = 0
    <3>1. Failure(Head(queue)) /\ Head(queue) = queue[1] /\ 1 \in DOMAIN queue
        BY <1>0, <1>1, <2>1, QueueShrinks, HeadFits DEF Publishes, By, Failure
    <3>2. forkChain[Of] # <<>> BY <1>1, <3>1 DEF Handlers, Of
    <3>3. Tail(forkChain[Of]) \in Seq({"create", "kill"})
        BY <1>1, <1>2, <3>2 DEF RolesTyped
    <3> QED BY <1>1, <1>2, <1>3, <2>1, <3>3 DEF AppendFails, RolesTyped
  <2>2. CASE ~(Publishes("agent_finished") /\ By = 0)
      BY <1>1, <1>2, <1>3, <2>2 DEF AppendFails, RolesTyped
  <2> QED BY <2>1, <2>2
<1>6. HistoryTyped' BY <1>2, BoundsAreNat DEF AppendFails, HistoryTyped, history
<1> QED BY <1>2, <1>4, <1>5, <1>6, ExecutorKept, EffectsKept DEF AppendFails, Typed

\* What a role or a session does: it changes at most the queue, its own worker
\* and what the leader is told.
LEMMA ForkEventFits ==
  ASSUME NEW w \in Workers, NEW n \in Nat, NEW type \in {"agent_finished", "fork_cleaned"}
  PROVE  EventFits(Event(type, w, 0), n)
BY DEF EventFits, Event, Events, EventTypes

LEMMA FinalizeTyped ==
  ASSUME Typed, NEW w \in Workers, NEW reason \in Statuses, Finalize(w, reason)
  PROVE  QueueFits(queue', Len(calls)) /\ (UNCHANGED workers => ExecutorTyped')
<1>1. QueueFits(queue, Len(calls)) /\ Len(calls) \in Nat BY DEF Typed, LeaderTyped
<1>2. CASE w \in finalized
    BY <1>1, <1>2 DEF Finalize, Typed, ExecutorTyped
<1>3. CASE w \notin finalized
  <2>1. QueueFits(queue', Len(calls))
    <3>1. queue' = Append(queue, Event("fork_cleaned", w, 0)) BY <1>3 DEF Finalize
    <3>2. EventFits(Event("fork_cleaned", w, 0), Len(calls)) BY <1>1, ForkEventFits
    <3> QED BY <1>1, <3>1, <3>2, QueueGrows
  <2>2. UNCHANGED workers => ExecutorTyped'
      BY <1>3 DEF Finalize, Status, Typed, ExecutorTyped
  <2> QED BY <2>1, <2>2
<1> QED BY <1>2, <1>3

LEMMA WorkerStepTyped ==
  ASSUME Typed, Handlers, NEW w \in Workers,
         \/ HandleFork(w) \/ SpawnFails(w) \/ OnWorkerMessaged(w) \/ DrainMessages(w)
         \/ Dispatch(w) \/ Consume(w) \/ Ends(w)
  PROVE  Typed'
<1>1. /\ calls \in Seq(Calls) /\ Len(calls) \in Nat
      /\ QueueFits(queue, Len(calls))
    BY DEF Typed, LeaderTyped
<1>2. /\ LeaderTyped /\ RolesTyped /\ ExecutorTyped /\ EffectsTyped /\ HistoryTyped
    BY DEF Typed
<1>3. session[w] \in Sessions /\ mailbox[w] \in Seq(Nat) /\ Len(mailbox[w]) \in Nat
    BY <1>2 DEF EffectsTyped
<1>4. CASE CreationBegins(w)
  <2>1. LeaderTyped' BY <1>2, <1>4 DEF CreationBegins, LeaderTyped, leader
  <2>2. RolesTyped' BY <1>2, <1>4 DEF CreationBegins, RolesTyped, leader
  <2>3. ExecutorTyped' BY <1>2, <1>4 DEF CreationBegins, ExecutorTyped, Status, Statuses
  <2> QED BY <1>2, <1>4, <2>1, <2>2, <2>3, EffectsKept, HistoryKept
          DEF CreationBegins, Typed, history
<1>5. CASE StartSession(w)
  <2>1. LeaderTyped' BY <1>2, <1>5 DEF StartSession, LeaderTyped, leader
  <2>2. Tail(forkChain[w]) \in Seq({"create", "kill"})
      BY <1>2, <1>5 DEF StartSession, Heads, RolesTyped
  <2>3. RolesTyped' BY <1>2, <1>5, <2>2 DEF StartSession, RolesTyped, Handled, leader
  <2>4. ExecutorTyped' BY <1>2, <1>5 DEF StartSession, ExecutorTyped, Status, Statuses
  <2>5. [session[w] EXCEPT !.status = "running"] \in Sessions BY <1>3 DEF Sessions
  <2>6. EffectsTyped' BY <1>2, <1>5, <2>5 DEF StartSession, EffectsTyped
  <2> QED BY <1>2, <1>5, <2>1, <2>3, <2>4, <2>6, HistoryKept DEF StartSession, Typed, history
<1>6. CASE KillBegins(w)
  <2>1. LeaderTyped' BY <1>2, <1>6 DEF KillBegins, LeaderTyped, leader
  <2>2. Tail(forkChain[w]) \in Seq({"create", "kill"})
      BY <1>2, <1>6 DEF KillBegins, Heads, RolesTyped
  <2>3. RolesTyped' BY <1>2, <1>6, <2>2 DEF KillBegins, RolesTyped, Handled, leader
  <2>4. ExecutorTyped' BY <1>2, <1>6 DEF KillBegins, ExecutorTyped, Status, Statuses
  <2> QED BY <1>2, <1>6, <2>1, <2>3, <2>4, EffectsKept, HistoryKept DEF KillBegins, Typed, history
<1>7. CASE KillSession(w)
  <2>1. Tail(forkChain[w]) \in Seq({"create", "kill"})
      BY <1>2, <1>7 DEF KillSession, Heads, RolesTyped
  <2>2. RolesTyped' BY <1>2, <1>7, <2>1 DEF KillSession, RolesTyped, Handled, leader
  <2>3. QueueFits(queue', Len(calls)) /\ ExecutorTyped'
    <3>1. CASE session[w].status = "running" /\ ~session[w].killed
        BY <1>7, <3>1, FinalizeTyped DEF KillSession, Statuses
    <3>2. CASE ~(session[w].status = "running" /\ ~session[w].killed)
        BY <1>1, <1>2, <1>7, <3>2, ExecutorKept DEF KillSession, executor
    <3> QED BY <3>1, <3>2
  <2>4. LeaderTyped' BY <1>2, <1>7, <2>3 DEF KillSession, LeaderTyped, leader
  <2>5. [session[w] EXCEPT !.killed = TRUE] \in Sessions BY <1>3 DEF Sessions
  <2>6. EffectsTyped' BY <1>2, <1>7, <2>5 DEF KillSession, EffectsTyped
  <2> QED BY <1>2, <1>7, <2>2, <2>3, <2>4, <2>6, HistoryKept DEF KillSession, Typed, history
<1>8. CASE SpawnFails(w)
  <2>1. QueueFits(queue', Len(calls))
      BY <1>1, <1>8, ForkEventFits, QueueGrows DEF SpawnFails
  <2>2. LeaderTyped' BY <1>2, <1>8, <2>1 DEF SpawnFails, LeaderTyped, leader
  <2>3. RolesTyped' BY <1>2, <1>8 DEF SpawnFails, RolesTyped, leader
  <2> QED BY <1>2, <1>8, <2>2, <2>3, ExecutorKept, EffectsKept, HistoryKept
          DEF SpawnFails, Typed, history
<1>9. ASSUME NEW m \in Nat
      PROVE  [session[w] EXCEPT !.steer = Append(@, m)] \in Sessions
  <2>1. Append(session[w].steer, m) \in Seq(Nat) BY <1>3 DEF Sessions
  <2> QED BY <1>3, <2>1 DEF Sessions
<1>10. CASE OnWorkerMessaged(w)
  <2>1. msgChain[w] \in Seq(Nat) /\ msgChain[w] # <<>> BY <1>2, <1>10 DEF RolesTyped, OnWorkerMessaged
  <2>2. Head(msgChain[w]) \in Nat /\ Tail(msgChain[w]) \in Seq(Nat) BY <2>1
  <2>3. RolesTyped' BY <1>2, <1>10, <2>2 DEF OnWorkerMessaged, RolesTyped, leader
  <2>4. LeaderTyped' BY <1>2, <1>10 DEF OnWorkerMessaged, LeaderTyped, leader
  <2>5. EffectsTyped'
    <3>1. CASE w \in workers
        BY <1>2, <1>9, <1>10, <2>2, <3>1 DEF OnWorkerMessaged, DeliverMessage, EffectsTyped
    <3>2. CASE w \notin workers
      <4>1. /\ Append(mailbox[w], Head(msgChain[w])) \in Seq(Nat)
            /\ Len(Append(mailbox[w], Head(msgChain[w]))) = Len(mailbox[w]) + 1
          BY <1>3, <2>2
      <4>2. Len(Append(mailbox[w], Head(msgChain[w]))) <= MailboxSize
          BY <1>3, <1>10, <3>2, <4>1, BoundsAreNat DEF OnWorkerMessaged
      <4> QED BY <1>2, <1>10, <3>2, <4>1, <4>2 DEF OnWorkerMessaged, EffectsTyped
    <3> QED BY <3>1, <3>2
  <2> QED BY <1>2, <1>10, <2>3, <2>4, <2>5, ExecutorKept, HistoryKept
          DEF OnWorkerMessaged, Typed, history
<1>11. CASE DrainMessages(w)
  <2>1. /\ Head(mailbox[w]) \in Nat /\ Tail(mailbox[w]) \in Seq(Nat)
        /\ Len(Tail(mailbox[w])) <= Len(mailbox[w]) /\ Len(Tail(mailbox[w])) \in Nat
      BY <1>3, <1>11 DEF DrainMessages
  <2>2. Len(Tail(mailbox[w])) <= MailboxSize
      BY <1>2, <1>3, <2>1, BoundsAreNat DEF EffectsTyped
  <2>3. EffectsTyped'
      BY <1>2, <1>9, <1>11, <2>1, <2>2 DEF DrainMessages, DeliverMessage, EffectsTyped
  <2>4. LeaderTyped' BY <1>2, <1>11 DEF DrainMessages, LeaderTyped, leader
  <2>5. RolesTyped' BY <1>2, <1>11, <1>1, RolesKept DEF DrainMessages, leader
  <2> QED BY <1>2, <1>11, <2>3, <2>4, <2>5, ExecutorKept, HistoryKept
          DEF DrainMessages, Typed, history
<1>12. CASE Dispatch(w)
  <2>1. dispatch[w] \in Seq(Nat) /\ dispatch[w] # <<>>
        /\ \A k \in DOMAIN dispatch[w] : dispatch[w][k] \in 1 .. Len(calls)
      BY <1>2, <1>12 DEF Dispatch, RolesTyped
  <2>2. /\ Head(dispatch[w]) \in 1 .. Len(calls) /\ Tail(dispatch[w]) \in Seq(Nat)
        /\ \A k \in DOMAIN Tail(dispatch[w]) : Tail(dispatch[w])[k] \in 1 .. Len(calls)
    <3>1. /\ 1 \in DOMAIN dispatch[w] /\ Head(dispatch[w]) = dispatch[w][1]
          /\ \A k \in DOMAIN Tail(dispatch[w]) :
                k + 1 \in DOMAIN dispatch[w] /\ Tail(dispatch[w])[k] = dispatch[w][k + 1]
        BY <2>1, SMTT(30)
    <3> QED BY <2>1, <3>1
  <2>3. EventFits(Event("worker_messaged", w, Head(dispatch[w])), Len(calls))
      BY <1>1, <2>2 DEF EventFits, Event, Events, EventTypes
  <2>4. QueueFits(queue', Len(calls)) BY <1>1, <1>12, <2>3, QueueGrows DEF Dispatch
  <2>5. LeaderTyped' BY <1>2, <1>12, <2>4 DEF Dispatch, LeaderTyped, leader
  <2>6. RolesTyped' BY <1>2, <1>12, <2>2 DEF Dispatch, RolesTyped, leader
  <2> QED BY <1>2, <1>12, <2>5, <2>6, ExecutorKept, EffectsKept, HistoryKept
          DEF Dispatch, Typed, history
<1>13. CASE Consume(w)
  <2>1. Tail(session[w].steer) \in Seq(Nat) BY <1>3, <1>13 DEF Consume, Sessions
  <2>2. [session[w] EXCEPT !.steer = Tail(@)] \in Sessions BY <1>3, <2>1 DEF Sessions
  <2>3. EffectsTyped' BY <1>2, <1>13, <2>2 DEF Consume, EffectsTyped
  <2>4. LeaderTyped' BY <1>2, <1>13 DEF Consume, LeaderTyped, leader
  <2>5. RolesTyped' BY <1>1, <1>2, <1>13, RolesKept DEF Consume, leader
  <2> QED BY <1>2, <1>13, <2>3, <2>4, <2>5, ExecutorKept, HistoryKept DEF Consume, Typed
<1>14. CASE Ends(w)
  <2>1. PICK outcome \in Outcomes : LoopEnds(w, outcome) BY <1>14 DEF Ends
  <2>2. PICK reason \in Statuses : Finalize(w, reason)
      BY <2>1 DEF LoopEnds, Statuses, Outcomes
  <2>3. QueueFits(queue', Len(calls)) /\ ExecutorTyped'
      BY <2>1, <2>2, FinalizeTyped DEF LoopEnds
  <2>4. LeaderTyped' BY <1>2, <2>1, <2>3 DEF LoopEnds, LeaderTyped, leader
  <2>5. [session[w] EXCEPT !.status = outcome] \in Sessions BY <1>3 DEF Sessions
  <2>6. EffectsTyped' BY <1>2, <2>1, <2>5 DEF LoopEnds, EffectsTyped
  <2>7. HistoryTyped'
    <3>1. told' \in [Workers -> Nat]
      <4>1. CASE w \in intentionallyKilled
          BY <1>2, <2>1, <4>1 DEF LoopEnds, HistoryTyped
      <4>2. CASE w \notin intentionallyKilled
        <5>1. told' = [told EXCEPT ![w] = @ + 1] BY <2>1, <4>2 DEF LoopEnds
        <5>2. told[w] + 1 \in Nat BY <1>2 DEF HistoryTyped
        <5> QED BY <1>2, <5>1, <5>2 DEF HistoryTyped
      <4> QED BY <4>1, <4>2
    <3> QED BY <1>2, <2>1, <3>1 DEF LoopEnds, HistoryTyped
  <2>8. RolesTyped' BY <1>1, <1>2, <2>1, RolesKept DEF LoopEnds, leader
  <2> QED BY <2>3, <2>4, <2>6, <2>7, <2>8 DEF Typed
<1> QED BY <1>4, <1>5, <1>6, <1>7, <1>8, <1>10, <1>11, <1>12, <1>13, <1>14 DEF HandleFork

LEMMA TypedStep == Typed /\ Handlers /\ [Next]_vars => Typed'
<1> SUFFICES ASSUME Typed, Handlers, [Next]_vars PROVE Typed'
    OBVIOUS
<1>1. CASE UNCHANGED vars
    BY <1>1 DEF vars, leader, roles, executor, effects, history, Typed, LeaderTyped, RolesTyped,
       ExecutorTyped, EffectsTyped, HistoryTyped
<1>2. CASE Next
    BY <1>2, LeaderCallsTyped, AcquireTyped, PublishTyped, AppendFailsTyped, WorkerStepTyped
    DEF Next
<1> QED BY <1>1, <1>2

-----------------------------------------------------------------------------
(* How a step moves the queue: d events have left at its head, and the     *)
(* events of es (at most one) have joined at its end.                      *)

Shift(d, es) == \A k \in DOMAIN queue' :
    /\ k \in Nat \ {0}
    /\ \/ k + d \in DOMAIN queue /\ queue'[k] = queue[k + d]
       \/ k = Len(queue) - d + 1 /\ queue'[k] \in es

LEMMA QueueIsSeq == Typed =>
    queue \in Seq(Events) /\ Len(queue) \in Nat /\ DOMAIN queue = 1 .. Len(queue)
BY DEF Typed, LeaderTyped, QueueFits

LEMMA ShiftKept == Typed /\ UNCHANGED queue => Shift(0, {})
BY QueueIsSeq DEF Shift

LEMMA ShiftGrown == ASSUME Typed, NEW e \in Events, queue' = Append(queue, e) PROVE Shift(0, {e})
<1>1. queue \in Seq(Events) BY QueueIsSeq
<1>2. /\ DOMAIN queue' = 1 .. Len(queue) + 1 /\ queue'[Len(queue) + 1] = e
      /\ \A k \in 1 .. Len(queue) : queue'[k] = queue[k]
    BY <1>1
<1> QED BY <1>2, QueueIsSeq DEF Shift

LEMMA ShiftShrunk == Typed /\ queue # <<>> /\ queue' = Tail(queue) => Shift(1, {})
<1> SUFFICES ASSUME Typed, queue # <<>>, queue' = Tail(queue) PROVE Shift(1, {})
    OBVIOUS
<1>1. queue \in Seq(Events) BY QueueIsSeq
<1>2. \A k \in DOMAIN queue' : k + 1 \in DOMAIN queue /\ queue'[k] = queue[k + 1]
    BY <1>1
<1> QED BY <1>2 DEF Shift

LEMMA ShiftReplaced ==
  ASSUME Typed, queue # <<>>, NEW e \in Events, queue' = Append(Tail(queue), e)
  PROVE  Shift(1, {e})
<1>1. queue \in Seq(Events) BY QueueIsSeq
<1>2. /\ Tail(queue) \in Seq(Events) /\ Len(Tail(queue)) = Len(queue) - 1
      /\ \A k \in DOMAIN Tail(queue) : k + 1 \in DOMAIN queue /\ Tail(queue)[k] = queue[k + 1]
    BY <1>1
<1>3. /\ DOMAIN queue' = 1 .. Len(queue) - 1 + 1 /\ queue'[Len(queue) - 1 + 1] = e
      /\ \A k \in DOMAIN Tail(queue) : queue'[k] = Tail(queue)[k]
      /\ DOMAIN Tail(queue) = 1 .. Len(queue) - 1
    BY <1>2, QueueIsSeq
<1> QED BY <1>2, <1>3, QueueIsSeq DEF Shift

LEMMA EventTyped ==
    \A type \in EventTypes, w \in Workers, i \in Nat : Event(type, w, i) \in Events
BY DEF Event, Events

\* The handlers stay in order when the events that remain and those that join
\* keep their handler waiting.
LEMMA HandlersMove ==
  ASSUME Typed, Handlers, NEW d \in {0, 1}, NEW es, Shift(d, es),
         \A w \in Workers : handling'[w] # "idle" =>
            /\ forkChain'[w] # <<>>
            /\ Head(forkChain'[w]) = IF handling'[w] = "marked" THEN "kill" ELSE "create",
         \A k \in DOMAIN queue : k > d /\ Failure(queue[k]) =>
            handling'[queue[k].worker] = "failing",
         \A e \in es : Failure(e) =>
            handling[e.worker] # "failing" /\ handling'[e.worker] = "failing"
  PROVE  Handlers'
<1>0. DOMAIN queue = 1 .. Len(queue) /\ Len(queue) \in Nat BY QueueIsSeq
<1>1. ASSUME NEW k \in DOMAIN queue', Failure(queue'[k])
      PROVE  handling'[queue'[k].worker] = "failing"
  <2>1. CASE k + d \in DOMAIN queue /\ queue'[k] = queue[k + d]
    <3>1. k + d > d BY DEF Shift
    <3> QED BY <1>1, <2>1, <3>1
  <2>2. CASE queue'[k] \in es BY <1>1, <2>2
  <2> QED BY <2>1, <2>2 DEF Shift
<1>2. ASSUME NEW j \in DOMAIN queue', NEW k \in DOMAIN queue', Failure(queue'[j]),
             Failure(queue'[k]), queue'[j].worker = queue'[k].worker
      PROVE  j = k
  <2>1. \A i \in DOMAIN queue : Failure(queue[i]) => handling[queue[i].worker] = "failing"
      BY DEF Handlers
  <2>2. j \in Nat /\ k \in Nat BY DEF Shift
  <2>3. CASE /\ j + d \in DOMAIN queue /\ queue'[j] = queue[j + d]
             /\ k + d \in DOMAIN queue /\ queue'[k] = queue[k + d]
    <3>1. j + d = k + d BY <1>2, <2>3 DEF Handlers
    <3> QED BY <2>2, <3>1
  <2>4. CASE /\ j = Len(queue) - d + 1 /\ queue'[j] \in es
             /\ k = Len(queue) - d + 1 /\ queue'[k] \in es
      BY <2>4
  <2>5. CASE /\ j + d \in DOMAIN queue /\ queue'[j] = queue[j + d]
             /\ queue'[k] \in es
      BY <1>2, <2>1, <2>5
  <2>6. CASE /\ k + d \in DOMAIN queue /\ queue'[k] = queue[k + d]
             /\ queue'[j] \in es
      BY <1>2, <2>1, <2>6
  <2> QED BY <2>3, <2>4, <2>5, <2>6 DEF Shift
<1> QED BY <1>1, <1>2 DEF Handlers

\* When neither the handlers nor what they handle move.
LEMMA HandlersKept ==
  ASSUME Typed, Handlers, NEW d \in {0, 1}, NEW es, Shift(d, es),
         UNCHANGED <<forkChain, handling>>, \A e \in es : ~Failure(e)
  PROVE  Handlers'
<1>1. \A w \in Workers : handling'[w] # "idle" =>
            /\ forkChain'[w] # <<>>
            /\ Head(forkChain'[w]) = IF handling'[w] = "marked" THEN "kill" ELSE "create"
    BY DEF Handlers
<1>2. \A k \in DOMAIN queue : k > d /\ Failure(queue[k]) =>
            handling'[queue[k].worker] = "failing"
    BY DEF Handlers
<1>3. \A e \in es : Failure(e) =>
            handling[e.worker] # "failing" /\ handling'[e.worker] = "failing"
    OBVIOUS
<1> HIDE DEF Handlers
<1> QED BY <1>1, <1>2, <1>3, HandlersMove

\* Appending to what is pending leaves the first of it where it is.
LEMMA HeadStays ==
  ASSUME NEW S, NEW s \in Seq(S), NEW x \in S
  PROVE  /\ Append(s, x) \in Seq(S) /\ Append(s, x) # <<>>
         /\ s # <<>> => Head(Append(s, x)) = Head(s)
BY SMTT(30)

LEMMA HandlersInit == Init => Handlers
BY DEF Init, Handlers

LEMMA HandlersPublish == Typed /\ Handlers /\ Publish => Handlers'
<1> SUFFICES ASSUME Typed, Handlers, Publish PROVE Handlers'
    OBVIOUS
<1>0. queue # <<>>
    BY DEF Publish, AgentCreated, Confirmed, Killed, TaskAssigned, WorkerMessaged,
           ForkCleaned, FailurePublished, Publishes
<1>1. Of \in Workers /\ By \in Nat /\ (By = 0 => Head(queue).type \in {"agent_finished", "fork_cleaned"})
    BY <1>0, HeadFits
<1>2. RolesTyped BY DEF Typed
<1>3. CASE Confirmed
  <2>1. Shift(1, {}) BY <1>0, <1>3, ShiftShrunk DEF Confirmed
  <2> QED BY <1>3, <2>1, HandlersKept DEF Confirmed, roles
<1>4. CASE TaskAssigned
  <2>1. Shift(1, {}) BY <1>0, <1>4, ShiftShrunk DEF TaskAssigned
  <2> QED BY <1>4, <2>1, HandlersKept DEF TaskAssigned
<1>5. CASE WorkerMessaged
  <2>1. Shift(1, {}) BY <1>0, <1>5, ShiftShrunk DEF WorkerMessaged
  <2> QED BY <1>5, <2>1, HandlersKept DEF WorkerMessaged
<1>6. CASE ForkCleaned
  <2>1. Shift(1, {}) BY <1>0, <1>6, ShiftShrunk DEF ForkCleaned
  <2> QED BY <1>6, <2>1, HandlersKept DEF ForkCleaned, roles
<1>7. CASE AgentCreated \/ Killed
  <2>1. PICK e \in Events : ~Failure(e) /\ queue' = Append(Tail(queue), e)
    <3>1. CASE AgentCreated
        BY <1>1, <3>1, EventTyped DEF AgentCreated, Event, Failure, EventTypes
    <3>2. CASE Killed
        BY <1>1, <3>2, EventTyped DEF Killed, Event, Failure, EventTypes
    <3> QED BY <1>7, <3>1, <3>2
  <2>2. Shift(1, {e}) BY <1>0, <2>1, ShiftReplaced
  <2>3. UNCHANGED handling BY <1>7 DEF AgentCreated, Killed
  <2>4. ASSUME NEW w \in Workers, handling'[w] # "idle"
        PROVE  /\ forkChain'[w] # <<>>
               /\ Head(forkChain'[w]) = IF handling'[w] = "marked" THEN "kill" ELSE "create"
    <3>1. /\ forkChain[w] # <<>> /\ forkChain[w] \in Seq({"create", "kill"})
          /\ Head(forkChain[w]) = IF handling'[w] = "marked" THEN "kill" ELSE "create"
        BY <1>2, <2>3, <2>4 DEF Handlers, RolesTyped
    <3>2. \/ forkChain'[w] = forkChain[w]
          \/ \E x \in {"create", "kill"} : forkChain'[w] = Append(forkChain[w], x)
        BY <1>1, <1>2, <1>7 DEF AgentCreated, Killed, RolesTyped
    <3> QED BY <3>1, <3>2, HeadStays
  <2>5. \A k \in DOMAIN queue : k > 1 /\ Failure(queue[k]) =>
            handling'[queue[k].worker] = "failing"
      BY <2>3 DEF Handlers
  <2> HIDE DEF Handlers
  <2> QED BY <2>1, <2>2, <2>4, <2>5, HandlersMove
<1>8. CASE FailurePublished
  <2>1. Event("fork_cleaned", Of, 0) \in Events /\ ~Failure(Event("fork_cleaned", Of, 0))
      BY <1>1, EventTyped DEF Event, Failure, EventTypes
  <2>2. Shift(1, {Event("fork_cleaned", Of, 0)})
      BY <1>0, <1>8, <2>1, ShiftReplaced DEF FailurePublished
  <2>3. handling' = [handling EXCEPT ![Of] = "idle"]
        /\ \A w \in Workers : w # Of => forkChain'[w] = forkChain[w]
      BY <1>2, <1>8 DEF FailurePublished, RolesTyped
  <2>4. \A w \in Workers : handling'[w] # "idle" =>
            /\ forkChain'[w] # <<>>
            /\ Head(forkChain'[w]) = IF handling'[w] = "marked" THEN "kill" ELSE "create"
      BY <1>2, <2>3 DEF Handlers, RolesTyped
  <2>5. ASSUME NEW k \in DOMAIN queue, k > 1, Failure(queue[k])
        PROVE  handling'[queue[k].worker] = "failing"
    <3>1. 1 \in DOMAIN queue /\ Head(queue) = queue[1] /\ queue[k] \in Events
        BY <1>0, QueueIsSeq
    <3>2. Failure(queue[1]) /\ Of = queue[1].worker
        BY <1>8, <3>1 DEF FailurePublished, Publishes, By, Of, Failure
    <3>3. queue[k].worker # Of /\ queue[k].worker \in Workers
        BY <2>5, <3>1, <3>2 DEF Handlers, Events
    <3> QED BY <1>2, <2>3, <2>5, <3>3 DEF Handlers, RolesTyped
  <2> HIDE DEF Handlers
  <2> QED BY <2>1, <2>2, <2>4, <2>5, HandlersMove
<1> QED BY <1>3, <1>4, <1>5, <1>6, <1>7, <1>8 DEF Publish

LEMMA HandlersAppendFails == Typed /\ Handlers /\ AppendFails => Handlers'
<1> SUFFICES ASSUME Typed, Handlers, AppendFails PROVE Handlers'
    OBVIOUS
<1>0. queue # <<>> BY DEF AppendFails
<1>1. Of \in Workers BY <1>0, HeadFits
<1>2. RolesTyped BY DEF Typed
<1>3. Shift(1, {}) BY <1>0, ShiftShrunk DEF AppendFails
<1>4. CASE ~(Publishes("agent_finished") /\ By = 0)
    BY <1>3, <1>4, HandlersKept DEF AppendFails
<1>5. CASE Publishes("agent_finished") /\ By = 0
  <2>3. handling' = [handling EXCEPT ![Of] = "idle"]
        /\ \A w \in Workers : w # Of => forkChain'[w] = forkChain[w]
      BY <1>2, <1>5 DEF AppendFails, RolesTyped
  <2>4. \A w \in Workers : handling'[w] # "idle" =>
            /\ forkChain'[w] # <<>>
            /\ Head(forkChain'[w]) = IF handling'[w] = "marked" THEN "kill" ELSE "create"
      BY <1>2, <2>3 DEF Handlers, RolesTyped
  <2>5. ASSUME NEW k \in DOMAIN queue, k > 1, Failure(queue[k])
        PROVE  handling'[queue[k].worker] = "failing"
    <3>1. 1 \in DOMAIN queue /\ Head(queue) = queue[1] /\ queue[k] \in Events
        BY <1>0, QueueIsSeq
    <3>2. Failure(queue[1]) /\ Of = queue[1].worker
        BY <1>5, <3>1 DEF Publishes, By, Of, Failure
    <3>3. queue[k].worker # Of /\ queue[k].worker \in Workers
        BY <2>5, <3>1, <3>2 DEF Handlers, Events
    <3> QED BY <1>2, <2>3, <2>5, <3>3 DEF Handlers, RolesTyped
  <2> HIDE DEF Handlers
  <2> QED BY <1>3, <2>4, <2>5, HandlersMove
<1> QED BY <1>4, <1>5

\* finalizeWorker() publishes at most one event, which no handler waits for.
LEMMA FinalizeShifts ==
  ASSUME Typed, NEW w \in Workers, NEW reason, Finalize(w, reason)
  PROVE  \E es \in {{}, {Event("fork_cleaned", w, 0)}} :
            Shift(0, es) /\ (w \in finalized => es = {}) /\ (\A e \in es : ~Failure(e))
<1>1. CASE w \in finalized
    BY <1>1, ShiftKept DEF Finalize
<1>2. CASE w \notin finalized
  <2>1. Event("fork_cleaned", w, 0) \in Events /\ ~Failure(Event("fork_cleaned", w, 0))
      BY EventTyped DEF Event, Failure, EventTypes
  <2>2. queue' = Append(queue, Event("fork_cleaned", w, 0)) BY <1>2 DEF Finalize
  <2>3. Shift(0, {Event("fork_cleaned", w, 0)}) BY <2>1, <2>2, ShiftGrown
  <2> QED BY <1>2, <2>1, <2>3
<1> QED BY <1>1, <1>2

LEMMA HandlersWorker ==
  ASSUME Typed, Handlers, NEW w \in Workers,
         \/ HandleFork(w) \/ SpawnFails(w) \/ OnWorkerMessaged(w) \/ DrainMessages(w)
         \/ Dispatch(w) \/ Consume(w) \/ Ends(w)
  PROVE  Handlers'
<1>1. RolesTyped BY DEF Typed
\* A step that makes this worker's handler idle, or moves it on, when no
\* failure of its spawn is in the queue.
<1>2. ASSUME NEW es, Shift(0, es), \A e \in es : ~Failure(e), handling[w] # "failing",
             \A v \in Workers : v # w => handling'[v] = handling[v] /\ forkChain'[v] = forkChain[v],
             handling'[w] # "idle" =>
                /\ forkChain'[w] # <<>>
                /\ Head(forkChain'[w]) = IF handling'[w] = "marked" THEN "kill" ELSE "create"
      PROVE  Handlers'
  <2>1. \A v \in Workers : handling'[v] # "idle" =>
            /\ forkChain'[v] # <<>>
            /\ Head(forkChain'[v]) = IF handling'[v] = "marked" THEN "kill" ELSE "create"
      BY <1>2 DEF Handlers
  <2>2. ASSUME NEW k \in DOMAIN queue, Failure(queue[k])
        PROVE  handling'[queue[k].worker] = "failing"
    <3>1. queue[k] \in Events BY QueueIsSeq
    <3>2. queue[k].worker \in Workers /\ queue[k].worker # w
        BY <1>2, <2>2, <3>1 DEF Handlers, Events
    <3> QED BY <1>2, <2>2, <3>2 DEF Handlers
  <2>3. \A e \in es : Failure(e) =>
            handling[e.worker] # "failing" /\ handling'[e.worker] = "failing"
      BY <1>2
  <2> HIDE DEF Handlers
  <2> QED BY <1>2, <2>1, <2>2, <2>3, HandlersMove
<1>3. CASE CreationBegins(w)
  <2>1. Shift(0, {}) BY <1>3, ShiftKept DEF CreationBegins
  <2>2. /\ \A v \in Workers : v # w => handling'[v] = handling[v] /\ forkChain'[v] = forkChain[v]
        /\ handling'[w] = "setup" /\ forkChain'[w] = forkChain[w] /\ handling[w] = "idle"
        /\ forkChain[w] # <<>> /\ Head(forkChain[w]) = "create"
      BY <1>1, <1>3 DEF CreationBegins, Heads, RolesTyped
  <2> QED BY <1>2, <2>1, <2>2
<1>4. CASE StartSession(w)
  <2>1. Shift(0, {}) BY <1>4, ShiftKept DEF StartSession
  <2>2. /\ \A v \in Workers : v # w => handling'[v] = handling[v] /\ forkChain'[v] = forkChain[v]
        /\ handling'[w] = "idle" /\ handling[w] = "setup"
      BY <1>1, <1>4 DEF StartSession, Heads, Handled, RolesTyped
  <2> QED BY <1>2, <2>1, <2>2
<1>5. CASE KillBegins(w)
  <2>1. Shift(0, {}) BY <1>5, ShiftKept DEF KillBegins
  <2>2. /\ \A v \in Workers : v # w => handling'[v] = handling[v] /\ forkChain'[v] = forkChain[v]
        /\ handling[w] = "idle" /\ forkChain[w] # <<>> /\ Head(forkChain[w]) = "kill"
        /\ \/ handling'[w] = "idle"
           \/ handling'[w] = "marked" /\ forkChain'[w] = forkChain[w]
      BY <1>1, <1>5 DEF KillBegins, Heads, Handled, RolesTyped
  <2> QED BY <1>2, <2>1, <2>2
<1>6. CASE KillSession(w)
  <2>1. PICK es : Shift(0, es) /\ \A e \in es : ~Failure(e)
    <3>1. CASE session[w].status = "running" /\ ~session[w].killed
        BY <1>6, <3>1, FinalizeShifts DEF KillSession
    <3>2. CASE ~(session[w].status = "running" /\ ~session[w].killed)
        BY <1>6, <3>2, ShiftKept DEF KillSession
    <3> QED BY <3>1, <3>2
  <2>2. /\ \A v \in Workers : v # w => handling'[v] = handling[v] /\ forkChain'[v] = forkChain[v]
        /\ handling'[w] = "idle" /\ handling[w] = "marked"
      BY <1>1, <1>6 DEF KillSession, Heads, Handled, RolesTyped
  <2> QED BY <1>2, <2>1, <2>2
<1>7. CASE SpawnFails(w)
  <2> DEFINE e == Event("agent_finished", w, 0)
  <2>1. e \in Events /\ e.worker = w BY EventTyped DEF Event, EventTypes
  <2>2. Shift(0, {e}) BY <1>7, <2>1, ShiftGrown DEF SpawnFails
  <2>3. /\ \A v \in Workers : v # w => handling'[v] = handling[v] /\ forkChain'[v] = forkChain[v]
        /\ handling'[w] = "failing" /\ forkChain'[w] = forkChain[w] /\ handling[w] = "setup"
        /\ forkChain[w] # <<>> /\ Head(forkChain[w]) = "create"
      BY <1>1, <1>7 DEF SpawnFails, Heads, RolesTyped
  <2>4. \A v \in Workers : handling'[v] # "idle" =>
            /\ forkChain'[v] # <<>>
            /\ Head(forkChain'[v]) = IF handling'[v] = "marked" THEN "kill" ELSE "create"
      BY <2>3 DEF Handlers
  <2>5. ASSUME NEW k \in DOMAIN queue, Failure(queue[k])
        PROVE  handling'[queue[k].worker] = "failing"
    <3>1. queue[k] \in Events BY QueueIsSeq
    <3> QED BY <2>3, <2>5, <3>1 DEF Handlers, Events
  <2>6. \A x \in {e} : Failure(x) =>
            handling[x.worker] # "failing" /\ handling'[x.worker] = "failing"
      BY <2>1, <2>3
  <2> HIDE DEF Handlers, e
  <2> QED BY <2>2, <2>4, <2>5, <2>6, HandlersMove
<1>8. CASE OnWorkerMessaged(w) \/ DrainMessages(w) \/ Consume(w)
  <2>1. UNCHANGED <<queue, forkChain, handling>>
      BY <1>8 DEF OnWorkerMessaged, DrainMessages, Consume, roles
  <2> QED BY <2>1, ShiftKept, HandlersKept
<1>9. CASE Dispatch(w)
  <2>1. PICK i \in Nat : i # 0 /\ queue' = Append(queue, Event("worker_messaged", w, i))
    <3>1. dispatch[w] \in Seq(Nat) /\ dispatch[w] # <<>>
          /\ \A k \in DOMAIN dispatch[w] : dispatch[w][k] \in 1 .. Len(calls)
        BY <1>1, <1>9 DEF Dispatch, RolesTyped
    <3>2. Head(dispatch[w]) = dispatch[w][1] /\ 1 \in DOMAIN dispatch[w] BY <3>1
    <3> QED BY <1>9, <3>1, <3>2 DEF Dispatch
  <2>2. Event("worker_messaged", w, i) \in Events /\ ~Failure(Event("worker_messaged", w, i))
      BY EventTyped DEF Event, Failure, EventTypes
  <2>3. Shift(0, {Event("worker_messaged", w, i)}) BY <2>1, <2>2, ShiftGrown
  <2> QED BY <1>9, <2>2, <2>3, HandlersKept DEF Dispatch
<1>10. CASE Ends(w)
  <2>1. PICK reason : Finalize(w, reason) BY <1>10 DEF Ends, LoopEnds
  <2>2. PICK es : Shift(0, es) /\ \A e \in es : ~Failure(e) BY <2>1, FinalizeShifts
  <2> QED BY <1>10, <2>2, HandlersKept DEF Ends, LoopEnds, roles
<1> QED BY <1>3, <1>4, <1>5, <1>6, <1>7, <1>8, <1>9, <1>10 DEF HandleFork

LEMMA HandlersStep == Typed /\ Handlers /\ [Next]_vars => Handlers'
<1> SUFFICES ASSUME Typed, Handlers, [Next]_vars PROVE Handlers'
    OBVIOUS
<1>1. CASE UNCHANGED vars
    BY <1>1, ShiftKept, HandlersKept DEF vars, roles
<1>2. CASE LeaderCalls
  <2>1. UNCHANGED <<forkChain, handling>>
      BY <1>2 DEF LeaderCalls, MessageWorker, SpawnWorker, KillWorker, ReassignWorker, roles
  <2>2. CASE \E w \in Workers : MessageWorker(w)
    <3>1. PICK w \in Workers : MessageWorker(w) BY <2>2
    <3>2. PICK e : e = Event("worker_messaged", w, Len(calls) + 1) OBVIOUS
    <3>3. e \in Events /\ ~Failure(e)
        BY <3>2, EventTyped DEF Event, Failure, EventTypes, Typed, LeaderTyped
    <3>4. Shift(0, {e}) BY <3>1, <3>2, <3>3, ShiftGrown DEF MessageWorker
    <3> QED BY <2>1, <3>3, <3>4, HandlersKept
  <2>3. CASE UNCHANGED queue
      BY <2>1, <2>3, ShiftKept, HandlersKept
  <2> QED BY <1>2, <2>2, <2>3 DEF LeaderCalls, SpawnWorker, KillWorker, ReassignWorker
<1>3. ASSUME NEW i \in DOMAIN calls, Acquire(i) PROVE Handlers'
  <2>1. PICK e : e = Event(FirstEvent[calls[i].op], calls[i].worker, i) OBVIOUS
  <2>2. e \in Events /\ ~Failure(e)
    <3>1. calls[i] \in Calls /\ i \in Nat /\ i # 0 BY DEF Typed, LeaderTyped
    <3>2. calls[i].op \in {"spawn", "kill", "reassign"} /\ calls[i].worker \in Workers
        BY <1>3, <3>1 DEF Acquire, Calls, Ops
    <3>3. FirstEvent[calls[i].op] \in EventTypes BY <3>2 DEF FirstEvent, EventTypes
    <3> QED BY <2>1, <3>1, <3>2, <3>3, EventTyped DEF Event, Failure
  <2>3. Shift(0, {e}) BY <1>3, <2>1, <2>2, ShiftGrown DEF Acquire
  <2> QED BY <1>3, <2>2, <2>3, HandlersKept DEF Acquire, roles
<1> QED BY <1>1, <1>2, <1>3, HandlersPublish, HandlersAppendFails, HandlersWorker DEF Next

\* Every variable has its type (TypeOK), whatever the store, the models and the
\* leader do: no handler finds its event gone, and no mailbox overflows.
THEOREM TypeCorrect == Spec => []TypeOK
<1>1. Init => Typed /\ Handlers BY TypedInit, HandlersInit
<1>2. Typed /\ Handlers /\ [Next]_vars => (Typed /\ Handlers)' BY TypedStep, HandlersStep
<1>3. Typed => TypeOK BY TypedImpliesTypeOK
<1> QED BY <1>1, <1>2, <1>3, PTL DEF Spec

-----------------------------------------------------------------------------
(* The calls and their events.  Each call publishes its first event while  *)
(* it has the permit, and goes on only when that one event is out.         *)

First(e) == e.call # 0 /\ e.type \in {"agent_created", "agent_finished", "task.assigned"}

\* The event e belongs to the calls cs as they are.
Matches(e, cs) ==
    /\ First(e) => LET c == cs[e.call]
                   IN /\ c.op # "message" /\ c.at = "publishing"
                      /\ e.type = FirstEvent[c.op] /\ e.worker = c.worker
    /\ e.type \in {"fork_created", "worker_killed"} =>
        cs[e.call].op \in {"spawn", "kill"} /\ cs[e.call].at \in {"confirming", "returned"}
    /\ e.type = "worker_messaged" =>
        \/ cs[e.call].op = "message"
        \/ cs[e.call].op = "reassign" /\ cs[e.call].at = "returned"
    /\ e.type = "fork_cleaned" => e.call = 0

EventsMatch ==
    /\ \A k \in DOMAIN queue : Matches(queue[k], calls)
    /\ \A j, k \in DOMAIN queue :
        First(queue[j]) /\ First(queue[k]) /\ queue[j].call = queue[k].call => j = k

Busy(c) == c.op # "message" /\ c.at \in {"publishing", "confirming"}
CallsInTurn ==
    /\ \A i, j \in DOMAIN calls : Busy(calls[i]) /\ Busy(calls[j]) => i = j
    /\ \A i, j \in DOMAIN calls :
        calls[i].op = "spawn" /\ calls[j].op = "spawn" /\ calls[i].worker = calls[j].worker => i = j
    /\ \A i \in DOMAIN calls :
        calls[i].op = "spawn" /\ calls[i].at \in {"waiting", "publishing"} =>
            calls[i].worker \notin forks
    /\ \A w \in forks : \E i \in DOMAIN calls : calls[i].op = "spawn" /\ calls[i].worker = w
    /\ \A w \in Workers : \A k \in DOMAIN dispatch[w] :
        calls[dispatch[w][k]].op = "reassign" /\ calls[dispatch[w][k]].at = "returned"

LEMMA EventsMove ==
  ASSUME Typed, EventsMatch, NEW d \in {0, 1}, NEW es, Shift(d, es),
         \A k \in DOMAIN queue : k > d => Matches(queue[k], calls'),
         \A e \in es : /\ Matches(e, calls')
                       /\ First(e) => \A k \in DOMAIN queue :
                                        ~(First(queue[k]) /\ queue[k].call = e.call)
  PROVE  EventsMatch'
<1>1. ASSUME NEW k \in DOMAIN queue' PROVE Matches(queue'[k], calls')
  <2>1. CASE k + d \in DOMAIN queue /\ queue'[k] = queue[k + d]
    <3>1. k + d > d BY DEF Shift
    <3> QED BY <2>1, <3>1
  <2>2. CASE queue'[k] \in es BY <2>2
  <2> QED BY <2>1, <2>2 DEF Shift
<1>2. ASSUME NEW j \in DOMAIN queue', NEW k \in DOMAIN queue', First(queue'[j]),
             First(queue'[k]), queue'[j].call = queue'[k].call
      PROVE  j = k
  <2>2. j \in Nat /\ k \in Nat BY DEF Shift
  <2>3. CASE /\ j + d \in DOMAIN queue /\ queue'[j] = queue[j + d]
             /\ k + d \in DOMAIN queue /\ queue'[k] = queue[k + d]
    <3>1. j + d = k + d BY <1>2, <2>3 DEF EventsMatch
    <3> QED BY <2>2, <3>1
  <2>4. CASE /\ j = Len(queue) - d + 1 /\ k = Len(queue) - d + 1
      BY <2>4
  <2>5. CASE /\ j + d \in DOMAIN queue /\ queue'[j] = queue[j + d] /\ queue'[k] \in es
      BY <1>2, <2>5
  <2>6. CASE /\ k + d \in DOMAIN queue /\ queue'[k] = queue[k + d] /\ queue'[j] \in es
      BY <1>2, <2>6
  <2> QED BY <2>3, <2>4, <2>5, <2>6 DEF Shift
<1> QED BY <1>1, <1>2 DEF EventsMatch

\* Of the events behind the head, none waits for the call that the head frees.
LEMMA CallFreed ==
  ASSUME Typed, EventsMatch, queue # <<>>, By # 0,
         NEW s \in {"confirming", "returned"}, calls' = [calls EXCEPT ![By].at = s],
         s = "confirming" => First(Head(queue)) /\ Head(queue).type # "task.assigned",
         NEW k \in DOMAIN queue, k > 1
  PROVE  Matches(queue[k], calls')
<1>1. /\ calls \in Seq(Calls) /\ By \in DOMAIN calls
      /\ 1 \in DOMAIN queue /\ Head(queue) = queue[1]
      /\ queue[k] \in Events /\ queue[1] \in Events
      /\ EventFits(queue[k], Len(calls)) /\ EventFits(queue[1], Len(calls))
      /\ DOMAIN calls = 1 .. Len(calls) /\ Len(calls) \in Nat
    BY HeadFits, QueueIsSeq DEF Typed, LeaderTyped, QueueFits
<1>2. \A j \in DOMAIN calls : /\ calls'[j].op = calls[j].op /\ calls'[j].worker = calls[j].worker
                              /\ calls'[j].at = IF j = By THEN s ELSE calls[j].at
    BY <1>1, CallMoves DEF Stages
<1>3. Matches(queue[k], calls) /\ Matches(queue[1], calls) BY <1>1 DEF EventsMatch
<1>4. queue[k].call = 0 \/ queue[k].call \in DOMAIN calls
    BY <1>1 DEF EventFits
<1>5. CASE queue[k].call # By
    BY <1>1, <1>2, <1>3, <1>4, <1>5 DEF Matches, First, EventFits
<1>6. CASE queue[k].call = By
  <2>1. queue[1].call = By /\ queue[1].type \in EventTypes BY <1>1 DEF By, Events
  <2>2. ~First(queue[k])
    <3>1. ~(First(queue[k]) /\ First(queue[1])) BY <1>1, <1>6, <2>1 DEF EventsMatch
    <3> QED BY <1>3, <1>6, <2>1, <3>1 DEF Matches, First, EventTypes
  <2>3. queue[k].type = "worker_messaged" =>
        \/ calls'[By].op = "message"
        \/ calls'[By].op = "reassign" /\ calls'[By].at = "returned"
    <3>1. s = "confirming" => calls[By].op \in {"spawn", "kill"}
      <4>1. s = "confirming" => First(queue[1]) /\ queue[1].type # "task.assigned" BY <1>1
      <4>2. calls[By] \in Calls BY <1>1
      <4> QED BY <1>3, <2>1, <4>1, <4>2 DEF Matches, First, FirstEvent, Calls, Ops
    <3> QED BY <1>1, <1>2, <1>3, <1>6, <3>1 DEF Matches
  <2> QED BY <1>1, <1>2, <1>3, <1>6, <2>2, <2>3 DEF Matches
<1> QED BY <1>5, <1>6

Ordered == Typed /\ Handlers /\ EventsMatch /\ CallsInTurn

LEMMA CallsInTurnInit == Init => EventsMatch /\ CallsInTurn
BY DEF Init, EventsMatch, CallsInTurn

LEMMA TurnsLeader == Ordered /\ LeaderCalls => EventsMatch' /\ CallsInTurn'
<1> SUFFICES ASSUME Ordered, LeaderCalls PROVE EventsMatch' /\ CallsInTurn'
    OBVIOUS
<1>0. Typed /\ EventsMatch /\ CallsInTurn /\ LeaderTyped /\ RolesTyped BY DEF Ordered, Typed
<1>1. PICK c : /\ calls' = Append(calls, c) /\ c.at = (IF c.op = "message" THEN "publishing" ELSE "waiting")
               /\ c.op = "spawn" => \A i \in DOMAIN calls : calls[i].op = "spawn" => calls[i].worker # c.worker
               /\ \/ UNCHANGED queue
                  \/ c.op = "message" /\ queue' = Append(queue, Event("worker_messaged", c.worker, Len(calls) + 1))
               /\ c.worker \in Workers
  <2>1. CASE \E w \in Workers : MessageWorker(w)
    <3>1. PICK w \in Workers : MessageWorker(w) BY <2>1
    <3> QED BY <3>1 DEF MessageWorker, Made, Call
  <2>2. CASE \E w \in Workers, t \in Tasks \cup {None} : SpawnWorker(w, t)
    <3>1. PICK w \in Workers, t \in Tasks \cup {None} : SpawnWorker(w, t) BY <2>2
    <3> QED BY <3>1 DEF SpawnWorker, Made, Call
  <2>3. CASE \E t \in Tasks : KillWorker(t)
    <3>1. PICK t \in Tasks : KillWorker(t) BY <2>3
    <3>2. assignee[t] \in Workers BY <1>0, <3>1 DEF KillWorker, LeaderTyped
    <3> QED BY <3>1, <3>2 DEF KillWorker, Made, Call
  <2>4. CASE \E t \in Tasks, w \in Workers : ReassignWorker(t, w)
    <3>1. PICK t \in Tasks, w \in Workers : ReassignWorker(t, w) BY <2>4
    <3> QED BY <3>1 DEF ReassignWorker, Made, Call
  <2> QED BY <2>1, <2>2, <2>3, <2>4 DEF LeaderCalls
<1>2. /\ DOMAIN calls = 1 .. Len(calls) /\ Len(calls) \in Nat
      /\ DOMAIN calls' = 1 .. Len(calls) + 1 /\ calls'[Len(calls) + 1] = c
      /\ \A j \in DOMAIN calls : calls'[j] = calls[j]
    BY <1>0, <1>1 DEF LeaderTyped
<1>3. UNCHANGED <<forks, dispatch>>
    BY DEF LeaderCalls, MessageWorker, SpawnWorker, KillWorker, ReassignWorker, roles
<1>4. \A k \in DOMAIN queue : Matches(queue[k], calls')
  <2> SUFFICES ASSUME NEW k \in DOMAIN queue PROVE Matches(queue[k], calls')
      OBVIOUS
  <2>1. EventFits(queue[k], Len(calls)) /\ Matches(queue[k], calls)
      BY <1>0 DEF LeaderTyped, QueueFits, EventsMatch
  <2> QED BY <1>2, <2>1 DEF Matches, First, EventFits, Events
<1>5. EventsMatch'
  <2>1. CASE UNCHANGED queue
    <3>1. Shift(0, {}) BY <1>0, <2>1, ShiftKept
    <3> QED BY <1>0, <1>4, <3>1, EventsMove
  <2>2. CASE c.op = "message" /\ queue' = Append(queue, Event("worker_messaged", c.worker, Len(calls) + 1))
    <3>1. PICK e : e = Event("worker_messaged", c.worker, Len(calls) + 1) OBVIOUS
    <3>2. e \in Events BY <1>1, <1>2, <3>1, EventTyped DEF EventTypes
    <3>3. Shift(0, {e}) BY <1>0, <2>2, <3>1, <3>2, ShiftGrown
    <3>4. Matches(e, calls') /\ ~First(e)
        BY <1>2, <2>2, <3>1 DEF Matches, First, Event
    <3> QED BY <1>0, <1>4, <3>3, <3>4, EventsMove
  <2> QED BY <1>1, <2>1, <2>2
<1>6. CallsInTurn'
  <2>1. \A i, j \in DOMAIN calls' : Busy(calls'[i]) /\ Busy(calls'[j]) => i = j
      BY <1>0, <1>1, <1>2 DEF CallsInTurn, Busy
  <2>2. \A i, j \in DOMAIN calls' :
            calls'[i].op = "spawn" /\ calls'[j].op = "spawn" /\ calls'[i].worker = calls'[j].worker => i = j
      BY <1>0, <1>1, <1>2 DEF CallsInTurn
  <2>3. c.op = "spawn" => c.worker \notin forks
      BY <1>0, <1>1 DEF CallsInTurn
  <2>4. \A i \in DOMAIN calls' :
            calls'[i].op = "spawn" /\ calls'[i].at \in {"waiting", "publishing"} =>
                calls'[i].worker \notin forks'
      BY <1>0, <1>2, <1>3, <2>3 DEF CallsInTurn
  <2>5. \A w \in forks' : \E i \in DOMAIN calls' : calls'[i].op = "spawn" /\ calls'[i].worker = w
      BY <1>0, <1>2, <1>3 DEF CallsInTurn
  <2>6. \A w \in Workers : \A k \in DOMAIN dispatch'[w] :
            calls'[dispatch'[w][k]].op = "reassign" /\ calls'[dispatch'[w][k]].at = "returned"
      BY <1>0, <1>2, <1>3 DEF CallsInTurn, RolesTyped
  <2> QED BY <2>1, <2>2, <2>4, <2>5, <2>6 DEF CallsInTurn
<1> QED BY <1>5, <1>6

LEMMA TurnsAcquire ==
  ASSUME Ordered, NEW i \in DOMAIN calls, Acquire(i)
  PROVE  EventsMatch' /\ CallsInTurn'
<1>0. Typed /\ EventsMatch /\ CallsInTurn /\ LeaderTyped /\ RolesTyped BY DEF Ordered, Typed
<1>1. /\ calls[i] \in Calls /\ calls[i].at = "waiting" /\ i \in Nat /\ i # 0
      /\ DOMAIN calls = 1 .. Len(calls) /\ Len(calls) \in Nat
    BY <1>0 DEF LeaderTyped, Acquire
<1>2. /\ DOMAIN calls' = DOMAIN calls
      /\ \A j \in DOMAIN calls : /\ calls'[j].op = calls[j].op /\ calls'[j].worker = calls[j].worker
                                 /\ calls'[j].at = IF j = i THEN "publishing" ELSE calls[j].at
    BY <1>0, CallMoves DEF LeaderTyped, Stages, Acquire
<1>3. calls[i].op \in {"spawn", "kill", "reassign"} /\ calls[i].worker \in Workers
    BY <1>1 DEF Calls, Ops
\* Nothing of a call that waits is in the queue.
<1>4. ASSUME NEW k \in DOMAIN queue
      PROVE  Matches(queue[k], calls') /\ ~(First(queue[k]) /\ queue[k].call = i)
  <2>1. EventFits(queue[k], Len(calls)) /\ Matches(queue[k], calls)
      BY <1>0 DEF LeaderTyped, QueueFits, EventsMatch
  <2>2. ~(First(queue[k]) /\ queue[k].call = i) BY <1>1, <2>1 DEF Matches
  <2> QED BY <1>1, <1>2, <1>3, <2>1, <2>2 DEF Matches, First, EventFits, Events
<1>5. PICK e : e = Event(FirstEvent[calls[i].op], calls[i].worker, i) OBVIOUS
<1>6. FirstEvent[calls[i].op] \in {"agent_created", "agent_finished", "task.assigned"}
    BY <1>3 DEF FirstEvent
<1>7. e \in Events BY <1>1, <1>3, <1>5, <1>6, EventTyped DEF EventTypes
<1>8. Shift(0, {e}) BY <1>0, <1>5, <1>7, ShiftGrown DEF Acquire
<1>9. Matches(e, calls') /\ e.call = i BY <1>1, <1>2, <1>3, <1>5, <1>6 DEF Matches, First, Event
<1>10. EventsMatch' BY <1>0, <1>4, <1>8, <1>9, EventsMove
<1>11. CallsInTurn'
  <2>1. \A j, k \in DOMAIN calls' : Busy(calls'[j]) /\ Busy(calls'[k]) => j = k
    <3>1. \A j \in DOMAIN calls : ~Busy(calls[j]) BY DEF Acquire, PermitFree, Busy
    <3> QED BY <1>2, <3>1 DEF Busy
  <2>2. UNCHANGED <<forks, dispatch>> BY DEF Acquire, roles
  <2>3. \A j \in DOMAIN calls' :
            calls'[j].op = "spawn" /\ calls'[j].at \in {"waiting", "publishing"} =>
                calls'[j].worker \notin forks'
      BY <1>0, <1>1, <1>2, <2>2 DEF CallsInTurn
  <2>4. \A w \in Workers : \A k \in DOMAIN dispatch'[w] :
            calls'[dispatch'[w][k]].op = "reassign" /\ calls'[dispatch'[w][k]].at = "returned"
    <3>1. \A w \in Workers : \A k \in DOMAIN dispatch[w] :
            /\ dispatch[w][k] \in DOMAIN calls
            /\ calls[dispatch[w][k]].op = "reassign" /\ calls[dispatch[w][k]].at = "returned"
        BY <1>0, <1>1 DEF CallsInTurn, RolesTyped
    <3>2. \A w \in Workers : \A k \in DOMAIN dispatch[w] : dispatch[w][k] # i
        BY <1>1, <3>1
    <3> QED BY <1>2, <2>2, <3>1, <3>2
  <2>5. \A j, k \in DOMAIN calls' :
            calls'[j].op = "spawn" /\ calls'[k].op = "spawn" /\ calls'[j].worker = calls'[k].worker => j = k
      BY <1>0, <1>2 DEF CallsInTurn
  <2>6. \A w \in forks' : \E j \in DOMAIN calls' : calls'[j].op = "spawn" /\ calls'[j].worker = w
      BY <1>0, <1>2, <2>2 DEF CallsInTurn
  <2> QED BY <2>1, <2>3, <2>4, <2>5, <2>6 DEF CallsInTurn
<1> QED BY <1>10, <1>11

\* A call that goes on, or returns, keeps the calls in turn.
LEMMA TurnsGoOn ==
  ASSUME Ordered, queue # <<>>, By # 0, UNCHANGED dispatch,
         NEW s \in {"confirming", "returned"}, calls' = [calls EXCEPT ![By].at = s],
         s = "confirming" => First(Head(queue)) /\ Head(queue).type # "task.assigned",
         \/ UNCHANGED forks
         \/ Head(queue).type = "agent_created" /\ forks' = forks \cup {Of}
  PROVE  CallsInTurn'
<1>0. Typed /\ EventsMatch /\ CallsInTurn /\ LeaderTyped /\ RolesTyped BY DEF Ordered, Typed
<1>1. /\ calls \in Seq(Calls) /\ By \in DOMAIN calls /\ DOMAIN calls = 1 .. Len(calls)
      /\ Of \in Workers
    BY <1>0, HeadFits
<1>2. /\ DOMAIN calls' = DOMAIN calls
      /\ \A j \in DOMAIN calls : /\ calls'[j].op = calls[j].op /\ calls'[j].worker = calls[j].worker
                                 /\ calls'[j].at = IF j = By THEN s ELSE calls[j].at
    BY <1>1, CallMoves DEF Stages
<1>3. /\ 1 \in DOMAIN queue /\ Head(queue) = queue[1] /\ queue[1].call = By
      /\ queue[1].worker = Of /\ Matches(queue[1], calls)
    BY <1>0, QueueIsSeq DEF EventsMatch, By, Of
<1>4. Head(queue).type = "agent_created" =>
        /\ calls[By].op = "spawn" /\ calls[By].worker = Of /\ calls[By].at = "publishing"
  <2>1. calls[By] \in Calls BY <1>1
  <2> QED BY <1>3, <2>1 DEF Matches, First, FirstEvent, Calls, Ops
<1>5. s = "confirming" => calls[By].op \in {"spawn", "kill"} /\ calls[By].at = "publishing"
  <2>1. calls[By] \in Calls BY <1>1
  <2> QED BY <1>3, <2>1 DEF Matches, First, FirstEvent, Calls, Ops
<1>6. \A j, k \in DOMAIN calls' : Busy(calls'[j]) /\ Busy(calls'[k]) => j = k
  <2>1. \A j \in DOMAIN calls : Busy(calls'[j]) => Busy(calls[j])
      BY <1>1, <1>2, <1>5 DEF Busy
  <2> QED BY <1>0, <1>2, <2>1 DEF CallsInTurn
<1>7. \A j \in DOMAIN calls' :
            calls'[j].op = "spawn" /\ calls'[j].at \in {"waiting", "publishing"} =>
                calls'[j].worker \notin forks'
  <2> SUFFICES ASSUME NEW j \in DOMAIN calls, calls'[j].op = "spawn",
                      calls'[j].at \in {"waiting", "publishing"}
               PROVE  calls'[j].worker \notin forks'
      BY <1>2
  <2>1. j # By /\ calls[j].op = "spawn" /\ calls[j].at \in {"waiting", "publishing"} BY <1>2
  <2>2. calls[j].worker \notin forks BY <1>0, <2>1 DEF CallsInTurn
  <2>3. Head(queue).type = "agent_created" => calls[j].worker # Of
      BY <1>0, <1>1, <1>4, <2>1 DEF CallsInTurn
  <2> QED BY <1>2, <2>2, <2>3
<1>8. \A w \in Workers : \A k \in DOMAIN dispatch'[w] :
            calls'[dispatch'[w][k]].op = "reassign" /\ calls'[dispatch'[w][k]].at = "returned"
  <2>1. \A w \in Workers : \A k \in DOMAIN dispatch[w] :
            /\ dispatch[w][k] \in DOMAIN calls
            /\ calls[dispatch[w][k]].op = "reassign" /\ calls[dispatch[w][k]].at = "returned"
      BY <1>0, <1>1 DEF CallsInTurn, RolesTyped
  <2>2. \A j \in DOMAIN calls : calls[j].at = "returned" => calls'[j].at = "returned"
      BY <1>2, <1>5
  <2> QED BY <1>2, <2>1, <2>2
<1>9. \A j, k \in DOMAIN calls' :
            calls'[j].op = "spawn" /\ calls'[k].op = "spawn" /\ calls'[j].worker = calls'[k].worker => j = k
    BY <1>0, <1>2 DEF CallsInTurn
<1>10. \A w \in forks' : \E j \in DOMAIN calls' : calls'[j].op = "spawn" /\ calls'[j].worker = w
    BY <1>0, <1>1, <1>2, <1>4 DEF CallsInTurn
<1> QED BY <1>6, <1>7, <1>8, <1>9, <1>10 DEF CallsInTurn

\* What the publication of the first event does to the calls and the queue.
LEMMA TurnsPublish == Ordered /\ Publish => EventsMatch' /\ CallsInTurn'
<1> SUFFICES ASSUME Ordered, Publish PROVE EventsMatch' /\ CallsInTurn'
    OBVIOUS
<1>0. Typed /\ EventsMatch /\ CallsInTurn /\ RolesTyped BY DEF Ordered, Typed
<1>1. queue # <<>>
    BY DEF Publish, AgentCreated, Confirmed, Killed, TaskAssigned, WorkerMessaged,
           ForkCleaned, FailurePublished, Publishes
<1>2. /\ Of \in Workers /\ By \in Nat
      /\ By = 0 => Head(queue).type \in {"agent_finished", "fork_cleaned"}
      /\ By # 0 => By \in DOMAIN calls /\ calls[By] \in Calls
      /\ calls \in Seq(Calls) /\ DOMAIN calls = 1 .. Len(calls) /\ Len(calls) \in Nat
    BY <1>0, <1>1, HeadFits
<1>3. /\ 1 \in DOMAIN queue /\ Head(queue) = queue[1] /\ queue[1].call = By
      /\ queue[1].worker = Of /\ Matches(queue[1], calls)
    BY <1>0, <1>1, QueueIsSeq DEF EventsMatch, By, Of
<1>4. CASE AgentCreated \/ Killed
  <2>1. By # 0 /\ First(Head(queue)) /\ Head(queue).type # "task.assigned"
      BY <1>2, <1>4 DEF AgentCreated, Killed, Publishes, First, By
  <2>2. calls' = [calls EXCEPT ![By].at = "confirming"] /\ UNCHANGED dispatch
      BY <1>4 DEF AgentCreated, Killed
  <2>3. \A k \in DOMAIN queue : k > 1 => Matches(queue[k], calls')
      BY <1>0, <1>1, <2>1, <2>2, CallFreed
  <2>4. CallsInTurn'
      BY <1>1, <1>4, <2>1, <2>2, TurnsGoOn DEF AgentCreated, Killed, Publishes
  <2>5. PICK type \in {"fork_created", "worker_killed"} :
            queue' = Append(Tail(queue), Event(type, Of, By))
      BY <1>4 DEF AgentCreated, Killed
  <2>6. PICK e : e = Event(type, Of, By) OBVIOUS
  <2>7. e \in Events BY <1>2, <2>6, EventTyped DEF EventTypes
  <2>8. Shift(1, {e}) BY <1>0, <1>1, <2>5, <2>6, <2>7, ShiftReplaced
  <2>9. calls'[By].op \in {"spawn", "kill"} /\ calls'[By].at = "confirming"
    <3>1. calls'[By].op = calls[By].op /\ calls'[By].at = "confirming"
        BY <1>2, <2>1, <2>2, CallMoves DEF Stages
    <3> QED BY <1>2, <1>3, <2>1, <3>1 DEF Matches, First, FirstEvent, Calls, Ops
  <2>10. Matches(e, calls') /\ ~First(e)
      BY <2>6, <2>9 DEF Matches, First, Event
  <2>11. EventsMatch' BY <1>0, <2>3, <2>8, <2>10, EventsMove
  <2> QED BY <2>4, <2>11
<1>5. CASE Confirmed \/ TaskAssigned \/ WorkerMessaged
  <2>1. By # 0 /\ calls' = [calls EXCEPT ![By].at = "returned"] /\ UNCHANGED forks
      BY <1>2, <1>5 DEF Confirmed, TaskAssigned, WorkerMessaged, Publishes, Returns
  <2>2. \A k \in DOMAIN queue : k > 1 => Matches(queue[k], calls')
      BY <1>0, <1>1, <2>1, CallFreed
  <2>3. Shift(1, {})
      BY <1>0, <1>1, <1>5, ShiftShrunk DEF Confirmed, TaskAssigned, WorkerMessaged
  <2>4. EventsMatch' BY <1>0, <2>2, <2>3, EventsMove
  <2>5. CASE UNCHANGED dispatch
    <3>1. CallsInTurn' BY <1>1, <2>1, <2>5, TurnsGoOn
    <3> QED BY <2>4, <3>1
  \* The call that the dispatcher is told of is the one that has just returned.
  <2>6. CASE TaskAssigned
    <3>1. /\ calls[By].op = "reassign" /\ calls[By].at = "publishing"
        BY <1>2, <1>3, <2>1, <2>6 DEF TaskAssigned, Publishes, Matches, First, FirstEvent, Calls, Ops
    <3>2. /\ DOMAIN calls' = DOMAIN calls
          /\ \A j \in DOMAIN calls : /\ calls'[j].op = calls[j].op /\ calls'[j].worker = calls[j].worker
                                     /\ calls'[j].at = IF j = By THEN "returned" ELSE calls[j].at
        BY <1>2, <2>1, CallMoves DEF Stages
    <3>3. \A w \in Workers : \A k \in DOMAIN dispatch'[w] :
                dispatch'[w][k] = By \/ \E j \in DOMAIN dispatch[w] : dispatch'[w][k] = dispatch[w][j]
        BY <1>0, <1>2, <2>6 DEF TaskAssigned, RolesTyped
    <3>4. \A w \in Workers : \A k \in DOMAIN dispatch'[w] :
                calls'[dispatch'[w][k]].op = "reassign" /\ calls'[dispatch'[w][k]].at = "returned"
      <4>1. \A w \in Workers : \A k \in DOMAIN dispatch[w] :
                /\ dispatch[w][k] \in DOMAIN calls
                /\ calls[dispatch[w][k]].op = "reassign" /\ calls[dispatch[w][k]].at = "returned"
          BY <1>0, <1>2 DEF CallsInTurn, RolesTyped
      <4> QED BY <1>2, <2>1, <3>1, <3>2, <3>3, <4>1
    <3>5. \A j, k \in DOMAIN calls' : Busy(calls'[j]) /\ Busy(calls'[k]) => j = k
        BY <1>0, <3>2 DEF CallsInTurn, Busy
    <3>6. \A j, k \in DOMAIN calls' :
            calls'[j].op = "spawn" /\ calls'[k].op = "spawn" /\ calls'[j].worker = calls'[k].worker => j = k
        BY <1>0, <3>2 DEF CallsInTurn
    <3>7. \A j \in DOMAIN calls' :
            calls'[j].op = "spawn" /\ calls'[j].at \in {"waiting", "publishing"} =>
                calls'[j].worker \notin forks'
        BY <1>0, <2>1, <3>2 DEF CallsInTurn
    <3>8. \A w \in forks' : \E j \in DOMAIN calls' : calls'[j].op = "spawn" /\ calls'[j].worker = w
        BY <1>0, <2>1, <3>2 DEF CallsInTurn
    <3>9. CallsInTurn' BY <3>4, <3>5, <3>6, <3>7, <3>8 DEF CallsInTurn
    <3> QED BY <2>4, <3>9
  <2> QED BY <1>5, <2>5, <2>6 DEF Confirmed, WorkerMessaged, roles
<1>6. CASE ForkCleaned \/ FailurePublished
  <2>1. UNCHANGED <<calls, forks, dispatch>>
      BY <1>6 DEF ForkCleaned, FailurePublished, leader, roles
  <2>2. CallsInTurn' BY <1>0, <2>1 DEF CallsInTurn
  <2>3. \A k \in DOMAIN queue : Matches(queue[k], calls') BY <1>0, <2>1 DEF EventsMatch
  <2>4. CASE ForkCleaned
    <3>1. Shift(1, {}) BY <1>0, <1>1, <2>4, ShiftShrunk DEF ForkCleaned
    <3>2. EventsMatch' BY <1>0, <2>3, <3>1, EventsMove
    <3> QED BY <2>2, <3>2
  <2>5. CASE FailurePublished
    <3>1. PICK e : e = Event("fork_cleaned", Of, 0) OBVIOUS
    <3>2. e \in Events BY <1>2, <3>1, EventTyped DEF EventTypes
    <3>3. Shift(1, {e}) BY <1>0, <1>1, <2>5, <3>1, <3>2, ShiftReplaced DEF FailurePublished
    <3>4. Matches(e, calls') /\ ~First(e) BY <3>1 DEF Matches, First, Event
    <3>5. EventsMatch' BY <1>0, <2>3, <3>3, <3>4, EventsMove
    <3> QED BY <2>2, <3>5
  <2> QED BY <1>6, <2>4, <2>5
<1> QED BY <1>4, <1>5, <1>6 DEF Publish

LEMMA TurnsAppendFails == Ordered /\ AppendFails => EventsMatch' /\ CallsInTurn'
<1> SUFFICES ASSUME Ordered, AppendFails PROVE EventsMatch' /\ CallsInTurn'
    OBVIOUS
<1>0. Typed /\ EventsMatch /\ CallsInTurn /\ queue # <<>> BY DEF Ordered, AppendFails
<1>1. UNCHANGED <<forks, dispatch>> /\ Shift(1, {})
    BY <1>0, ShiftShrunk DEF AppendFails
<1>2. CASE By # 0
  <2>1. calls' = [calls EXCEPT ![By].at = "returned"] BY <1>2 DEF AppendFails, Returns
  <2>2. \A k \in DOMAIN queue : k > 1 => Matches(queue[k], calls')
      BY <1>0, <1>2, <2>1, CallFreed
  <2>3. EventsMatch' BY <1>0, <1>1, <2>2, EventsMove
  <2>4. CallsInTurn' BY <1>0, <1>1, <1>2, <2>1, TurnsGoOn
  <2> QED BY <2>3, <2>4
<1>3. CASE By = 0
  <2>1. UNCHANGED calls BY <1>3 DEF AppendFails
  <2>2. CallsInTurn' BY <1>0, <1>1, <2>1 DEF CallsInTurn
  <2>3. \A k \in DOMAIN queue : Matches(queue[k], calls') BY <1>0, <2>1 DEF EventsMatch
  <2>4. EventsMatch' BY <1>0, <1>1, <2>3, EventsMove
  <2> QED BY <2>2, <2>4
<1> QED BY <1>2, <1>3

LEMMA TurnsWorker ==
  ASSUME Ordered, NEW w \in Workers,
         \/ HandleFork(w) \/ SpawnFails(w) \/ OnWorkerMessaged(w) \/ DrainMessages(w)
         \/ Dispatch(w) \/ Consume(w) \/ Ends(w)
  PROVE  EventsMatch' /\ CallsInTurn'
<1>0. Typed /\ EventsMatch /\ CallsInTurn /\ RolesTyped BY DEF Ordered, Typed
<1>1. UNCHANGED <<calls, forks>>
    BY DEF HandleFork, CreationBegins, StartSession, KillBegins, KillSession, SpawnFails,
           OnWorkerMessaged, DrainMessages, Dispatch, Consume, Ends, LoopEnds, leader
<1>2. \A k \in DOMAIN queue : Matches(queue[k], calls') BY <1>0, <1>1 DEF EventsMatch
<1>3. \A v \in Workers : \A k \in DOMAIN dispatch[v] :
        /\ dispatch[v][k] \in 1 .. Len(calls)
        /\ calls[dispatch[v][k]].op = "reassign" /\ calls[dispatch[v][k]].at = "returned"
    BY <1>0 DEF CallsInTurn, RolesTyped
<1>4. CASE Dispatch(w)
  <2>1. dispatch[w] \in Seq(Nat) /\ dispatch[w] # <<>>
      BY <1>0, <1>4 DEF Dispatch, RolesTyped
  <2>2. /\ Head(dispatch[w]) = dispatch[w][1] /\ 1 \in DOMAIN dispatch[w]
        /\ \A k \in DOMAIN Tail(dispatch[w]) :
                k + 1 \in DOMAIN dispatch[w] /\ Tail(dispatch[w])[k] = dispatch[w][k + 1]
      BY <2>1
  <2>3. \A v \in Workers : \A k \in DOMAIN dispatch'[v] :
            calls[dispatch'[v][k]].op = "reassign" /\ calls[dispatch'[v][k]].at = "returned"
    <3>1. dispatch' = [dispatch EXCEPT ![w] = Tail(dispatch[w])] BY <1>4 DEF Dispatch
    <3>2. dispatch \in [Workers -> Seq(Nat)] BY <1>0 DEF RolesTyped
    <3> TAKE v \in Workers
    <3>3. CASE v = w
      <4>1. dispatch'[v] = Tail(dispatch[w]) BY <3>1, <3>2, <3>3
      <4> QED BY <1>3, <2>2, <4>1
    <3>4. CASE v # w
      <4>1. dispatch'[v] = dispatch[v] BY <3>1, <3>2, <3>4
      <4> QED BY <1>3, <4>1
    <3> QED BY <3>3, <3>4
  <2>4. CallsInTurn' BY <1>0, <1>1, <2>3 DEF CallsInTurn
  <2>5. PICK e : e = Event("worker_messaged", w, Head(dispatch[w])) OBVIOUS
  <2>6. e \in Events BY <1>3, <2>2, <2>5, EventTyped DEF EventTypes
  <2>7. Matches(e, calls') /\ ~First(e)
      BY <1>1, <1>3, <2>2, <2>5 DEF Matches, First, Event
  <2>8. Shift(0, {e}) BY <1>0, <1>4, <2>5, <2>6, ShiftGrown DEF Dispatch
  <2>9. EventsMatch' BY <1>0, <1>2, <2>7, <2>8, EventsMove
  <2> QED BY <2>4, <2>9
<1>5. CASE ~Dispatch(w)
  <2>1. UNCHANGED dispatch
      BY <1>5 DEF HandleFork, CreationBegins, StartSession, KillBegins, KillSession, SpawnFails,
           OnWorkerMessaged, DrainMessages, Consume, Ends, LoopEnds, roles
  <2>2. CallsInTurn' BY <1>0, <1>1, <2>1 DEF CallsInTurn
  <2>3. PICK es \in {{}, {Event("fork_cleaned", w, 0)}, {Event("agent_finished", w, 0)}} : Shift(0, es)
    <3>1. CASE UNCHANGED queue BY <1>0, <3>1, ShiftKept
    <3>2. CASE SpawnFails(w)
      <4>1. Event("agent_finished", w, 0) \in Events BY EventTyped DEF EventTypes
      <4> QED BY <1>0, <3>2, <4>1, ShiftGrown DEF SpawnFails
    <3>3. CASE \E reason : Finalize(w, reason) BY <1>0, <3>3, FinalizeShifts
    <3> QED BY <1>5, <3>1, <3>2, <3>3
            DEF HandleFork, CreationBegins, StartSession, KillBegins, KillSession,
                OnWorkerMessaged, DrainMessages, Consume, Ends, LoopEnds
  <2>4. \A e \in es : Matches(e, calls') /\ ~First(e)
      BY <2>3 DEF Matches, First, Event
  <2>5. EventsMatch' BY <1>0, <1>2, <2>3, <2>4, EventsMove
  <2> QED BY <2>2, <2>5
<1> QED BY <1>4, <1>5

LEMMA OrderedStep == Ordered /\ [Next]_vars => Ordered'
<1> SUFFICES ASSUME Ordered, [Next]_vars PROVE Ordered'
    OBVIOUS
<1>1. Typed' /\ Handlers' BY TypedStep, HandlersStep DEF Ordered
<1>2. EventsMatch' /\ CallsInTurn'
  <2>1. CASE UNCHANGED vars
      BY <2>1 DEF vars, leader, roles, Ordered, EventsMatch, CallsInTurn
  <2>2. CASE Next
      BY <2>2, TurnsLeader, TurnsAcquire, TurnsPublish, TurnsAppendFails, TurnsWorker DEF Next
  <2> QED BY <2>1, <2>2
<1> QED BY <1>1, <1>2 DEF Ordered

LEMMA OrderedInit == Init => Ordered
BY TypedInit, HandlersInit, CallsInTurnInit DEF Ordered

-----------------------------------------------------------------------------
(* The owners of the tasks.                                                *)

\* A task's owner is the one its events give it, or the call that is about to
\* publish the next owner has the permit.
Reassigning(t) == \E i \in DOMAIN calls :
    calls[i].op = "reassign" /\ calls[i].at = "publishing" /\ calls[i].task = t
OwnersFollow ==
    /\ \A i \in DOMAIN calls :
        calls[i].op = "reassign" /\ calls[i].at = "publishing" =>
            assignee[calls[i].task] = calls[i].worker
    /\ faults = 0 => \A t \in Tasks : assignee[t] = bound[t] \/ Reassigning(t)

\* A step that moves no reassignment that publishes, and no owner.
LEMMA OwnersKept ==
  ASSUME OwnersFollow, UNCHANGED <<assignee, bound, faults>>,
         \A i \in DOMAIN calls : calls[i].op = "reassign" /\ calls[i].at = "publishing" =>
            i \in DOMAIN calls' /\ calls'[i] = calls[i],
         \A i \in DOMAIN calls' : calls'[i].op = "reassign" /\ calls'[i].at = "publishing" =>
            i \in DOMAIN calls /\ calls'[i] = calls[i]
  PROVE  OwnersFollow'
BY DEF OwnersFollow, Reassigning

LEMMA OwnersPublish == Ordered /\ OwnersFollow /\ Publish => OwnersFollow'
<1> SUFFICES ASSUME Ordered, OwnersFollow, Publish PROVE OwnersFollow'
    OBVIOUS
<1>0. Typed /\ EventsMatch /\ CallsInTurn /\ LeaderTyped /\ HistoryTyped BY DEF Ordered, Typed
<1>1. queue # <<>>
    BY DEF Publish, AgentCreated, Confirmed, Killed, TaskAssigned, WorkerMessaged,
           ForkCleaned, FailurePublished, Publishes
<1>2. /\ Of \in Workers /\ By \in Nat
      /\ By = 0 => Head(queue).type \in {"agent_finished", "fork_cleaned"}
      /\ By # 0 => By \in DOMAIN calls /\ calls[By] \in Calls
      /\ calls \in Seq(Calls) /\ DOMAIN calls = 1 .. Len(calls)
    BY <1>0, <1>1, HeadFits
<1>3. /\ Head(queue) = queue[1] /\ queue[1].call = By
      /\ queue[1].worker = Of /\ Matches(queue[1], calls)
    BY <1>0, <1>1, QueueIsSeq DEF EventsMatch, By, Of
<1>4. ASSUME NEW s \in {"confirming", "returned"}, By # 0, calls' = [calls EXCEPT ![By].at = s]
      PROVE  /\ DOMAIN calls' = DOMAIN calls
             /\ \A j \in DOMAIN calls : j # By => calls'[j] = calls[j]
             /\ calls'[By].at # "publishing"
    BY <1>2, <1>4
<1>5. CASE AgentCreated
  <2>1. /\ By # 0 /\ calls' = [calls EXCEPT ![By].at = "confirming"]
        /\ calls[By].op = "spawn" /\ calls[By].at = "publishing"
      BY <1>2, <1>3, <1>5 DEF AgentCreated, Publishes, Matches, First, FirstEvent, Calls, Ops
  <2>2. \A j \in DOMAIN calls : ~(calls[j].op = "reassign" /\ calls[j].at = "publishing")
      BY <1>0, <1>2, <2>1 DEF CallsInTurn, Busy
  <2>3. \A j \in DOMAIN calls' : ~(calls'[j].op = "reassign" /\ calls'[j].at = "publishing")
      BY <1>4, <2>1, <2>2
  <2>4. faults = 0 => \A t \in Tasks : assignee[t] = bound[t]
      BY <2>2 DEF OwnersFollow, Reassigning
  <2>5. faults' = 0 => \A t \in Tasks : assignee'[t] = bound'[t]
      BY <1>0, <1>5, <2>4 DEF AgentCreated, LeaderTyped, HistoryTyped
  <2> QED BY <2>3, <2>5 DEF OwnersFollow
<1>6. CASE TaskAssigned
  <2>1. /\ By # 0 /\ calls' = [calls EXCEPT ![By].at = "returned"]
        /\ calls[By].op = "reassign" /\ calls[By].at = "publishing" /\ calls[By].worker = Of
      BY <1>2, <1>3, <1>6 DEF TaskAssigned, Returns, Publishes, Matches, First, FirstEvent, Calls, Ops
  <2>2. \A j \in DOMAIN calls : j # By => ~(calls[j].op = "reassign" /\ calls[j].at = "publishing")
      BY <1>0, <1>2, <2>1 DEF CallsInTurn, Busy
  <2>3. \A j \in DOMAIN calls' : ~(calls'[j].op = "reassign" /\ calls'[j].at = "publishing")
      BY <1>4, <2>1, <2>2
  <2>4. /\ assignee[calls[By].task] = Of
        /\ faults = 0 => \A t \in Tasks : t # calls[By].task => assignee[t] = bound[t]
      BY <1>2, <2>1, <2>2 DEF OwnersFollow, Reassigning
  <2>5. faults' = 0 => \A t \in Tasks : assignee'[t] = bound'[t]
      BY <1>0, <1>6, <2>4 DEF TaskAssigned, HistoryTyped
  <2> QED BY <2>3, <2>5 DEF OwnersFollow
<1>7. CASE Confirmed \/ Killed \/ WorkerMessaged
  <2>1. PICK s \in {"confirming", "returned"} : By # 0 /\ calls' = [calls EXCEPT ![By].at = s]
      BY <1>2, <1>7 DEF Confirmed, Killed, WorkerMessaged, Returns, Publishes
  <2>2. ~(calls[By].op = "reassign" /\ calls[By].at = "publishing")
      BY <1>2, <1>3, <1>7, <2>1
         DEF Confirmed, Killed, WorkerMessaged, Publishes, Matches, First, FirstEvent, Calls, Ops
  <2>3. UNCHANGED <<assignee, bound, faults>>
      BY <1>7 DEF Confirmed, Killed, WorkerMessaged, history
  <2> QED BY <1>4, <2>1, <2>2, <2>3, OwnersKept
<1>8. CASE ForkCleaned \/ FailurePublished
    BY <1>8, OwnersKept DEF ForkCleaned, FailurePublished, leader
<1> QED BY <1>5, <1>6, <1>7, <1>8 DEF Publish

LEMMA OwnersStep == Ordered /\ OwnersFollow /\ [Next]_vars => OwnersFollow'
<1> SUFFICES ASSUME Ordered, OwnersFollow, [Next]_vars PROVE OwnersFollow'
    OBVIOUS
<1>0. Typed /\ EventsMatch /\ CallsInTurn /\ LeaderTyped /\ HistoryTyped /\ calls \in Seq(Calls)
      /\ DOMAIN calls = 1 .. Len(calls) /\ Len(calls) \in Nat
    BY DEF Ordered, Typed, LeaderTyped
<1>1. CASE UNCHANGED vars
    BY <1>1, OwnersKept DEF vars, leader, history
<1>2. CASE LeaderCalls
  <2>1. UNCHANGED <<assignee, bound, faults>>
      BY <1>2 DEF LeaderCalls, MessageWorker, SpawnWorker, KillWorker, ReassignWorker, history
  <2>2. PICK c : calls' = Append(calls, c) /\ ~(c.op = "reassign" /\ c.at = "publishing")
    <3>1. ASSUME NEW op \in Ops, NEW w, NEW t, NEW at \in {"waiting", "publishing"},
                 Made(Call(op, w, t, at)), op = "reassign" => at = "waiting"
          PROVE  \E c : calls' = Append(calls, c) /\ ~(c.op = "reassign" /\ c.at = "publishing")
        BY <3>1 DEF Made, Call
    <3> QED BY <1>2, <3>1 DEF LeaderCalls, MessageWorker, SpawnWorker, KillWorker, ReassignWorker, Ops
  <2>3. /\ DOMAIN calls' = 1 .. Len(calls) + 1 /\ calls'[Len(calls) + 1] = c
        /\ \A i \in DOMAIN calls : calls'[i] = calls[i]
      BY <1>0, <2>2
  <2> QED BY <1>0, <2>1, <2>2, <2>3, OwnersKept
<1>3. ASSUME NEW i \in DOMAIN calls, Acquire(i) PROVE OwnersFollow'
  <2>1. /\ DOMAIN calls' = DOMAIN calls
        /\ \A j \in DOMAIN calls : /\ calls'[j].op = calls[j].op /\ calls'[j].worker = calls[j].worker
                                   /\ calls'[j].task = calls[j].task
                                   /\ calls'[j].at = IF j = i THEN "publishing" ELSE calls[j].at
      BY <1>0, <1>3, CallMoves DEF Stages, Acquire
  <2>2. \A j \in DOMAIN calls : ~(calls[j].op = "reassign" /\ calls[j].at = "publishing")
      BY <1>3 DEF Acquire, PermitFree
  <2>3. calls[i] \in Calls BY <1>0
  <2>4. assignee' = IF calls[i].op = "reassign"
                    THEN [assignee EXCEPT ![calls[i].task] = calls[i].worker] ELSE assignee
      BY <1>3 DEF Acquire
  <2>9. UNCHANGED <<bound, faults>> BY <1>3 DEF Acquire, history
  <2>8. faults = 0 => \A t \in Tasks : assignee[t] = bound[t]
      BY <2>2 DEF OwnersFollow, Reassigning
  <2>5. \A j \in DOMAIN calls' : calls'[j].op = "reassign" /\ calls'[j].at = "publishing" =>
            assignee'[calls'[j].task] = calls'[j].worker
      BY <1>0, <2>1, <2>2, <2>3, <2>4 DEF LeaderTyped, Calls
  <2>6. ASSUME faults' = 0, NEW t \in Tasks
        PROVE  assignee'[t] = bound'[t] \/ Reassigning(t)'
    <3>1. assignee[t] = bound'[t] BY <2>6, <2>8, <2>9
    <3>2. CASE calls[i].op = "reassign" /\ calls[i].task = t
        BY <2>1, <3>2 DEF Reassigning
    <3>3. CASE ~(calls[i].op = "reassign" /\ calls[i].task = t)
      <4>1. assignee'[t] = assignee[t] BY <1>0, <2>3, <2>4, <3>3 DEF LeaderTyped, Calls
      <4> QED BY <3>1, <4>1
    <3> QED BY <3>2, <3>3
  <2> QED BY <2>5, <2>6 DEF OwnersFollow
<1>4. CASE AppendFails
  <2>1. faults' # 0 /\ UNCHANGED assignee
      BY <1>0, <1>4, BoundsAreNat DEF AppendFails, HistoryTyped
  <2>2. By # 0 => By \in DOMAIN calls BY <1>0, <1>4, HeadFits DEF AppendFails
  <2>3. \A j \in DOMAIN calls' : calls'[j].op = "reassign" /\ calls'[j].at = "publishing" =>
            j \in DOMAIN calls /\ calls'[j] = calls[j]
    <3>1. CASE By = 0 BY <1>4, <3>1 DEF AppendFails
    <3>2. CASE By # 0
      <4>1. calls' = [calls EXCEPT ![By].at = "returned"] BY <1>4, <3>2 DEF AppendFails, Returns
      <4> QED BY <1>0, <2>2, <3>2, <4>1
    <3> QED BY <3>1, <3>2
  <2> QED BY <2>1, <2>3 DEF OwnersFollow
<1>5. ASSUME NEW w \in Workers,
             \/ HandleFork(w) \/ SpawnFails(w) \/ OnWorkerMessaged(w) \/ DrainMessages(w)
             \/ Dispatch(w) \/ Consume(w) \/ Ends(w)
      PROVE  OwnersFollow'
  <2>1. UNCHANGED <<calls, assignee, bound, faults>>
      BY <1>5 DEF HandleFork, CreationBegins, StartSession, KillBegins, KillSession, SpawnFails,
           OnWorkerMessaged, DrainMessages, Dispatch, Consume, Ends, LoopEnds, leader, history
  <2> QED BY <2>1, OwnersKept
<1> QED BY <1>1, <1>2, <1>3, <1>4, <1>5, OwnersPublish DEF Next

\* Whenever no tool call is under way, the owner ForkRuntime has for a task is
\* the one its published events give it (BindingFollowsEvents).
THEOREM BindingsFollowEvents == Spec => []BindingFollowsEvents
<1>1. Init => Ordered /\ OwnersFollow
  <2>1. Init => OwnersFollow BY DEF Init, OwnersFollow
  <2> QED BY <2>1, OrderedInit
<1>2. Ordered /\ OwnersFollow /\ [Next]_vars => (Ordered /\ OwnersFollow)'
    BY OrderedStep, OwnersStep
<1>3. Ordered /\ OwnersFollow => BindingFollowsEvents
  <2> SUFFICES ASSUME Ordered, OwnersFollow, faults = 0,
                      \A i \in DOMAIN calls : calls[i].at \notin {"publishing", "confirming"}
               PROVE  assignee = bound
      BY DEF BindingFollowsEvents
  <2>1. assignee \in [Tasks -> Workers \cup {None}] /\ bound \in [Tasks -> Workers \cup {None}]
      BY DEF Ordered, Typed, LeaderTyped, HistoryTyped
  <2>2. \A t \in Tasks : assignee[t] = bound[t] BY DEF OwnersFollow, Reassigning
  <2> QED BY <2>1, <2>2
<1> QED BY <1>1, <1>2, <1>3, PTL DEF Spec

-----------------------------------------------------------------------------
(* The life of a worker.  It is created at most once, first of all that is *)
(* handled for it; until then nothing has happened to it.                  *)

New(w) == /\ session[w].status = "none" /\ ~session[w].killed
          /\ w \notin workers /\ w \notin finalized /\ told[w] = 0
Runs(w) == session[w].status = "running" /\ ~session[w].killed

Life(w) ==
    /\ w \notin forks => forkChain[w] = <<>> /\ New(w)
    /\ \A k \in DOMAIN forkChain[w] : forkChain[w][k] = "create" => k = 1 /\ New(w)
    /\ w \in workers \/ handling[w] = "marked" => session[w].status # "none"
    /\ w \in finalized => session[w].status # "none" /\ ~Runs(w)
    /\ Runs(w) => w \in workers /\ lifecycle[w] # "cleaned"
    /\ session[w].status = "running" => told[w] = 0
    /\ told[w] <= 1
Lives == \A w \in Workers : Life(w)

\* The life of a worker that a step leaves as it is.
LEMMA LifeKept ==
  ASSUME NEW w \in Workers, Life(w), w \in forks <=> w \in forks',
         UNCHANGED <<forkChain[w], handling[w], lifecycle[w], told[w]>>,
         UNCHANGED <<session[w].status, session[w].killed>>,
         w \in workers <=> w \in workers', w \in finalized <=> w \in finalized'
  PROVE  Life(w)'
BY DEF Life, New, Runs

LEMMA LivesPublish == Ordered /\ Lives /\ Publish => Lives'
<1> SUFFICES ASSUME Ordered, Lives, Publish, NEW w \in Workers PROVE Life(w)'
    BY DEF Lives
<1>0. /\ Typed /\ Handlers /\ EventsMatch /\ CallsInTurn /\ LeaderTyped /\ RolesTyped
      /\ ExecutorTyped /\ EffectsTyped /\ HistoryTyped /\ Life(w)
    BY DEF Ordered, Typed, Lives
<1>1. queue # <<>>
    BY DEF Publish, AgentCreated, Confirmed, Killed, TaskAssigned, WorkerMessaged,
           ForkCleaned, FailurePublished, Publishes
<1>2. /\ Of \in Workers /\ By \in Nat
      /\ By = 0 => Head(queue).type \in {"agent_finished", "fork_cleaned"}
      /\ By # 0 => By \in DOMAIN calls /\ calls[By] \in Calls
    BY <1>0, <1>1, HeadFits
<1>3. /\ Head(queue) = queue[1] /\ queue[1].call = By /\ 1 \in DOMAIN queue
      /\ queue[1].worker = Of /\ Matches(queue[1], calls)
    BY <1>0, <1>1, QueueIsSeq DEF EventsMatch, By, Of
<1>4. forkChain[w] \in Seq({"create", "kill"}) /\ told[w] \in Nat BY <1>0 DEF RolesTyped, HistoryTyped
<1>5. CASE Confirmed \/ TaskAssigned \/ WorkerMessaged
    BY <1>0, <1>5, LifeKept
       DEF Confirmed, TaskAssigned, WorkerMessaged, roles, executor, effects, history
<1>6. CASE AgentCreated
  <2>1. UNCHANGED <<handling[w], lifecycle[w], told[w], session[w].status, session[w].killed,
                    workers, finalized>>
      BY <1>6 DEF AgentCreated, executor, effects
  <2>2. forks' = forks \cup {Of} /\ forkChain' = [forkChain EXCEPT ![Of] = Append(@, "create")]
      BY <1>6 DEF AgentCreated
  <2>3. CASE w # Of
      BY <1>0, <2>1, <2>2, <2>3, LifeKept DEF RolesTyped
  \* The spawn's call still publishes: the worker is new.
  <2>4. CASE w = Of
    <3>1. calls[By].op = "spawn" /\ calls[By].worker = w /\ calls[By].at = "publishing" /\ By # 0
        BY <1>2, <1>3, <1>6, <2>4 DEF AgentCreated, Publishes, Matches, First, FirstEvent, Calls, Ops
    <3>2. w \notin forks BY <1>0, <1>2, <3>1 DEF CallsInTurn
    <3>3. forkChain[w] = <<>> /\ New(w) BY <1>0, <3>2 DEF Life
    <3>4. forkChain'[w] = <<"create">> BY <1>0, <1>2, <2>2, <2>4, <3>3 DEF RolesTyped
    <3>5. New(w)' BY <2>1, <3>3 DEF New
    <3>6. w \in forks' BY <2>2, <2>4
    <3>7. handling'[w] # "marked" BY <1>0, <2>1, <3>3 DEF Handlers, RolesTyped
    <3>8. \A k \in DOMAIN forkChain'[w] : k = 1 BY <3>4
    <3> QED BY <3>4, <3>5, <3>6, <3>7, <3>8 DEF Life, New, Runs
  <2> QED BY <2>3, <2>4
<1>7. CASE Killed
  <2>1. UNCHANGED <<handling[w], lifecycle[w], told[w], session[w].status, session[w].killed,
                    workers, finalized, forks>>
      BY <1>7 DEF Killed, executor, effects
  <2>2. CASE forkChain'[w] = forkChain[w]
      BY <1>0, <2>1, <2>2, LifeKept
  <2>3. CASE w \in forks /\ forkChain'[w] = Append(forkChain[w], "kill")
    <3>1. \A k \in DOMAIN forkChain'[w] : forkChain'[w][k] = "create" =>
            k \in DOMAIN forkChain[w] /\ forkChain[w][k] = "create"
        BY <1>4, <2>3
    <3> QED BY <1>0, <2>1, <2>3, <3>1 DEF Life, New, Runs
  <2> QED BY <1>0, <1>2, <1>7, <2>2, <2>3 DEF Killed, RolesTyped
<1>8. CASE ForkCleaned
  <2>1. UNCHANGED <<forkChain[w], handling[w], told[w], session[w].status, session[w].killed,
                    finalized, forks>>
      BY <1>8 DEF ForkCleaned, roles, leader
  <2>2. CASE (w \in workers' <=> w \in workers) /\ lifecycle'[w] = lifecycle[w]
      BY <1>0, <1>8, <2>1, <2>2, LifeKept DEF ForkCleaned
  <2>3. CASE w = Of /\ Of \in finalized
    <3>1. workers' = workers \ {w} BY <1>8, <2>3 DEF ForkCleaned
    <3> QED BY <1>0, <2>1, <2>3, <3>1 DEF Life, New, Runs
  <2> QED BY <1>0, <1>8, <2>1, <2>2, <2>3, LifeKept DEF ForkCleaned, Status, ExecutorTyped
<1>9. CASE FailurePublished
  <2>1. UNCHANGED <<lifecycle[w], session[w].status, session[w].killed, workers, finalized, forks>>
      BY <1>9 DEF FailurePublished, executor, leader
  <2>2. CASE w # Of
      BY <1>0, <1>9, <2>1, <2>2, LifeKept DEF FailurePublished, RolesTyped, HistoryTyped
  <2>3. CASE w = Of
    <3>1. Failure(queue[1]) BY <1>3, <1>9 DEF FailurePublished, Publishes, Failure
    <3>2. handling[w] = "failing" BY <1>0, <1>3, <2>3, <3>1 DEF Handlers
    <3>3. forkChain[w] # <<>> /\ Head(forkChain[w]) = "create" BY <1>0, <3>2 DEF Handlers
    <3>4. forkChain[w][1] = "create" /\ 1 \in DOMAIN forkChain[w] BY <1>4, <3>3
    <3>5. New(w) /\ w \in forks BY <1>0, <3>3, <3>4 DEF Life
    <3>6. \A k \in DOMAIN forkChain'[w] : forkChain'[w][k] # "create"
      <4>1. forkChain'[w] = Append(Tail(forkChain[w]), "kill")
          BY <1>0, <1>9, <2>3 DEF FailurePublished, RolesTyped
      <4>2. /\ Tail(forkChain[w]) \in Seq({"create", "kill"})
            /\ \A k \in DOMAIN Tail(forkChain[w]) :
                k + 1 \in DOMAIN forkChain[w] /\ k + 1 # 1 /\ Tail(forkChain[w])[k] = forkChain[w][k + 1]
          BY <1>4, <3>3
      <4>3. \A k \in DOMAIN Tail(forkChain[w]) : Tail(forkChain[w])[k] # "create"
          BY <1>0, <4>2 DEF Life
      <4> QED BY <4>1, <4>2, <4>3
    <3>7. handling'[w] = "idle" /\ told'[w] = 1
        BY <1>0, <1>9, <2>3, <3>5 DEF FailurePublished, RolesTyped, HistoryTyped, New
    <3> QED BY <2>1, <3>5, <3>6, <3>7 DEF Life, New, Runs
  <2> QED BY <2>2, <2>3
<1> QED BY <1>5, <1>6, <1>7, <1>8, <1>9 DEF Publish

\* What finalizeWorker() leaves alone.
LEMMA FinalizeKeeps ==
  ASSUME Typed, NEW w \in Workers, NEW reason, Finalize(w, reason),
         NEW v \in Workers, v # w \/ w \in finalized
  PROVE  (v \in finalized <=> v \in finalized') /\ lifecycle'[v] = lifecycle[v]
BY DEF Finalize, Status, Typed, ExecutorTyped

LEMMA LivesWorker ==
  ASSUME Ordered, Lives, NEW v \in Workers,
         \/ HandleFork(v) \/ SpawnFails(v) \/ OnWorkerMessaged(v) \/ DrainMessages(v)
         \/ Dispatch(v) \/ Consume(v) \/ Ends(v)
  PROVE  Lives'
<1> SUFFICES ASSUME NEW w \in Workers PROVE Life(w)'
    BY DEF Lives
<1>0. /\ Typed /\ Handlers /\ LeaderTyped /\ RolesTyped
      /\ ExecutorTyped /\ EffectsTyped /\ HistoryTyped /\ Life(w)
    BY DEF Ordered, Typed, Lives
<1>1. /\ forkChain[w] \in Seq({"create", "kill"}) /\ told[w] \in Nat
      /\ session[w] \in Sessions
    BY <1>0 DEF RolesTyped, HistoryTyped, EffectsTyped
<1>2. UNCHANGED forks
    BY DEF HandleFork, CreationBegins, StartSession, KillBegins, KillSession, SpawnFails,
           OnWorkerMessaged, DrainMessages, Dispatch, Consume, Ends, LoopEnds, leader
\* The event that has been handled leaves, and with it the creation.
<1>3. ASSUME forkChain[w] # <<>>
      PROVE  \A k \in DOMAIN Tail(forkChain[w]) : Tail(forkChain[w])[k] # "create"
  <2>1. \A k \in DOMAIN Tail(forkChain[w]) :
            k + 1 \in DOMAIN forkChain[w] /\ k + 1 # 1 /\ Tail(forkChain[w])[k] = forkChain[w][k + 1]
      BY <1>1, <1>3
  <2> QED BY <1>0, <2>1 DEF Life
<1>4. ASSUME forkChain[w] # <<>>, Head(forkChain[w]) = "create" PROVE New(w) /\ w \in forks
  <2>1. 1 \in DOMAIN forkChain[w] /\ forkChain[w][1] = "create" BY <1>1, <1>4
  <2> QED BY <1>0, <1>4, <2>1 DEF Life
<1>5. CASE CreationBegins(v) \/ SpawnFails(v)
  <2>1. UNCHANGED <<forkChain[w], told[w], session[w].status, session[w].killed, workers, finalized>>
      BY <1>5 DEF CreationBegins, SpawnFails, executor, effects, history
  <2>2. CASE w # v
      BY <1>0, <1>2, <1>5, <2>1, <2>2, LifeKept
         DEF CreationBegins, SpawnFails, Status, RolesTyped, ExecutorTyped, executor
  <2>3. CASE w = v
    <3>1. New(w) BY <1>4, <1>5, <2>3 DEF CreationBegins, SpawnFails, Heads
    <3>2. handling'[w] # "marked" BY <1>0, <1>5, <2>3 DEF CreationBegins, SpawnFails, RolesTyped
    <3> QED BY <1>0, <1>2, <2>1, <3>1, <3>2 DEF Life, New, Runs
  <2> QED BY <2>2, <2>3
<1>6. CASE StartSession(v)
  <2>1. CASE w # v
      BY <1>0, <1>2, <1>6, <2>1, LifeKept
         DEF StartSession, Handled, Status, RolesTyped, ExecutorTyped, EffectsTyped, history
  <2>2. CASE w = v
    <3>1. New(w) /\ w \in forks /\ forkChain[w] # <<>> BY <1>4, <1>6, <2>2 DEF StartSession, Heads
    <3>2. /\ forkChain'[w] = Tail(forkChain[w]) /\ lifecycle'[w] = "running"
          /\ session'[w] = [session[w] EXCEPT !.status = "running"]
          /\ w \in workers' /\ UNCHANGED <<finalized, told>>
        BY <1>0, <1>6, <2>2
           DEF StartSession, Handled, Status, RolesTyped, ExecutorTyped, EffectsTyped, history
    <3>3. session'[w].status = "running" /\ session'[w].killed = session[w].killed
        BY <1>1, <3>2 DEF Sessions
    <3> QED BY <1>2, <1>3, <3>1, <3>2, <3>3 DEF Life, New, Runs
  <2> QED BY <2>1, <2>2
<1>7. CASE KillBegins(v)
  <2>1. UNCHANGED <<told[w], session[w].status, session[w].killed, workers, finalized>>
      BY <1>7 DEF KillBegins, executor, effects, history
  <2>2. CASE w # v
      BY <1>0, <1>2, <1>7, <2>1, <2>2, LifeKept
         DEF KillBegins, Handled, Status, RolesTyped, ExecutorTyped
  <2>3. CASE w = v /\ w \in workers
    <3>1. UNCHANGED forkChain /\ lifecycle'[w] = "killed"
        BY <1>0, <1>7, <2>3 DEF KillBegins, Status, ExecutorTyped
    <3> QED BY <1>0, <1>2, <2>1, <2>3, <3>1 DEF Life, New, Runs
  <2>4. CASE w = v /\ w \notin workers
    <3>1. /\ forkChain'[w] = Tail(forkChain[w]) /\ forkChain[w] # <<>>
          /\ UNCHANGED <<handling, lifecycle>>
        BY <1>0, <1>7, <2>4 DEF KillBegins, Heads, Handled, RolesTyped
    <3>2. w \in forks BY <1>0, <3>1 DEF Life
    <3> QED BY <1>0, <1>2, <1>3, <2>1, <3>1, <3>2 DEF Life, New, Runs
  <2> QED BY <2>2, <2>3, <2>4
<1>8. CASE KillSession(v)
  <2>1. UNCHANGED <<told, workers>> BY <1>8 DEF KillSession, history
  <2>2. CASE w # v
    <3>1. UNCHANGED <<forkChain[w], handling[w], session[w]>>
        BY <1>0, <1>8, <2>2 DEF KillSession, Handled, RolesTyped, EffectsTyped
    <3>2. (w \in finalized <=> w \in finalized') /\ lifecycle'[w] = lifecycle[w]
        BY <1>0, <1>8, <2>2, FinalizeKeeps DEF KillSession
    <3> QED BY <1>0, <1>2, <2>1, <3>1, <3>2, LifeKept
  <2>3. CASE w = v
    <3>1. /\ forkChain'[w] = Tail(forkChain[w]) /\ forkChain[w] # <<>> /\ handling[w] = "marked"
          /\ handling'[w] = "idle"
          /\ session'[w] = [session[w] EXCEPT !.killed = TRUE]
        BY <1>0, <1>8, <2>3 DEF KillSession, Heads, Handled, RolesTyped, EffectsTyped
    <3>2. session'[w].killed /\ session'[w].status = session[w].status
        BY <1>1, <3>1 DEF Sessions
    <3>3. session[w].status # "none" /\ w \in forks BY <1>0, <3>1 DEF Life
    <3> QED BY <1>0, <1>2, <1>3, <2>1, <3>1, <3>2, <3>3 DEF Life, New, Runs
  <2> QED BY <2>2, <2>3
<1>9. CASE OnWorkerMessaged(v) \/ DrainMessages(v) \/ Consume(v) \/ Dispatch(v)
  <2>1. UNCHANGED <<forkChain, handling, lifecycle, told, workers, finalized>>
      BY <1>9 DEF OnWorkerMessaged, DrainMessages, Consume, Dispatch, roles, executor, history
  <2>2. \/ session' = session
        \/ \E s : session' = [session EXCEPT ![v].steer = s]
    <3>1. CASE OnWorkerMessaged(v) \/ DrainMessages(v)
        BY <3>1 DEF OnWorkerMessaged, DrainMessages, DeliverMessage
    <3>2. CASE Consume(v) BY <3>2 DEF Consume
    <3>3. CASE Dispatch(v) BY <3>3 DEF Dispatch, effects
    <3> QED BY <1>9, <3>1, <3>2, <3>3
  <2>3. session'[w].status = session[w].status /\ session'[w].killed = session[w].killed
    <3>1. CASE w = v BY <1>0, <1>1, <2>2, <3>1 DEF EffectsTyped, Sessions
    <3>2. CASE w # v BY <1>0, <2>2, <3>2 DEF EffectsTyped
    <3> QED BY <3>1, <3>2
  <2> QED BY <1>0, <1>2, <2>1, <2>3, LifeKept
<1>10. CASE Ends(v)
  <2>1. PICK outcome \in Outcomes : LoopEnds(v, outcome) BY <1>10 DEF Ends
  <2>2. PICK reason : Finalize(v, reason) BY <2>1 DEF LoopEnds
  <2>3. UNCHANGED <<forkChain, handling, workers>> /\ session' = [session EXCEPT ![v].status = outcome]
        /\ session[v].status = "running"
      BY <2>1 DEF LoopEnds, roles
  <2>4. CASE w # v
    <3>1. UNCHANGED <<told[w], session[w]>>
        BY <1>0, <2>1, <2>4 DEF LoopEnds, HistoryTyped, EffectsTyped
    <3>2. (w \in finalized <=> w \in finalized') /\ lifecycle'[w] = lifecycle[w]
        BY <1>0, <2>2, <2>4, FinalizeKeeps
    <3> QED BY <1>0, <1>2, <2>3, <3>1, <3>2, LifeKept
  <2>5. CASE w = v
    <3>1. session'[w].status = outcome /\ session'[w].killed = session[w].killed
        BY <1>0, <1>1, <2>3, <2>5 DEF EffectsTyped, Sessions
    <3>2. outcome # "none" /\ outcome # "running" BY DEF Outcomes
    <3>3. told[w] = 0 /\ told'[w] <= 1
      <4>1. told[w] = 0 BY <1>0, <2>3, <2>5 DEF Life
      <4>2. told'[w] = told[w] \/ told'[w] = told[w] + 1
        <5>1. told' = told \/ told' = [told EXCEPT ![v] = @ + 1] BY <2>1 DEF LoopEnds
        <5> QED BY <1>0, <2>5, <5>1 DEF HistoryTyped
      <4> QED BY <4>1, <4>2
    <3>4. w \in forks /\ \A k \in DOMAIN forkChain[w] : forkChain[w][k] # "create"
        BY <1>0, <2>3, <2>5 DEF Life, New
    <3> QED BY <1>0, <1>2, <2>3, <3>1, <3>2, <3>3, <3>4 DEF Life, New, Runs
  <2> QED BY <2>4, <2>5
<1> QED BY <1>5, <1>6, <1>7, <1>8, <1>9, <1>10 DEF HandleFork

LEMMA LivesStep == Ordered /\ Lives /\ [Next]_vars => Lives'
<1> SUFFICES ASSUME Ordered, Lives, [Next]_vars PROVE Lives'
    OBVIOUS
<1>0. Typed /\ Handlers BY DEF Ordered
<1>1. CASE UNCHANGED <<forks, roles, executor, effects, told>>
    BY <1>1, LifeKept DEF Lives, roles, executor, effects
<1>2. CASE LeaderCalls \/ (\E i \in DOMAIN calls : Acquire(i)) \/ UNCHANGED vars
    BY <1>1, <1>2 DEF LeaderCalls, MessageWorker, SpawnWorker, KillWorker, ReassignWorker, Acquire,
                      vars, leader, history
<1>3. CASE AppendFails
  <2>1. UNCHANGED <<forks, executor, effects, told>> BY <1>3 DEF AppendFails, history
  <2>2. CASE ~(Publishes("agent_finished") /\ By = 0)
    <3>1. UNCHANGED <<forkChain, handling>> BY <1>3, <2>2 DEF AppendFails
    <3> QED BY <2>1, <3>1, LifeKept DEF Lives, executor, effects
  <2>3. ASSUME Publishes("agent_finished"), By = 0, NEW w \in Workers
        PROVE  Life(w)'
    <3>1. RolesTyped /\ Life(w) /\ HistoryTyped BY <1>0 DEF Typed, Lives
    <3>2. forkChain' = [forkChain EXCEPT ![Of] = Tail(@)] /\ handling' = [handling EXCEPT ![Of] = "idle"]
        BY <1>3, <2>3 DEF AppendFails
    <3>3. CASE w # Of
        BY <2>1, <3>1, <3>2, <3>3, LifeKept DEF RolesTyped, executor, effects
    <3>4. CASE w = Of
      <4>1. /\ Head(queue) = queue[1] /\ 1 \in DOMAIN queue /\ queue[1].worker = Of
            /\ Failure(queue[1])
          BY <1>0, <1>3, <2>3, QueueIsSeq DEF AppendFails, Publishes, By, Of, Failure
      <4>2. forkChain[w] # <<>> BY <1>0, <3>4, <4>1 DEF Handlers
      <4>3. \A k \in DOMAIN Tail(forkChain[w]) : Tail(forkChain[w])[k] # "create"
        <5>1. forkChain[w] \in Seq({"create", "kill"}) BY <3>1 DEF RolesTyped
        <5>2. \A k \in DOMAIN Tail(forkChain[w]) : k + 1 \in DOMAIN forkChain[w] /\ k + 1 # 1
                    /\ Tail(forkChain[w])[k] = forkChain[w][k + 1]
            BY <4>2, <5>1
        <5> QED BY <3>1, <5>2 DEF Life
      <4>4. forkChain'[w] = Tail(forkChain[w]) /\ handling'[w] = "idle"
          BY <3>1, <3>2, <3>4 DEF RolesTyped
      <4>5. w \in forks BY <3>1, <4>2 DEF Life
      <4> QED BY <2>1, <3>1, <4>3, <4>4, <4>5 DEF Life, New, Runs, executor, effects
    <3> QED BY <3>3, <3>4
  <2> QED BY <2>2, <2>3 DEF Lives
<1> QED BY <1>2, <1>3, LivesPublish, LivesWorker DEF Next

LEMMA LivesInit == Init => Lives
<1> SUFFICES ASSUME Init, NEW w \in Workers PROVE Life(w)
    BY DEF Lives
<1>1. /\ forkChain[w] = <<>> /\ handling[w] = "idle" /\ session[w] = NoSession
      /\ w \notin workers /\ w \notin finalized /\ told[w] = 0
    BY DEF Init
<1> QED BY <1>1 DEF Life, New, Runs, NoSession

\* A session that runs can be reached by a message, a kill and dispose(), until
\* it is killed or ends (RunningIsRegistered): its registration never waits for
\* its start, and cleanupWorker() only forgets a worker that has ended.
THEOREM RunningStaysRegistered == Spec => []RunningIsRegistered
<1>1. Init => Ordered /\ Lives BY OrderedInit, LivesInit
<1>2. Ordered /\ Lives /\ [Next]_vars => (Ordered /\ Lives)' BY OrderedStep, LivesStep
<1>3. Ordered /\ Lives => RunningIsRegistered
    BY DEF Lives, Life, Runs, RunningIsRegistered
<1> QED BY <1>1, <1>2, <1>3, PTL DEF Spec

-----------------------------------------------------------------------------
(* Kills.                                                                  *)

CreatedThenKilled(s) == \E j, k \in DOMAIN s : j < k /\ s[j] = "created" /\ s[k] = "killed"

\* A kill that follows the creation is pending, or it has been handled when the
\* creation had been, and the worker does not run.
KillHeld(w) ==
    /\ "created" \in Elements(story[w]) => w \in forks
    /\ CreatedThenKilled(story[w]) =>
        \/ "kill" \in Elements(forkChain[w])
        \/ "create" \notin Elements(forkChain[w]) /\ ~Runs(w)
KillsHeld == \A w \in Workers : KillHeld(w)

\* The story of a worker grows at its end.
LEMMA StoryGrows ==
  ASSUME NEW s \in Seq(Told3), NEW x \in Told3
  PROVE  /\ Elements(Append(s, x)) = Elements(s) \cup {x}
         /\ CreatedThenKilled(Append(s, x)) =>
                CreatedThenKilled(s) \/ (x = "killed" /\ "created" \in Elements(s))
         /\ CreatedThenKilled(s) => "created" \in Elements(s)
<1>1. /\ DOMAIN Append(s, x) = 1 .. Len(s) + 1 /\ DOMAIN s = 1 .. Len(s) /\ Len(s) \in Nat
      /\ \A k \in 1 .. Len(s) : Append(s, x)[k] = s[k]
      /\ Append(s, x)[Len(s) + 1] = x
    OBVIOUS
<1>2. Elements(Append(s, x)) = Elements(s) \cup {x} BY <1>1 DEF Elements
<1>3. CreatedThenKilled(Append(s, x)) =>
        CreatedThenKilled(s) \/ (x = "killed" /\ "created" \in Elements(s))
  <2> SUFFICES ASSUME NEW j \in 1 .. Len(s) + 1, NEW k \in 1 .. Len(s) + 1, j < k,
                      Append(s, x)[j] = "created", Append(s, x)[k] = "killed"
               PROVE  CreatedThenKilled(s) \/ (x = "killed" /\ "created" \in Elements(s))
      BY <1>1 DEF CreatedThenKilled
  <2>1. j \in 1 .. Len(s) /\ s[j] = "created" BY <1>1
  <2>2. "created" \in Elements(s) BY <1>1, <2>1 DEF Elements
  <2>3. CASE k = Len(s) + 1 BY <1>1, <2>2, <2>3
  <2>4. CASE k # Len(s) + 1 BY <1>1, <2>1, <2>4 DEF CreatedThenKilled
  <2> QED BY <2>3, <2>4
<1>4. CreatedThenKilled(s) => "created" \in Elements(s) BY DEF CreatedThenKilled, Elements
<1> QED BY <1>2, <1>3, <1>4

LEMMA KillKept ==
  ASSUME NEW w \in Workers, KillHeld(w), UNCHANGED <<story[w], forkChain[w]>>,
         w \in forks => w \in forks', Runs(w)' => Runs(w)
  PROVE  KillHeld(w)'
BY DEF KillHeld

LEMMA KillsPublish == Ordered /\ Lives /\ KillsHeld /\ Publish => KillsHeld'
<1> SUFFICES ASSUME Ordered, Lives, KillsHeld, Publish, NEW w \in Workers PROVE KillHeld(w)'
    BY DEF KillsHeld
<1>0. /\ Typed /\ Handlers /\ EventsMatch /\ CallsInTurn /\ LeaderTyped /\ RolesTyped
      /\ EffectsTyped /\ HistoryTyped /\ Life(w) /\ KillHeld(w)
    BY DEF Ordered, Typed, Lives, KillsHeld
<1>1. queue # <<>>
    BY DEF Publish, AgentCreated, Confirmed, Killed, TaskAssigned, WorkerMessaged,
           ForkCleaned, FailurePublished, Publishes
<1>2. /\ Of \in Workers /\ By \in Nat
      /\ By = 0 => Head(queue).type \in {"agent_finished", "fork_cleaned"}
      /\ By # 0 => By \in DOMAIN calls /\ calls[By] \in Calls
    BY <1>0, <1>1, HeadFits
<1>3. /\ Head(queue) = queue[1] /\ queue[1].call = By /\ 1 \in DOMAIN queue
      /\ queue[1].worker = Of /\ Matches(queue[1], calls)
    BY <1>0, <1>1, QueueIsSeq DEF EventsMatch, By, Of
<1>4. story[w] \in Seq(Told3) /\ forkChain[w] \in Seq({"create", "kill"})
    BY <1>0 DEF HistoryTyped, RolesTyped
<1>5. UNCHANGED session /\ (w \in forks => w \in forks')
    BY DEF Publish, AgentCreated, Confirmed, Killed, TaskAssigned, WorkerMessaged,
           ForkCleaned, FailurePublished, effects, leader
<1>6. (Runs(w)' => Runs(w)) /\ (Runs(w) => Runs(w)') BY <1>5 DEF Runs
<1>7. CASE Confirmed \/ TaskAssigned \/ WorkerMessaged
    BY <1>0, <1>5, <1>6, <1>7, KillKept DEF Confirmed, TaskAssigned, WorkerMessaged, roles, history
<1>8. CASE w # Of
    BY <1>0, <1>2, <1>5, <1>6, <1>7, <1>8, KillKept
       DEF Publish, AgentCreated, Killed, ForkCleaned, FailurePublished, Told, roles,
           RolesTyped, HistoryTyped
<1>9. ASSUME NEW x \in Seq({"create", "kill"}), NEW y \in {"create", "kill"}
      PROVE  Elements(Append(x, y)) = Elements(x) \cup {y}
  <2>1. /\ DOMAIN Append(x, y) = 1 .. Len(x) + 1 /\ DOMAIN x = 1 .. Len(x) /\ Len(x) \in Nat
        /\ \A k \in 1 .. Len(x) : Append(x, y)[k] = x[k]
        /\ Append(x, y)[Len(x) + 1] = y
      OBVIOUS
  <2> QED BY <2>1 DEF Elements
<1>10. CASE w = Of /\ AgentCreated
  <2>1. story'[w] = Append(story[w], "created") /\ w \in forks'
      BY <1>0, <1>10 DEF AgentCreated, Told, HistoryTyped
  \* It was not created before.
  <2>2. "created" \notin Elements(story[w])
    <3>1. calls[By].op = "spawn" /\ calls[By].worker = w /\ calls[By].at = "publishing" /\ By # 0
        BY <1>2, <1>3, <1>10 DEF AgentCreated, Publishes, Matches, First, FirstEvent, Calls, Ops
    <3>2. w \notin forks BY <1>0, <1>2, <3>1 DEF CallsInTurn
    <3> QED BY <1>0, <3>2 DEF KillHeld
  <2>3. ~CreatedThenKilled(story'[w]) BY <1>4, <2>1, <2>2, StoryGrows DEF Told3
  <2> QED BY <2>1, <2>3 DEF KillHeld
<1>11. CASE w = Of /\ Killed
  <2>1. story'[w] = Append(story[w], "killed") /\ UNCHANGED forks
      BY <1>0, <1>11 DEF Killed, Told, HistoryTyped
  <2>2. Elements(story'[w]) = Elements(story[w]) \cup {"killed"} BY <1>4, <2>1, StoryGrows DEF Told3
  <2>3. CASE w \in forks
    <3>1. forkChain'[w] = Append(forkChain[w], "kill") BY <1>0, <1>11, <2>3 DEF Killed, RolesTyped
    <3>2. "kill" \in Elements(forkChain'[w]) BY <1>4, <1>9, <3>1
    <3> QED BY <2>1, <2>3, <3>2 DEF KillHeld
  <2>4. CASE w \notin forks
    <3>1. "created" \notin Elements(story'[w]) BY <1>0, <2>2, <2>4 DEF KillHeld
    <3>2. ~CreatedThenKilled(story'[w])
      <4>1. ~CreatedThenKilled(story[w]) /\ "created" \notin Elements(story[w])
          BY <1>4, <2>2, <3>1, StoryGrows DEF Told3
      <4> QED BY <1>4, <2>1, <4>1, StoryGrows DEF Told3
    <3> QED BY <3>1, <3>2 DEF KillHeld
  <2> QED BY <2>3, <2>4
<1>12. CASE w = Of /\ ForkCleaned
  <2>1. story'[w] = Append(story[w], "cleaned") /\ UNCHANGED <<forks, forkChain>>
      BY <1>0, <1>12 DEF ForkCleaned, Told, HistoryTyped, leader, roles
  <2>2. /\ "created" \in Elements(story'[w]) => "created" \in Elements(story[w])
        /\ CreatedThenKilled(story'[w]) => CreatedThenKilled(story[w])
      BY <1>4, <2>1, StoryGrows DEF Told3
  <2> QED BY <1>0, <1>6, <2>1, <2>2 DEF KillHeld
<1>13. CASE w = Of /\ FailurePublished
  <2>1. story'[w] = Append(story[w], "failed") /\ UNCHANGED forks
      BY <1>0, <1>13 DEF FailurePublished, Told, HistoryTyped, leader
  <2>2. /\ "created" \in Elements(story'[w]) => "created" \in Elements(story[w])
        /\ CreatedThenKilled(story'[w]) => CreatedThenKilled(story[w])
      BY <1>4, <2>1, StoryGrows DEF Told3
  <2>3. "kill" \in Elements(forkChain'[w])
    <3>1. Failure(queue[1]) BY <1>3, <1>13 DEF FailurePublished, Publishes, Failure
    <3>2. forkChain[w] # <<>> BY <1>0, <1>3, <1>13, <3>1 DEF Handlers
    <3>3. forkChain'[w] = Append(Tail(forkChain[w]), "kill") /\ Tail(forkChain[w]) \in Seq({"create", "kill"})
        BY <1>0, <1>4, <1>13, <3>2 DEF FailurePublished, RolesTyped
    <3> QED BY <1>9, <3>3
  <2> QED BY <1>0, <2>1, <2>2, <2>3 DEF KillHeld
<1> QED BY <1>7, <1>8, <1>10, <1>11, <1>12, <1>13 DEF Publish

\* Handling the first pending event takes it, and no other, away.
LEMMA HandledElements ==
  ASSUME NEW s \in Seq({"create", "kill"}), s # <<>>
  PROVE  /\ Elements(s) = Elements(Tail(s)) \cup {Head(s)}
         /\ Head(s) \in {"create", "kill"} /\ Elements(s) \subseteq {"create", "kill"}
<1>1. /\ Head(s) = s[1] /\ 1 \in DOMAIN s /\ DOMAIN s = 1 .. Len(s) /\ Len(s) \in Nat
      /\ Tail(s) \in Seq({"create", "kill"}) /\ Len(Tail(s)) = Len(s) - 1
      /\ \A k \in DOMAIN s : s[k] \in {"create", "kill"}
      /\ DOMAIN Tail(s) = 1 .. Len(s) - 1
      /\ \A k \in 1 .. Len(s) - 1 : Tail(s)[k] = s[k + 1]
    OBVIOUS
<1>2. \A x : x \in Elements(s) <=> x \in Elements(Tail(s)) \cup {Head(s)}
  <2> SUFFICES ASSUME NEW x
               PROVE  (\E k \in DOMAIN s : s[k] = x) <=> x = s[1] \/ \E k \in DOMAIN Tail(s) : Tail(s)[k] = x
      BY <1>1 DEF Elements
  <2>1. ASSUME NEW k \in DOMAIN s, s[k] = x PROVE x = s[1] \/ \E j \in DOMAIN Tail(s) : Tail(s)[j] = x
    <3>1. CASE k = 1 BY <2>1, <3>1
    <3>2. CASE k # 1
      <4>1. k - 1 \in 1 .. Len(s) - 1 /\ s[(k - 1) + 1] = x BY <1>1, <2>1, <3>2
      <4> QED BY <1>1, <4>1
    <3> QED BY <3>1, <3>2
  <2>2. ASSUME NEW k \in DOMAIN Tail(s), Tail(s)[k] = x PROVE \E j \in DOMAIN s : s[j] = x
    <3>1. k + 1 \in DOMAIN s /\ s[k + 1] = x BY <1>1, <2>2
    <3> QED BY <3>1
  <2> QED BY <1>1, <2>1, <2>2
<1> QED BY <1>1, <1>2 DEF Elements

LEMMA KillsWorker ==
  ASSUME Ordered, Lives, KillsHeld, NEW v \in Workers,
         \/ HandleFork(v) \/ SpawnFails(v) \/ OnWorkerMessaged(v) \/ DrainMessages(v)
         \/ Dispatch(v) \/ Consume(v) \/ Ends(v)
  PROVE  KillsHeld'
<1> SUFFICES ASSUME NEW w \in Workers PROVE KillHeld(w)'
    BY DEF KillsHeld
<1>0. /\ Typed /\ Handlers /\ RolesTyped /\ EffectsTyped /\ Life(w) /\ KillHeld(w)
    BY DEF Ordered, Typed, Lives, KillsHeld
<1>1. forkChain[w] \in Seq({"create", "kill"}) /\ session[w] \in Sessions
    BY <1>0 DEF RolesTyped, EffectsTyped
<1>2. UNCHANGED <<forks, story>>
    BY DEF HandleFork, CreationBegins, StartSession, KillBegins, KillSession, SpawnFails,
           OnWorkerMessaged, DrainMessages, Dispatch, Consume, Ends, LoopEnds, leader, history
<1>3. CASE CreationBegins(v) \/ SpawnFails(v)
    BY <1>0, <1>2, <1>3, KillKept DEF CreationBegins, SpawnFails, effects, Runs
<1>4. CASE StartSession(v) \/ KillBegins(v) \/ KillSession(v)
  <2>1. CASE w # v
    <3>1. UNCHANGED <<forkChain[w], session[w]>>
        BY <1>0, <1>4, <2>1
           DEF StartSession, KillBegins, KillSession, Handled, RolesTyped, EffectsTyped, effects
    <3> QED BY <1>0, <1>2, <3>1, KillKept DEF Runs
  <2>2. CASE w = v /\ UNCHANGED forkChain
      BY <1>0, <1>2, <1>4, <2>2, <1>1, KillKept
         DEF StartSession, KillBegins, KillSession, Handled, Heads, RolesTyped, Runs, effects
  <2>3. CASE w = v /\ forkChain[w] # <<>> /\ forkChain'[w] = Tail(forkChain[w])
    <3>1. /\ Elements(forkChain[w]) = Elements(forkChain'[w]) \cup {Head(forkChain[w])}
          /\ Elements(forkChain[w]) \subseteq {"create", "kill"}
        BY <1>1, <2>3, HandledElements
    <3>2. CASE StartSession(v)
      \* The creation was pending: so is every kill that followed it.
      <4>1. Head(forkChain[w]) = "create" BY <2>3, <3>2 DEF StartSession, Heads
      <4> QED BY <1>0, <1>2, <3>1, <4>1 DEF KillHeld
    <3>3. CASE KillBegins(v) \/ KillSession(v)
      <4>1. Head(forkChain[w]) = "kill" BY <2>3, <3>3 DEF KillBegins, KillSession, Heads
      \* The creation comes first: it has been handled.
      <4>2. "create" \notin Elements(forkChain'[w])
        <5>1. \A k \in DOMAIN forkChain[w] : forkChain[w][k] # "create"
            BY <1>0, <1>1, <2>3, <4>1 DEF Life
        <5>2. "create" \notin Elements(forkChain[w]) BY <5>1 DEF Elements
        <5> QED BY <3>1, <5>2
      <4>3. ~Runs(w)'
        <5>1. CASE KillBegins(v)
          <6>1. w \notin workers /\ UNCHANGED session
            <7>1. Len(Tail(forkChain[w])) = Len(forkChain[w]) - 1 /\ Len(forkChain[w]) \in Nat
                BY <1>1, <2>3
            <7>2. Len(Tail(forkChain[w])) # Len(forkChain[w]) BY <7>1
            <7>3. forkChain'[w] # forkChain[w] BY <2>3, <7>2
            <7> QED BY <2>3, <5>1, <7>3 DEF KillBegins, effects
          <6> QED BY <1>0, <6>1 DEF Life, Runs
        <5>2. CASE KillSession(v)
          <6>1. session'[w] = [session[w] EXCEPT !.killed = TRUE]
              BY <1>0, <2>3, <5>2 DEF KillSession, EffectsTyped
          <6>2. session'[w].killed BY <1>1, <6>1 DEF Sessions
          <6> QED BY <6>2 DEF Runs
        <5> QED BY <3>3, <5>1, <5>2
      <4> QED BY <1>0, <1>2, <4>2, <4>3 DEF KillHeld
    <3> QED BY <1>4, <3>2, <3>3
  <2> QED BY <1>0, <1>4, <2>1, <2>2, <2>3
          DEF StartSession, KillBegins, KillSession, Handled, Heads, RolesTyped
<1>5. CASE OnWorkerMessaged(v) \/ DrainMessages(v) \/ Consume(v) \/ Dispatch(v)
  <2>1. UNCHANGED forkChain
      BY <1>5 DEF OnWorkerMessaged, DrainMessages, Consume, Dispatch, roles
  <2>2. \/ session' = session
        \/ \E s : session' = [session EXCEPT ![v].steer = s]
    <3>1. CASE OnWorkerMessaged(v) \/ DrainMessages(v)
        BY <3>1 DEF OnWorkerMessaged, DrainMessages, DeliverMessage
    <3>2. CASE Consume(v) BY <3>2 DEF Consume
    <3>3. CASE Dispatch(v) BY <3>3 DEF Dispatch, effects
    <3> QED BY <1>5, <3>1, <3>2, <3>3
  <2>3. session'[w].status = session[w].status /\ session'[w].killed = session[w].killed
    <3>1. CASE w = v BY <1>0, <1>1, <2>2, <3>1 DEF EffectsTyped, Sessions
    <3>2. CASE w # v BY <1>0, <2>2, <3>2 DEF EffectsTyped
    <3> QED BY <3>1, <3>2
  <2> QED BY <1>0, <1>2, <2>1, <2>3, KillKept DEF Runs
<1>6. CASE Ends(v)
  <2>1. PICK outcome \in Outcomes : LoopEnds(v, outcome) BY <1>6 DEF Ends
  <2>2. UNCHANGED forkChain /\ session' = [session EXCEPT ![v].status = outcome]
      BY <2>1 DEF LoopEnds, roles
  <2>3. Runs(w)' => Runs(w)
    <3>1. CASE w = v
        BY <1>0, <1>1, <2>2, <3>1 DEF Runs, EffectsTyped, Sessions, Outcomes
    <3>2. CASE w # v BY <1>0, <2>2, <3>2 DEF Runs, EffectsTyped
    <3> QED BY <3>1, <3>2
  <2> QED BY <1>0, <1>2, <2>2, <2>3, KillKept
<1> QED BY <1>3, <1>4, <1>5, <1>6 DEF HandleFork

LEMMA KillsStep == Ordered /\ Lives /\ KillsHeld /\ [Next]_vars => KillsHeld'
<1> SUFFICES ASSUME Ordered, Lives, KillsHeld, [Next]_vars PROVE KillsHeld'
    OBVIOUS
<1>0. Typed /\ Handlers BY DEF Ordered
<1>1. CASE UNCHANGED <<forks, forkChain, session, story>>
    BY <1>1, KillKept DEF KillsHeld, Runs
<1>2. CASE LeaderCalls \/ (\E i \in DOMAIN calls : Acquire(i)) \/ UNCHANGED vars
    BY <1>1, <1>2 DEF LeaderCalls, MessageWorker, SpawnWorker, KillWorker, ReassignWorker, Acquire,
                      vars, leader, roles, effects, history
<1>3. CASE AppendFails
  <2>1. UNCHANGED <<forks, session, story>> BY <1>3 DEF AppendFails, effects, history
  <2>2. CASE ~(Publishes("agent_finished") /\ By = 0)
      BY <1>1, <1>3, <2>1, <2>2 DEF AppendFails
  <2>3. ASSUME Publishes("agent_finished"), By = 0, NEW w \in Workers
        PROVE  KillHeld(w)'
    <3>1. RolesTyped /\ KillHeld(w) BY <1>0 DEF Typed, KillsHeld
    <3>2. forkChain' = [forkChain EXCEPT ![Of] = Tail(@)] BY <1>3, <2>3 DEF AppendFails
    <3>3. CASE w # Of
        BY <2>1, <3>1, <3>2, <3>3, KillKept DEF RolesTyped, Runs
    <3>4. CASE w = Of
      <4>1. /\ Head(queue) = queue[1] /\ 1 \in DOMAIN queue /\ queue[1].worker = Of
            /\ Failure(queue[1])
          BY <1>0, <1>3, <2>3, QueueIsSeq DEF AppendFails, Publishes, By, Of, Failure
      <4>2. handling[w] = "failing" BY <1>0, <3>4, <4>1 DEF Handlers
      <4>3. forkChain[w] # <<>> /\ Head(forkChain[w]) = "create" BY <1>0, <4>2 DEF Handlers
      <4>4. /\ forkChain'[w] = Tail(forkChain[w]) /\ forkChain[w] \in Seq({"create", "kill"})
          BY <3>1, <3>2, <3>4 DEF RolesTyped
      <4>5. Elements(forkChain[w]) = Elements(forkChain'[w]) \cup {"create"}
          BY <4>3, <4>4, HandledElements
      <4> QED BY <2>1, <3>1, <4>5 DEF KillHeld, Runs
    <3> QED BY <3>3, <3>4
  <2> QED BY <2>2, <2>3 DEF KillsHeld
<1> QED BY <1>2, <1>3, KillsPublish, KillsWorker DEF Next

LEMMA KillsInit == Init => KillsHeld
BY DEF Init, KillsHeld, KillHeld, Elements, CreatedThenKilled

\* A kill that the roles have handled leaves no session running on, in whatever
\* order the spawn, its creation and the kill were called and handled
\* (KillTakesHold).
THEOREM KillsTakeHold == Spec => []KillTakesHold
<1>1. Init => Ordered /\ Lives /\ KillsHeld BY OrderedInit, LivesInit, KillsInit
<1>2. Ordered /\ Lives /\ KillsHeld /\ [Next]_vars => (Ordered /\ Lives /\ KillsHeld)'
    BY OrderedStep, LivesStep, KillsStep
<1>3. KillsHeld => KillTakesHold
    BY DEF KillsHeld, KillHeld, CreatedThenKilled, Runs, KillTakesHold
<1> QED BY <1>1, <1>2, <1>3, PTL DEF Spec

-----------------------------------------------------------------------------
(* Ends.                                                                   *)

Cleans(e, w) == e.type = "fork_cleaned" /\ e.worker = w

\* A worker's fork_cleaned is published by finalizeWorker(), or for a failed
\* spawn, and by one of the two only.
EndOnce(w) ==
    /\ \A j, k \in DOMAIN queue : Cleans(queue[j], w) /\ Cleans(queue[k], w) => j = k
    /\ \A j, k \in DOMAIN story[w] : story[w][j] = "cleaned" /\ story[w][k] = "cleaned" => j = k
    /\ "cleaned" \in Elements(story[w]) => \A k \in DOMAIN queue : ~Cleans(queue[k], w)
    /\ ("cleaned" \in Elements(story[w]) \/ \E k \in DOMAIN queue : Cleans(queue[k], w)) =>
        \/ w \in finalized
        \/ w \in forks /\ session[w].status = "none" /\ "create" \notin Elements(forkChain[w])
EndsKnown == \A w \in Workers : EndOnce(w)

\* The queue loses events, or gains one for a worker of which it had none.
LEMMA EndMoves ==
  ASSUME Typed, NEW w \in Workers, EndOnce(w), NEW d \in {0, 1}, NEW es, Shift(d, es),
         UNCHANGED story[w],
         (\E e \in es : Cleans(e, w)) => "cleaned" \notin Elements(story[w])
                /\ \A k \in DOMAIN queue : ~Cleans(queue[k], w),
         (\/ "cleaned" \in Elements(story[w]) \/ (\E k \in DOMAIN queue : Cleans(queue[k], w))
          \/ \E e \in es : Cleans(e, w)) =>
            \/ w \in finalized'
            \/ w \in forks' /\ session'[w].status = "none" /\ "create" \notin Elements(forkChain'[w])
  PROVE  EndOnce(w)'
<1>1. \A k \in DOMAIN queue' : Cleans(queue'[k], w) =>
        \/ k + d \in DOMAIN queue /\ Cleans(queue[k + d], w)
        \/ k = Len(queue) - d + 1 /\ \E e \in es : Cleans(e, w)
    BY DEF Shift
<1>2. \A j \in DOMAIN queue' : j \in Nat BY DEF Shift
<1>3. ASSUME NEW j \in DOMAIN queue', NEW k \in DOMAIN queue', Cleans(queue'[j], w), Cleans(queue'[k], w)
      PROVE  j = k
  <2>1. CASE j + d \in DOMAIN queue /\ Cleans(queue[j + d], w)
    <3>1. ~\E e \in es : Cleans(e, w) BY <2>1
    <3>2. k + d \in DOMAIN queue /\ Cleans(queue[k + d], w) BY <1>1, <1>3, <3>1
    <3>3. j + d = k + d BY <2>1, <3>2 DEF EndOnce
    <3> QED BY <1>2, <3>3
  <2>2. CASE j = Len(queue) - d + 1 /\ \E e \in es : Cleans(e, w)
      BY <1>1, <1>3, <2>2
  <2> QED BY <1>1, <1>3, <2>1, <2>2
<1>4. "cleaned" \in Elements(story'[w]) => \A k \in DOMAIN queue' : ~Cleans(queue'[k], w)
    BY <1>1 DEF EndOnce
<1>5. ("cleaned" \in Elements(story'[w]) \/ \E k \in DOMAIN queue' : Cleans(queue'[k], w)) =>
        \/ w \in finalized'
        \/ w \in forks' /\ session'[w].status = "none" /\ "create" \notin Elements(forkChain'[w])
    BY <1>1
<1>6. \A j, k \in DOMAIN story'[w] : story'[w][j] = "cleaned" /\ story'[w][k] = "cleaned" => j = k
    BY DEF EndOnce
<1> QED BY <1>3, <1>4, <1>5, <1>6 DEF EndOnce

\* A step that cleans nothing, and leaves the worker's end as it was.
LEMMA EndKept ==
  ASSUME Typed, NEW w \in Workers, EndOnce(w), NEW d \in {0, 1}, NEW es, Shift(d, es),
         UNCHANGED story[w], \A e \in es : ~Cleans(e, w),
         w \in finalized => w \in finalized', w \in forks => w \in forks',
         session[w].status = "none" => session'[w].status = "none",
         "create" \in Elements(forkChain'[w]) => "create" \in Elements(forkChain[w])
  PROVE  EndOnce(w)'
<1>1. (\/ "cleaned" \in Elements(story[w]) \/ (\E k \in DOMAIN queue : Cleans(queue[k], w))
       \/ \E e \in es : Cleans(e, w)) =>
         \/ w \in finalized'
         \/ w \in forks' /\ session'[w].status = "none" /\ "create" \notin Elements(forkChain'[w])
    BY DEF EndOnce
<1>2. ~\E e \in es : Cleans(e, w) OBVIOUS
<1> QED BY <1>1, <1>2, EndMoves

LEMMA EndsPublish == Ordered /\ Lives /\ EndsKnown /\ Publish => EndsKnown'
<1> SUFFICES ASSUME Ordered, Lives, EndsKnown, Publish, NEW w \in Workers PROVE EndOnce(w)'
    BY DEF EndsKnown
<1>0. /\ Typed /\ Handlers /\ EventsMatch /\ CallsInTurn /\ LeaderTyped /\ RolesTyped
      /\ HistoryTyped /\ Life(w) /\ EndOnce(w)
    BY DEF Ordered, Typed, Lives, EndsKnown
<1>1. queue # <<>>
    BY DEF Publish, AgentCreated, Confirmed, Killed, TaskAssigned, WorkerMessaged,
           ForkCleaned, FailurePublished, Publishes
<1>2. /\ Of \in Workers /\ By \in Nat
      /\ By = 0 => Head(queue).type \in {"agent_finished", "fork_cleaned"}
      /\ By # 0 => By \in DOMAIN calls /\ calls[By] \in Calls
    BY <1>0, <1>1, HeadFits
<1>3. /\ Head(queue) = queue[1] /\ queue[1].call = By /\ 1 \in DOMAIN queue
      /\ queue[1].worker = Of /\ Matches(queue[1], calls)
      /\ DOMAIN queue = 1 .. Len(queue) /\ Len(queue) \in Nat
    BY <1>0, <1>1, QueueIsSeq DEF EventsMatch, By, Of
<1>4. story[w] \in Seq(Told3) /\ forkChain[w] \in Seq({"create", "kill"})
    BY <1>0 DEF HistoryTyped, RolesTyped
<1>5. UNCHANGED <<session, finalized>> /\ (w \in forks => w \in forks')
    BY DEF Publish, AgentCreated, Confirmed, Killed, TaskAssigned, WorkerMessaged,
           ForkCleaned, FailurePublished, effects, executor, leader
<1>6. ASSUME NEW x \in Seq({"create", "kill"}), NEW y \in {"create", "kill"}
      PROVE  Elements(Append(x, y)) = Elements(x) \cup {y}
  <2>1. /\ DOMAIN Append(x, y) = 1 .. Len(x) + 1 /\ DOMAIN x = 1 .. Len(x) /\ Len(x) \in Nat
        /\ \A k \in 1 .. Len(x) : Append(x, y)[k] = x[k]
        /\ Append(x, y)[Len(x) + 1] = y
      OBVIOUS
  <2> QED BY <2>1 DEF Elements
\* An event of another kind, or about another worker, leaves this one's end.
<1>7. ASSUME NEW es, Shift(1, es), \A e \in es : ~Cleans(e, w),
             \/ UNCHANGED story[w]
             \/ \E x \in Told3 \ {"cleaned"} : story'[w] = Append(story[w], x),
             "create" \in Elements(forkChain'[w]) =>
                \/ "create" \in Elements(forkChain[w])
                \/ w \notin forks /\ ~Cleans(queue[1], w)
      PROVE  EndOnce(w)'
  <2>1. /\ "cleaned" \in Elements(story'[w]) <=> "cleaned" \in Elements(story[w])
        /\ \A j, k \in DOMAIN story'[w] : story'[w][j] = "cleaned" /\ story'[w][k] = "cleaned" => j = k
    <3>1. CASE UNCHANGED story[w] BY <1>0, <3>1 DEF EndOnce
    <3>2. ASSUME NEW x \in Told3 \ {"cleaned"}, story'[w] = Append(story[w], x)
          PROVE  /\ "cleaned" \in Elements(story'[w]) <=> "cleaned" \in Elements(story[w])
                 /\ \A j, k \in DOMAIN story'[w] :
                        story'[w][j] = "cleaned" /\ story'[w][k] = "cleaned" => j = k
      <4>1. /\ DOMAIN story'[w] = 1 .. Len(story[w]) + 1 /\ DOMAIN story[w] = 1 .. Len(story[w])
            /\ \A k \in DOMAIN story[w] : story'[w][k] = story[w][k]
            /\ story'[w][Len(story[w]) + 1] = x /\ Len(story[w]) \in Nat
          BY <1>4, <3>2
      <4> QED BY <1>0, <1>4, <3>2, <4>1, StoryGrows DEF EndOnce
    <3> QED BY <1>7, <3>1, <3>2
  <2>2. \A k \in DOMAIN queue' : Cleans(queue'[k], w) =>
            k \in Nat /\ k + 1 \in DOMAIN queue /\ Cleans(queue[k + 1], w)
      BY <1>7 DEF Shift
  <2>3. \A j, k \in DOMAIN queue' : Cleans(queue'[j], w) /\ Cleans(queue'[k], w) => j = k
    <3> SUFFICES ASSUME NEW j \in DOMAIN queue', NEW k \in DOMAIN queue',
                        Cleans(queue'[j], w), Cleans(queue'[k], w)
                 PROVE  j = k
        OBVIOUS
    <3>1. j + 1 = k + 1 /\ j \in Nat /\ k \in Nat BY <1>0, <2>2 DEF EndOnce
    <3> QED BY <3>1
  <2>4. (\E k \in DOMAIN queue' : Cleans(queue'[k], w)) => \E k \in DOMAIN queue : Cleans(queue[k], w)
      BY <2>2
  <2>5. "cleaned" \in Elements(story'[w]) => \A k \in DOMAIN queue' : ~Cleans(queue'[k], w)
      BY <1>0, <2>1, <2>4 DEF EndOnce
  <2>6. ("cleaned" \in Elements(story'[w]) \/ \E k \in DOMAIN queue' : Cleans(queue'[k], w)) =>
            \/ w \in finalized'
            \/ w \in forks' /\ session'[w].status = "none" /\ "create" \notin Elements(forkChain'[w])
    <3>1. "cleaned" \in Elements(story'[w]) \/ (\E k \in DOMAIN queue' : Cleans(queue'[k], w)) =>
            \/ w \in finalized
            \/ w \in forks /\ session[w].status = "none" /\ "create" \notin Elements(forkChain[w])
        BY <1>0, <2>1, <2>4 DEF EndOnce
    <3>2. w \notin forks => w \notin finalized BY <1>0 DEF Life, New
    <3> QED BY <1>5, <1>7, <3>1, <3>2
  <2> QED BY <2>1, <2>3, <2>5, <2>6 DEF EndOnce
<1>8. CASE Confirmed \/ TaskAssigned \/ WorkerMessaged
  <2>1. Shift(1, {}) /\ UNCHANGED <<story, forkChain>>
      BY <1>0, <1>1, <1>8, ShiftShrunk DEF Confirmed, TaskAssigned, WorkerMessaged, roles, history
  <2> QED BY <1>7, <2>1
<1>9. CASE AgentCreated
  <2>1. PICK e \in Events : ~Cleans(e, w) /\ queue' = Append(Tail(queue), e)
      BY <1>2, <1>9, EventTyped DEF AgentCreated, Event, Cleans, EventTypes
  <2>2. Shift(1, {e}) BY <1>0, <1>1, <2>1, ShiftReplaced
  <2>3. CASE w # Of
    <3>1. UNCHANGED <<story[w], forkChain[w]>>
        BY <1>0, <1>9, <2>3 DEF AgentCreated, Told, RolesTyped, HistoryTyped
    <3> QED BY <1>7, <2>1, <2>2, <3>1
  <2>4. CASE w = Of
    <3>1. calls[By].op = "spawn" /\ calls[By].worker = w /\ calls[By].at = "publishing" /\ By # 0
        BY <1>2, <1>3, <1>9, <2>4 DEF AgentCreated, Publishes, Matches, First, FirstEvent, Calls, Ops
    <3>2. w \notin forks BY <1>0, <1>2, <3>1 DEF CallsInTurn
    <3>3. ~Cleans(queue[1], w) BY <1>3, <1>9 DEF AgentCreated, Publishes, Cleans
    <3>4. \E x \in Told3 \ {"cleaned"} : story'[w] = Append(story[w], x)
        BY <1>0, <1>9, <2>4 DEF AgentCreated, Told, Told3, HistoryTyped
    <3> QED BY <1>7, <2>1, <2>2, <3>2, <3>3, <3>4
  <2> QED BY <2>3, <2>4
<1>10. CASE Killed
  <2>1. PICK e \in Events : ~Cleans(e, w) /\ queue' = Append(Tail(queue), e)
      BY <1>2, <1>10, EventTyped DEF Killed, Event, Cleans, EventTypes
  <2>2. Shift(1, {e}) BY <1>0, <1>1, <2>1, ShiftReplaced
  <2>3. UNCHANGED story[w] \/ \E x \in Told3 \ {"cleaned"} : story'[w] = Append(story[w], x)
      BY <1>0, <1>10 DEF Killed, Told, Told3, HistoryTyped
  <2>4. forkChain'[w] = forkChain[w] \/ forkChain'[w] = Append(forkChain[w], "kill")
      BY <1>0, <1>2, <1>10 DEF Killed, RolesTyped
  <2>5. "create" \in Elements(forkChain'[w]) => "create" \in Elements(forkChain[w])
      BY <1>4, <1>6, <2>4
  <2> QED BY <1>7, <2>1, <2>2, <2>3, <2>5
<1>11. CASE FailurePublished
  <2>1. PICK e : e = Event("fork_cleaned", Of, 0) OBVIOUS
  <2>2. e \in Events BY <1>2, <2>1, EventTyped DEF EventTypes
  <2>3. Shift(1, {e}) BY <1>0, <1>1, <1>11, <2>1, <2>2, ShiftReplaced DEF FailurePublished
  <2>4. CASE w # Of
    <3>1. ~Cleans(e, w) /\ UNCHANGED <<story[w], forkChain[w]>>
        BY <1>0, <1>11, <2>1, <2>4 DEF FailurePublished, Told, RolesTyped, HistoryTyped, Cleans, Event
    <3> QED BY <1>7, <2>3, <3>1
  \* The creation was being handled: nothing has cleaned the worker before.
  <2>5. CASE w = Of
    <3>1. Failure(queue[1]) BY <1>3, <1>11 DEF FailurePublished, Publishes, Failure
    <3>2. forkChain[w] # <<>> /\ Head(forkChain[w]) = "create"
        BY <1>0, <1>3, <2>5, <3>1 DEF Handlers
    <3>3. forkChain[w][1] = "create" /\ 1 \in DOMAIN forkChain[w] BY <1>4, <3>2
    <3>4. New(w) /\ w \in forks BY <1>0, <3>2, <3>3 DEF Life
    <3>5. "create" \in Elements(forkChain[w]) BY <3>3 DEF Elements
    <3>6. "cleaned" \notin Elements(story[w]) /\ \A k \in DOMAIN queue : ~Cleans(queue[k], w)
        BY <1>0, <3>4, <3>5 DEF EndOnce, New
    <3>7. story'[w] = Append(story[w], "failed")
          /\ forkChain'[w] = Append(Tail(forkChain[w]), "kill")
        BY <1>0, <1>11, <2>5 DEF FailurePublished, Told, HistoryTyped, RolesTyped
    <3>8. Elements(story'[w]) = Elements(story[w]) \cup {"failed"} BY <1>4, <3>7, StoryGrows DEF Told3
    <3>9. "create" \notin Elements(forkChain'[w])
      <4>1. /\ Tail(forkChain[w]) \in Seq({"create", "kill"})
            /\ \A k \in DOMAIN Tail(forkChain[w]) :
                k + 1 \in DOMAIN forkChain[w] /\ k + 1 # 1 /\ Tail(forkChain[w])[k] = forkChain[w][k + 1]
          BY <1>4, <3>2
      <4>2. \A k \in DOMAIN Tail(forkChain[w]) : Tail(forkChain[w])[k] # "create"
          BY <1>0, <4>1 DEF Life
      <4>3. "create" \notin Elements(Tail(forkChain[w])) BY <4>2 DEF Elements
      <4> QED BY <1>6, <3>7, <4>1, <4>3
    <3>10. \A k \in DOMAIN queue' : Cleans(queue'[k], w) => k = Len(queue) - 1 + 1
        BY <2>3, <3>6 DEF Shift
    <3>11. \A j, k \in DOMAIN queue' : Cleans(queue'[j], w) /\ Cleans(queue'[k], w) => j = k
        BY <3>10
    <3>12. w \in forks' /\ session'[w].status = "none" BY <1>5, <3>4 DEF New
    <3>13. "cleaned" \notin Elements(story'[w]) BY <3>6, <3>8
    <3>14. \A k \in DOMAIN story'[w] : story'[w][k] # "cleaned" BY <3>13 DEF Elements
    <3> QED BY <3>9, <3>11, <3>12, <3>13, <3>14 DEF EndOnce
  <2> QED BY <2>4, <2>5
<1>12. CASE ForkCleaned
  <2>1. Shift(1, {}) BY <1>0, <1>1, <1>12, ShiftShrunk DEF ForkCleaned
  <2>2. UNCHANGED forkChain BY <1>12 DEF ForkCleaned, roles
  <2>3. CASE w # Of
    <3>1. UNCHANGED story[w] BY <1>0, <1>12, <2>3 DEF ForkCleaned, Told, HistoryTyped
    <3> QED BY <1>7, <2>1, <2>2, <3>1
  \* The one event that was to clean it.
  <2>4. CASE w = Of
    <3>1. Cleans(queue[1], w) BY <1>3, <1>12, <2>4 DEF ForkCleaned, Publishes, Cleans
    <3>2. "cleaned" \notin Elements(story[w]) BY <1>0, <1>3, <3>1 DEF EndOnce
    <3>3. story'[w] = Append(story[w], "cleaned") BY <1>0, <1>12, <2>4 DEF ForkCleaned, Told, HistoryTyped
    <3>4. \A j, k \in DOMAIN story'[w] : story'[w][j] = "cleaned" /\ story'[w][k] = "cleaned" => j = k
      <4>1. /\ DOMAIN story'[w] = 1 .. Len(story[w]) + 1 /\ DOMAIN story[w] = 1 .. Len(story[w])
            /\ \A k \in DOMAIN story[w] : story'[w][k] = story[w][k]
          BY <1>4, <3>3 DEF Told3
      <4>2. \A k \in DOMAIN story[w] : story[w][k] # "cleaned" BY <3>2 DEF Elements
      <4> QED BY <4>1, <4>2
    <3>5. \A k \in DOMAIN queue' : ~Cleans(queue'[k], w)
      <4>1. \A k \in DOMAIN queue' : k \in Nat \ {0} /\ k + 1 \in DOMAIN queue /\ queue'[k] = queue[k + 1]
          BY <2>1 DEF Shift
      <4>2. \A k \in DOMAIN queue : Cleans(queue[k], w) => k = 1 BY <1>0, <1>3, <3>1 DEF EndOnce
      <4>3. \A k \in DOMAIN queue' : k + 1 # 1 BY <4>1
      <4> QED BY <4>1, <4>2, <4>3
    <3>6. \/ w \in finalized'
          \/ w \in forks' /\ session'[w].status = "none" /\ "create" \notin Elements(forkChain'[w])
        BY <1>0, <1>3, <1>5, <2>2, <3>1 DEF EndOnce
    <3> QED BY <3>4, <3>5, <3>6 DEF EndOnce
  <2> QED BY <2>3, <2>4
<1> QED BY <1>8, <1>9, <1>10, <1>11, <1>12 DEF Publish

LEMMA EndsWorker ==
  ASSUME Ordered, Lives, EndsKnown, NEW v \in Workers,
         \/ HandleFork(v) \/ SpawnFails(v) \/ OnWorkerMessaged(v) \/ DrainMessages(v)
         \/ Dispatch(v) \/ Consume(v) \/ Ends(v)
  PROVE  EndsKnown'
<1> SUFFICES ASSUME NEW w \in Workers PROVE EndOnce(w)'
    BY DEF EndsKnown
<1>0. /\ Typed /\ Handlers /\ RolesTyped /\ EffectsTyped /\ Life(w) /\ EndOnce(w)
    BY DEF Ordered, Typed, Lives, EndsKnown
<1>1. forkChain[w] \in Seq({"create", "kill"}) /\ session[w] \in Sessions
    BY <1>0 DEF RolesTyped, EffectsTyped
<1>2. UNCHANGED <<forks, story>>
    BY DEF HandleFork, CreationBegins, StartSession, KillBegins, KillSession, SpawnFails,
           OnWorkerMessaged, DrainMessages, Dispatch, Consume, Ends, LoopEnds, leader, history
\* finalizeWorker(), when the worker ran.
<1>3. ASSUME NEW reason, Finalize(v, reason), session[v].status = "running",
             UNCHANGED session[w] \/ w = v,
             "create" \in Elements(forkChain'[w]) => "create" \in Elements(forkChain[w])
      PROVE  EndOnce(w)'
  <2>1. PICK es \in {{}, {Event("fork_cleaned", v, 0)}} : Shift(0, es) /\ (v \in finalized => es = {})
      BY <1>0, <1>3, FinalizeShifts
  <2>2. w \in finalized => w \in finalized' BY <1>3 DEF Finalize
  <2>3. CASE w # v
    <3>1. \A e \in es : ~Cleans(e, w) BY <2>1, <2>3 DEF Cleans, Event
    <3> QED BY <1>0, <1>2, <1>3, <2>1, <2>2, <2>3, <3>1, EndKept
  <2>4. CASE w = v
    <3>1. w \in finalized' BY <1>3, <2>4 DEF Finalize
    <3>2. (\E e \in es : Cleans(e, w)) => "cleaned" \notin Elements(story[w])
                /\ \A k \in DOMAIN queue : ~Cleans(queue[k], w)
        BY <1>0, <1>3, <2>1, <2>4 DEF EndOnce
    <3> QED BY <1>0, <1>2, <2>1, <3>1, <3>2, EndMoves
  <2> QED BY <2>3, <2>4
<1>4. CASE CreationBegins(v) \/ SpawnFails(v)
  <2>1. PICK es \in {{}, {Event("agent_finished", v, 0)}} : Shift(0, es)
    <3>1. CASE CreationBegins(v) BY <1>0, <3>1, ShiftKept DEF CreationBegins
    <3>2. CASE SpawnFails(v)
      <4>1. Event("agent_finished", v, 0) \in Events BY EventTyped DEF EventTypes
      <4> QED BY <1>0, <3>2, <4>1, ShiftGrown DEF SpawnFails
    <3> QED BY <1>4, <3>1, <3>2
  <2>2. \A e \in es : ~Cleans(e, w) BY <2>1 DEF Cleans, Event
  <2>3. UNCHANGED <<forkChain, session, finalized>>
      BY <1>4 DEF CreationBegins, SpawnFails, executor, effects
  <2> QED BY <1>0, <1>2, <2>1, <2>2, <2>3, EndKept
<1>5. CASE StartSession(v)
  <2>1. Shift(0, {}) /\ UNCHANGED finalized BY <1>0, <1>5, ShiftKept DEF StartSession
  <2>2. CASE w # v
    <3>1. UNCHANGED <<forkChain[w], session[w]>>
        BY <1>0, <1>5, <2>2 DEF StartSession, Handled, RolesTyped, EffectsTyped
    <3> QED BY <1>0, <1>2, <2>1, <3>1, EndKept
  <2>3. CASE w = v
    <3>1. forkChain[w] # <<>> /\ Head(forkChain[w]) = "create" BY <1>5, <2>3 DEF StartSession, Heads
    <3>2. 1 \in DOMAIN forkChain[w] /\ forkChain[w][1] = "create" BY <1>1, <3>1
    <3>3. w \notin finalized /\ "create" \in Elements(forkChain[w])
        BY <1>0, <3>2 DEF Life, New, Elements
    <3>4. "cleaned" \notin Elements(story[w]) /\ \A k \in DOMAIN queue : ~Cleans(queue[k], w)
        BY <1>0, <3>3 DEF EndOnce
    <3> QED BY <1>0, <1>2, <2>1, <3>4, EndMoves
  <2> QED BY <2>2, <2>3
<1>6. ASSUME forkChain'[w] = forkChain[w] \/ (forkChain[w] # <<>> /\ forkChain'[w] = Tail(forkChain[w]))
      PROVE  "create" \in Elements(forkChain'[w]) => "create" \in Elements(forkChain[w])
    BY <1>1, <1>6, HandledElements
<1>7. CASE KillBegins(v)
  <2>1. Shift(0, {}) /\ UNCHANGED <<finalized, session>>
      BY <1>0, <1>7, ShiftKept DEF KillBegins, effects
  <2>2. forkChain'[w] = forkChain[w] \/ (forkChain[w] # <<>> /\ forkChain'[w] = Tail(forkChain[w]))
      BY <1>0, <1>7 DEF KillBegins, Heads, Handled, RolesTyped
  <2> QED BY <1>0, <1>2, <1>6, <2>1, <2>2, EndKept
<1>8. CASE KillSession(v)
  <2>1. forkChain'[w] = forkChain[w] \/ (forkChain[w] # <<>> /\ forkChain'[w] = Tail(forkChain[w]))
      BY <1>0, <1>8 DEF KillSession, Heads, Handled, RolesTyped
  <2>2. w # v => UNCHANGED session[w] BY <1>0, <1>8 DEF KillSession, EffectsTyped
  <2>3. CASE session[v].status = "running" /\ ~session[v].killed
      BY <1>3, <1>6, <1>8, <2>1, <2>2, <2>3 DEF KillSession
  <2>4. CASE ~(session[v].status = "running" /\ ~session[v].killed)
    <3>1. Shift(0, {}) /\ UNCHANGED finalized BY <1>0, <1>8, <2>4, ShiftKept DEF KillSession
    <3>2. session'[w].status = session[w].status
      <4>1. CASE w = v BY <1>0, <1>1, <1>8, <4>1 DEF KillSession, EffectsTyped, Sessions
      <4> QED BY <2>2, <4>1
    <3> QED BY <1>0, <1>2, <1>6, <2>1, <3>1, <3>2, EndKept
  <2> QED BY <2>3, <2>4
<1>9. CASE OnWorkerMessaged(v) \/ DrainMessages(v) \/ Consume(v) \/ Dispatch(v)
  <2>1. UNCHANGED <<forkChain, finalized>>
      BY <1>9 DEF OnWorkerMessaged, DrainMessages, Consume, Dispatch, roles, executor
  <2>2. PICK es : Shift(0, es) /\ \A e \in es : ~Cleans(e, w)
    <3>1. CASE Dispatch(v)
      <4>1. dispatch[v] \in Seq(Nat) /\ dispatch[v] # <<>> BY <1>0, <3>1 DEF Dispatch, RolesTyped
      <4>2. PICK i \in Nat : queue' = Append(queue, Event("worker_messaged", v, i))
          BY <3>1, <4>1 DEF Dispatch
      <4>3. Event("worker_messaged", v, i) \in Events BY EventTyped DEF EventTypes
      <4>4. Shift(0, {Event("worker_messaged", v, i)}) BY <1>0, <4>2, <4>3, ShiftGrown
      <4> QED BY <4>4 DEF Cleans, Event
    <3>2. CASE UNCHANGED queue BY <1>0, <3>2, ShiftKept
    <3> QED BY <1>9, <3>1, <3>2 DEF OnWorkerMessaged, DrainMessages, Consume
  <2>3. \/ session' = session
        \/ \E s : session' = [session EXCEPT ![v].steer = s]
    <3>1. CASE OnWorkerMessaged(v) \/ DrainMessages(v)
        BY <3>1 DEF OnWorkerMessaged, DrainMessages, DeliverMessage
    <3>2. CASE Consume(v) BY <3>2 DEF Consume
    <3>3. CASE Dispatch(v) BY <3>3 DEF Dispatch, effects
    <3> QED BY <1>9, <3>1, <3>2, <3>3
  <2>4. session'[w].status = session[w].status
    <3>1. CASE w = v BY <1>0, <1>1, <2>3, <3>1 DEF EffectsTyped, Sessions
    <3>2. CASE w # v BY <1>0, <2>3, <3>2 DEF EffectsTyped
    <3> QED BY <3>1, <3>2
  <2> QED BY <1>0, <1>2, <2>1, <2>2, <2>4, EndKept
<1>10. CASE Ends(v)
  <2>1. PICK outcome \in Outcomes : LoopEnds(v, outcome) BY <1>10 DEF Ends
  <2>2. PICK reason : Finalize(v, reason) BY <2>1 DEF LoopEnds
  <2>3. UNCHANGED forkChain /\ session' = [session EXCEPT ![v].status = outcome]
        /\ session[v].status = "running"
      BY <2>1 DEF LoopEnds, roles
  <2>4. w # v => UNCHANGED session[w] BY <1>0, <2>3 DEF EffectsTyped
  <2> QED BY <1>3, <2>2, <2>3, <2>4
<1> QED BY <1>4, <1>5, <1>7, <1>8, <1>9, <1>10 DEF HandleFork

LEMMA EndsStep == Ordered /\ Lives /\ EndsKnown /\ [Next]_vars => EndsKnown'
<1> SUFFICES ASSUME Ordered, Lives, EndsKnown, [Next]_vars PROVE EndsKnown'
    OBVIOUS
<1>0. Typed /\ Handlers /\ RolesTyped BY DEF Ordered, Typed
<1>1. CASE LeaderCalls \/ (\E i \in DOMAIN calls : Acquire(i)) \/ UNCHANGED vars
  <2>1. UNCHANGED <<forks, forkChain, session, finalized, story>>
      BY <1>1 DEF LeaderCalls, MessageWorker, SpawnWorker, KillWorker, ReassignWorker, Acquire,
                  vars, leader, roles, executor, effects, history
  <2>2. PICK es : Shift(0, es) /\ \A e \in es : e.type # "fork_cleaned"
    <3>1. CASE UNCHANGED queue BY <1>0, <3>1, ShiftKept
    <3>2. ASSUME NEW w \in Workers, MessageWorker(w)
          PROVE  \E es : Shift(0, es) /\ \A e \in es : e.type # "fork_cleaned"
      <4>1. PICK e : e = Event("worker_messaged", w, Len(calls) + 1) OBVIOUS
      <4>2. e \in Events BY <1>0, <4>1, EventTyped DEF EventTypes, Typed, LeaderTyped
      <4>3. Shift(0, {e}) BY <1>0, <3>2, <4>1, <4>2, ShiftGrown DEF MessageWorker
      <4> QED BY <4>1, <4>3 DEF Event
    <3>3. ASSUME NEW i \in DOMAIN calls, Acquire(i)
          PROVE  \E es : Shift(0, es) /\ \A e \in es : e.type # "fork_cleaned"
      <4>1. PICK e : e = Event(FirstEvent[calls[i].op], calls[i].worker, i) OBVIOUS
      <4>2. calls[i] \in Calls /\ i \in Nat BY <1>0 DEF Typed, LeaderTyped
      <4>3. calls[i].op \in {"spawn", "kill", "reassign"} /\ calls[i].worker \in Workers
          BY <3>3, <4>2 DEF Acquire, Calls, Ops
      <4>4. FirstEvent[calls[i].op] \in EventTypes /\ FirstEvent[calls[i].op] # "fork_cleaned"
          BY <4>3 DEF FirstEvent, EventTypes
      <4>5. e \in Events /\ e.type # "fork_cleaned" BY <4>1, <4>2, <4>3, <4>4, EventTyped DEF Event
      <4>6. Shift(0, {e}) BY <1>0, <3>3, <4>1, <4>5, ShiftGrown DEF Acquire
      <4> QED BY <4>5, <4>6
    <3> QED BY <1>1, <3>1, <3>2, <3>3 DEF LeaderCalls, SpawnWorker, KillWorker, ReassignWorker, vars
  <2>3. \A w \in Workers : \A e \in es : ~Cleans(e, w) BY <2>2 DEF Cleans
  <2> QED BY <1>0, <2>1, <2>2, <2>3, EndKept DEF EndsKnown
<1>2. CASE AppendFails
  <2>1. UNCHANGED <<forks, session, finalized, story>> /\ Shift(1, {}) /\ queue # <<>>
      BY <1>0, <1>2, ShiftShrunk DEF AppendFails, executor, effects, history
  <2>2. ASSUME NEW w \in Workers
        PROVE  "create" \in Elements(forkChain'[w]) => "create" \in Elements(forkChain[w])
    <3>1. CASE UNCHANGED forkChain[w] BY <3>1
    <3>2. CASE w = Of /\ Publishes("agent_finished") /\ By = 0
      <4>1. /\ Head(queue) = queue[1] /\ 1 \in DOMAIN queue /\ queue[1].worker = Of
            /\ Failure(queue[1])
          BY <1>0, <2>1, <3>2, QueueIsSeq DEF Publishes, By, Of, Failure
      <4>2. forkChain[w] # <<>> BY <1>0, <3>2, <4>1 DEF Handlers
      <4>3. forkChain'[w] = Tail(forkChain[w]) /\ forkChain[w] \in Seq({"create", "kill"})
          BY <1>0, <1>2, <3>2 DEF AppendFails, RolesTyped
      <4> QED BY <4>2, <4>3, HandledElements
    <3> QED BY <1>0, <1>2, <3>1, <3>2 DEF AppendFails, RolesTyped
  <2> QED BY <1>0, <2>1, <2>2, EndKept DEF EndsKnown
<1> QED BY <1>1, <1>2, EndsPublish, EndsWorker DEF Next

LEMMA EndsInit == Init => EndsKnown
BY DEF Init, EndsKnown, EndOnce, Elements

\* At most one position holds x when any two that do are the same.
LEMMA CountAtMostOne ==
  ASSUME NEW s, NEW x, \A j, k \in DOMAIN s : s[j] = x /\ s[k] = x => j = k
  PROVE  Count(s, x) <= 1
<1> DEFINE P == {i \in DOMAIN s : s[i] = x}
<1>1. CASE P = {} BY <1>1, FS_EmptySet DEF Count
<1>2. CASE P # {}
  <2>1. PICK i : i \in P BY <1>2
  <2>2. P = {i} BY <2>1
  <2>3. Count(s, x) = Cardinality({i}) BY <2>2 DEF Count
  <2>4. Cardinality({i}) = 1 BY FS_Singleton
  <2> QED BY <2>3, <2>4
<1> QED BY <1>1, <1>2

\* However a worker's end is noticed, by its loop, by the observer of its fiber
\* or by a failed set-up, the leader hears of it at most once and its fork is
\* cleaned at most once (EndsOnce).
THEOREM EveryEndIsToldOnce == Spec => []EndsOnce
<1>1. Init => Ordered /\ Lives /\ EndsKnown BY OrderedInit, LivesInit, EndsInit
<1>2. Ordered /\ Lives /\ EndsKnown /\ [Next]_vars => (Ordered /\ Lives /\ EndsKnown)'
    BY OrderedStep, LivesStep, EndsStep
<1>3. Ordered /\ Lives /\ EndsKnown => EndsOnce
    BY CountAtMostOne DEF Lives, Life, EndsKnown, EndOnce, EndsOnce
<1> QED BY <1>1, <1>2, <1>3, PTL DEF Spec

-----------------------------------------------------------------------------
(* Messages.  One message of a call is on its way to be published, or it   *)
(* has been; one that has been is in one place until the agent reads it.   *)

Carries(e) == e.type \in {"task.assigned", "worker_messaged"}

SentOnce ==
    /\ sent \in [Workers -> SUBSET Nat]
    /\ \A w \in Workers : \A m \in sent[w] : m \in DOMAIN calls /\ calls[m].at # "waiting"
    /\ \A j, k \in DOMAIN queue :
        Carries(queue[j]) /\ Carries(queue[k]) /\ queue[j].call = queue[k].call => j = k
    /\ \A v, w \in Workers : \A i \in DOMAIN dispatch[v] : \A j \in DOMAIN dispatch[w] :
        dispatch[v][i] = dispatch[w][j] => v = w /\ i = j
    /\ \A k \in DOMAIN queue : Carries(queue[k]) => \A w \in Workers :
        /\ queue[k].call \notin sent[w]
        /\ \A i \in DOMAIN dispatch[w] : dispatch[w][i] # queue[k].call
    /\ \A v, w \in Workers : \A i \in DOMAIN dispatch[v] : dispatch[v][i] \notin sent[w]

Keeps(w) == \A m \in Nat :
    IF m \in sent[w] THEN Copies(w, m) = 1 \/ (Over(w) /\ Copies(w, m) = 0)
    ELSE Copies(w, m) = 0
ConsumedTyped == consumed \in [Workers -> Seq(Nat)]
MailKept == ConsumedTyped /\ \A w \in Workers : Keeps(w)

\* How often a sequence holds a number.
LEMMA CountOfNone == \A x : Count(<<>>, x) = 0
<1> SUFFICES ASSUME NEW x PROVE Count(<<>>, x) = 0
    OBVIOUS
<1>1. {i \in DOMAIN <<>> : <<>>[i] = x} = {} OBVIOUS
<1> QED BY <1>1, FS_EmptySet DEF Count

LEMMA CountIsNat ==
  ASSUME NEW s \in Seq(Nat), NEW x
  PROVE  IsFiniteSet({i \in DOMAIN s : s[i] = x}) /\ Count(s, x) \in Nat
<1>1. DOMAIN s = 1 .. Len(s) /\ Len(s) \in Nat OBVIOUS
<1>2. IsFiniteSet(DOMAIN s) BY <1>1, FS_Interval
<1>3. IsFiniteSet({i \in DOMAIN s : s[i] = x}) BY <1>2, FS_Subset
<1> QED BY <1>3, FS_CardinalityType DEF Count

LEMMA CountAdded ==
  ASSUME NEW s \in Seq(Nat), NEW y \in Nat, NEW x
  PROVE  Count(Append(s, y), x) = IF y = x THEN Count(s, x) + 1 ELSE Count(s, x)
<1> DEFINE P == {i \in DOMAIN s : s[i] = x}
           Q == {i \in DOMAIN Append(s, y) : Append(s, y)[i] = x}
<1>1. /\ DOMAIN s = 1 .. Len(s) /\ Len(s) \in Nat /\ DOMAIN Append(s, y) = 1 .. Len(s) + 1
      /\ \A i \in 1 .. Len(s) : Append(s, y)[i] = s[i]
      /\ Append(s, y)[Len(s) + 1] = y
    OBVIOUS
<1>2. IsFiniteSet(P) BY CountIsNat
<1>3. CASE y = x
  <2>1. Q = P \cup {Len(s) + 1} BY <1>1, <1>3
  <2>2. Len(s) + 1 \notin P BY <1>1
  <2>3. Cardinality(P \cup {Len(s) + 1}) = Cardinality(P) + 1 BY <1>2, <2>2, FS_AddElement
  <2> QED BY <1>3, <2>1, <2>3 DEF Count
<1>4. CASE y # x
  <2>1. Q = P BY <1>1, <1>4
  <2> QED BY <1>4, <2>1 DEF Count
<1> QED BY <1>3, <1>4

LEMMA CountTaken ==
  ASSUME NEW s \in Seq(Nat), s # <<>>, NEW x
  PROVE  Count(s, x) = IF Head(s) = x THEN Count(Tail(s), x) + 1 ELSE Count(Tail(s), x)
<1> DEFINE P == {i \in DOMAIN Tail(s) : Tail(s)[i] = x}
           Q == {i \in DOMAIN s : s[i] = x}
           R == Q \ {1}
           f == [i \in P |-> i + 1]
<1>1. /\ DOMAIN s = 1 .. Len(s) /\ Len(s) \in Nat /\ Len(s) # 0 /\ Head(s) = s[1]
      /\ Tail(s) \in Seq(Nat) /\ DOMAIN Tail(s) = 1 .. Len(s) - 1
      /\ \A i \in 1 .. Len(s) - 1 : Tail(s)[i] = s[i + 1]
    OBVIOUS
<1>2. IsFiniteSet(P) BY <1>1, CountIsNat
<1>3. f \in Bijection(P, R)
  <2>1. f \in [P -> R] BY <1>1
  <2>2. \A i, j \in P : f[i] = f[j] => i = j BY <1>1
  <2>3. \A k \in R : \E i \in P : f[i] = k
    <3>1. \A k \in R : k - 1 \in P /\ f[k - 1] = k BY <1>1
    <3> QED BY <3>1
  <2>4. f \in Injection(P, R) BY <2>1, <2>2 DEF Injection, IsInjective
  <2>5. f \in Surjection(P, R) BY <2>1, <2>3 DEF Surjection
  <2> QED BY <2>4, <2>5 DEF Bijection
<1>4. IsFiniteSet(R) /\ Cardinality(R) = Cardinality(P)
    BY <1>2, <1>3, FS_Bijection DEF ExistsBijection
<1>5. CASE Head(s) = x
  <2>1. Q = R \cup {1} /\ 1 \notin R BY <1>1, <1>5
  <2>2. Cardinality(R \cup {1}) = Cardinality(R) + 1 BY <1>4, <2>1, FS_AddElement
  <2> QED BY <1>4, <1>5, <2>1, <2>2 DEF Count
<1>6. CASE Head(s) # x
  <2>1. Q = R BY <1>1, <1>6
  <2> QED BY <1>4, <1>6, <2>1 DEF Count
<1> QED BY <1>5, <1>6

\* The events that remain carry what they did; one that joins carries a message
\* that none of them has.
LEMMA CarriedMove ==
  ASSUME Typed, SentOnce, NEW d \in {0, 1}, NEW es, Shift(d, es),
         \A e \in es : Carries(e) => \A k \in DOMAIN queue :
                k > d /\ Carries(queue[k]) => queue[k].call # e.call
  PROVE  /\ \A j, k \in DOMAIN queue' :
                Carries(queue'[j]) /\ Carries(queue'[k]) /\ queue'[j].call = queue'[k].call => j = k
         /\ \A k \in DOMAIN queue' :
                \/ k + d > d /\ k + d \in DOMAIN queue /\ queue'[k] = queue[k + d]
                \/ queue'[k] \in es
<1>1. ASSUME NEW k \in DOMAIN queue'
      PROVE  /\ k \in Nat /\ k # 0
             /\ \/ k + d > d /\ k + d \in DOMAIN queue /\ queue'[k] = queue[k + d]
                \/ k = Len(queue) - d + 1 /\ queue'[k] \in es
    BY DEF Shift
<1>2. ASSUME NEW j \in DOMAIN queue', NEW k \in DOMAIN queue', Carries(queue'[j]),
             Carries(queue'[k]), queue'[j].call = queue'[k].call
      PROVE  j = k
  <2>1. CASE /\ j + d > d /\ j + d \in DOMAIN queue /\ queue'[j] = queue[j + d]
             /\ k + d > d /\ k + d \in DOMAIN queue /\ queue'[k] = queue[k + d]
    <3>1. j + d = k + d BY <1>2, <2>1 DEF SentOnce
    <3> QED BY <1>1, <3>1
  <2>2. CASE /\ j + d > d /\ j + d \in DOMAIN queue /\ queue'[j] = queue[j + d]
             /\ queue'[k] \in es
      BY <1>2, <2>2
  <2>3. CASE /\ k + d > d /\ k + d \in DOMAIN queue /\ queue'[k] = queue[k + d]
             /\ queue'[j] \in es
      BY <1>2, <2>3
  <2>4. CASE j = Len(queue) - d + 1 /\ k = Len(queue) - d + 1 BY <2>4
  <2> QED BY <1>1, <2>1, <2>2, <2>3, <2>4
<1> QED BY <1>1, <1>2

\* The calls go on and never wait again.
CallsGoOn == \A i \in DOMAIN calls : i \in DOMAIN calls'
                /\ (calls[i].at # "waiting" => calls'[i].at # "waiting")

\* A step that publishes no message, and starts none that was on its way.
LEMMA SentKept ==
  ASSUME Typed, SentOnce, NEW d \in {0, 1}, NEW es, Shift(d, es), CallsGoOn,
         UNCHANGED <<sent, dispatch>>,
         \A e \in es : Carries(e) =>
            /\ \A k \in DOMAIN queue : Carries(queue[k]) => queue[k].call # e.call
            /\ \A w \in Workers : /\ e.call \notin sent[w]
                                  /\ \A i \in DOMAIN dispatch[w] : dispatch[w][i] # e.call
  PROVE  SentOnce'
<1>1. /\ \A j, k \in DOMAIN queue' :
            Carries(queue'[j]) /\ Carries(queue'[k]) /\ queue'[j].call = queue'[k].call => j = k
      /\ \A k \in DOMAIN queue' :
            \/ k + d > d /\ k + d \in DOMAIN queue /\ queue'[k] = queue[k + d]
            \/ queue'[k] \in es
  <2>1. \A e \in es : Carries(e) => \A k \in DOMAIN queue :
            k > d /\ Carries(queue[k]) => queue[k].call # e.call
      OBVIOUS
  <2> QED BY <2>1, CarriedMove
<1>2. \A k \in DOMAIN queue' : Carries(queue'[k]) => \A w \in Workers :
        /\ queue'[k].call \notin sent'[w]
        /\ \A i \in DOMAIN dispatch'[w] : dispatch'[w][i] # queue'[k].call
    BY <1>1 DEF SentOnce
<1>3. \A w \in Workers : \A m \in sent'[w] : m \in DOMAIN calls' /\ calls'[m].at # "waiting"
    BY DEF SentOnce, CallsGoOn
<1> QED BY <1>1, <1>2, <1>3 DEF SentOnce

LEMMA CallsStay == Typed /\ UNCHANGED calls => CallsGoOn
BY DEF CallsGoOn

LEMMA CallReturns ==
  ASSUME Typed, NEW i \in DOMAIN calls, NEW s \in Stages \ {"waiting"},
         calls' = [calls EXCEPT ![i].at = s]
  PROVE  CallsGoOn
<1>1. calls \in Seq(Calls) BY DEF Typed, LeaderTyped
<1> QED BY <1>1, CallMoves DEF CallsGoOn

\* Nothing of a call that waits, or has not been made, is on its way.
LEMMA NothingWaits ==
  ASSUME Ordered, SentOnce, NEW i \in Nat, i \in DOMAIN calls => calls[i].at = "waiting"
  PROVE  /\ \A k \in DOMAIN queue : Carries(queue[k]) => queue[k].call # i
         /\ \A w \in Workers : /\ i \notin sent[w]
                               /\ \A k \in DOMAIN dispatch[w] : dispatch[w][k] # i
<1>0. Typed /\ EventsMatch /\ CallsInTurn /\ LeaderTyped /\ RolesTyped BY DEF Ordered, Typed
<1>1. DOMAIN calls = 1 .. Len(calls) /\ Len(calls) \in Nat /\ \A j \in DOMAIN calls : calls[j] \in Calls
    BY <1>0 DEF LeaderTyped
<1>2. ASSUME NEW k \in DOMAIN queue, Carries(queue[k]) PROVE queue[k].call # i
  <2>1. EventFits(queue[k], Len(calls)) /\ Matches(queue[k], calls)
      BY <1>0 DEF LeaderTyped, QueueFits, EventsMatch
  <2>2. queue[k].call \in DOMAIN calls /\ queue[k].call # 0
      BY <1>1, <1>2, <2>1 DEF EventFits, Carries
  <2>3. calls[queue[k].call].at # "waiting"
      BY <1>1, <1>2, <2>1, <2>2 DEF Matches, First, Carries, Calls
  <2> QED BY <2>2, <2>3
<1>3. ASSUME NEW w \in Workers
      PROVE  i \notin sent[w] /\ \A k \in DOMAIN dispatch[w] : dispatch[w][k] # i
  <2>1. \A k \in DOMAIN dispatch[w] : dispatch[w][k] \in DOMAIN calls
            /\ calls[dispatch[w][k]].at = "returned"
      BY <1>0, <1>1 DEF RolesTyped, CallsInTurn
  <2> QED BY <2>1 DEF SentOnce
<1> QED BY <1>2, <1>3

LEMMA SentLeader == Ordered /\ SentOnce /\ LeaderCalls => SentOnce'
<1> SUFFICES ASSUME Ordered, SentOnce, LeaderCalls PROVE SentOnce'
    OBVIOUS
<1>0. Typed /\ LeaderTyped BY DEF Ordered, Typed
<1>1. UNCHANGED <<sent, dispatch>>
    BY DEF LeaderCalls, MessageWorker, SpawnWorker, KillWorker, ReassignWorker, roles, history
<1>2. PICK c : calls' = Append(calls, c)
    BY DEF LeaderCalls, MessageWorker, SpawnWorker, KillWorker, ReassignWorker, Made
<1>3. CallsGoOn BY <1>0, <1>2 DEF CallsGoOn, LeaderTyped
<1>4. CASE UNCHANGED queue
  <2>1. Shift(0, {}) BY <1>0, <1>4, ShiftKept
  <2> QED BY <1>0, <1>1, <1>3, <2>1, SentKept
<1>5. ASSUME NEW w \in Workers, MessageWorker(w) PROVE SentOnce'
  <2>1. PICK e : e = Event("worker_messaged", w, Len(calls) + 1) OBVIOUS
  <2>2. Len(calls) + 1 \in Nat /\ Len(calls) + 1 \notin DOMAIN calls BY <1>0 DEF LeaderTyped
  <2>3. e \in Events /\ e.call = Len(calls) + 1 BY <2>1, <2>2, EventTyped DEF EventTypes, Event
  <2>4. Shift(0, {e}) BY <1>0, <1>5, <2>1, <2>3, ShiftGrown DEF MessageWorker
  <2>5. /\ \A k \in DOMAIN queue : Carries(queue[k]) => queue[k].call # e.call
        /\ \A v \in Workers : /\ e.call \notin sent[v]
                              /\ \A i \in DOMAIN dispatch[v] : dispatch[v][i] # e.call
      BY <2>2, <2>3, NothingWaits
  <2>6. \A f \in {e} : Carries(f) =>
            /\ \A k \in DOMAIN queue : Carries(queue[k]) => queue[k].call # f.call
            /\ \A v \in Workers : /\ f.call \notin sent[v]
                                  /\ \A i \in DOMAIN dispatch[v] : dispatch[v][i] # f.call
      BY <2>5
  <2> QED BY <1>0, <1>1, <1>3, <2>4, <2>6, SentKept
<1> QED BY <1>4, <1>5 DEF LeaderCalls, SpawnWorker, KillWorker, ReassignWorker

LEMMA SentAcquire ==
  ASSUME Ordered, SentOnce, NEW i \in DOMAIN calls, Acquire(i)
  PROVE  SentOnce'
<1>0. Typed /\ LeaderTyped BY DEF Ordered, Typed
<1>1. calls[i] \in Calls /\ calls[i].at = "waiting" /\ i \in Nat /\ UNCHANGED <<sent, dispatch>>
    BY <1>0 DEF LeaderTyped, Acquire, roles, history
<1>2. CallsGoOn BY <1>0, CallReturns DEF Acquire, Stages
<1>3. PICK e : e = Event(FirstEvent[calls[i].op], calls[i].worker, i) OBVIOUS
<1>4. FirstEvent[calls[i].op] \in EventTypes /\ calls[i].worker \in Workers
    BY <1>1 DEF Calls, Ops, FirstEvent, EventTypes
<1>5. e \in Events /\ e.call = i BY <1>1, <1>3, <1>4, EventTyped DEF Event
<1>6. Shift(0, {e}) BY <1>0, <1>3, <1>5, ShiftGrown DEF Acquire
<1>7. /\ \A k \in DOMAIN queue : Carries(queue[k]) => queue[k].call # e.call
      /\ \A v \in Workers : /\ e.call \notin sent[v]
                            /\ \A k \in DOMAIN dispatch[v] : dispatch[v][k] # e.call
    BY <1>1, <1>5, NothingWaits
<1>8. \A f \in {e} : Carries(f) =>
        /\ \A k \in DOMAIN queue : Carries(queue[k]) => queue[k].call # f.call
        /\ \A v \in Workers : /\ f.call \notin sent[v]
                              /\ \A k \in DOMAIN dispatch[v] : dispatch[v][k] # f.call
    BY <1>7
<1> QED BY <1>0, <1>1, <1>2, <1>6, <1>8, SentKept

\* The head of the queue, when it carries a message, is the only one that does.
LEMMA HeadCarries ==
  ASSUME Typed, SentOnce, queue # <<>>, Carries(Head(queue))
  PROVE  /\ By # 0 /\ By \in DOMAIN calls /\ Of \in Workers
         /\ \A k \in DOMAIN queue : k > 1 /\ Carries(queue[k]) => queue[k].call # By
         /\ \A w \in Workers : /\ By \notin sent[w]
                               /\ \A i \in DOMAIN dispatch[w] : dispatch[w][i] # By
<1>1. 1 \in DOMAIN queue /\ Head(queue) = queue[1] BY QueueIsSeq
<1>2. By # 0 BY HeadFits DEF Carries
<1>3. By = queue[1].call BY <1>1 DEF By
<1> QED BY <1>1, <1>2, <1>3, HeadFits DEF SentOnce

LEMMA SentPublish == Ordered /\ SentOnce /\ Publish => SentOnce'
<1> SUFFICES ASSUME Ordered, SentOnce, Publish PROVE SentOnce'
    OBVIOUS
<1>0. Typed /\ LeaderTyped /\ RolesTyped BY DEF Ordered, Typed
<1>1. queue # <<>>
    BY DEF Publish, AgentCreated, Confirmed, Killed, TaskAssigned, WorkerMessaged,
           ForkCleaned, FailurePublished, Publishes
<1>2. /\ Of \in Workers /\ By \in Nat
      /\ By = 0 => Head(queue).type \in {"agent_finished", "fork_cleaned"}
      /\ By # 0 => By \in DOMAIN calls
    BY <1>0, <1>1, HeadFits
<1>3. CASE AgentCreated \/ Killed \/ FailurePublished
  <2>1. PICK type \in {"fork_created", "worker_killed", "fork_cleaned"}, i \in {0, By} :
            queue' = Append(Tail(queue), Event(type, Of, i))
      BY <1>3 DEF AgentCreated, Killed, FailurePublished
  <2>2. PICK e : e = Event(type, Of, i) OBVIOUS
  <2>3. e \in Events /\ ~Carries(e)
      BY <1>2, <2>2, EventTyped DEF Event, EventTypes, Carries
  <2>4. Shift(1, {e}) BY <1>0, <1>1, <2>1, <2>2, <2>3, ShiftReplaced
  <2>5. UNCHANGED <<sent, dispatch>> BY <1>3 DEF AgentCreated, Killed, FailurePublished
  <2>6. CallsGoOn
    <3>1. CASE AgentCreated \/ Killed
      <4>1. By \in DOMAIN calls BY <1>2, <3>1 DEF AgentCreated, Killed, Publishes
      <4> QED BY <1>0, <3>1, <4>1, CallReturns DEF AgentCreated, Killed, Stages
    <3>2. CASE FailurePublished BY <1>0, <3>2, CallsStay DEF FailurePublished, leader
    <3> QED BY <1>3, <3>1, <3>2
  <2>7. \A f \in {e} : Carries(f) =>
            /\ \A k \in DOMAIN queue : Carries(queue[k]) => queue[k].call # f.call
            /\ \A v \in Workers : /\ f.call \notin sent[v]
                                  /\ \A k \in DOMAIN dispatch[v] : dispatch[v][k] # f.call
      BY <2>3
  <2> QED BY <1>0, <2>4, <2>5, <2>6, <2>7, SentKept
<1>4. CASE Confirmed \/ ForkCleaned
  <2>1. Shift(1, {}) BY <1>0, <1>1, <1>4, ShiftShrunk DEF Confirmed, ForkCleaned
  <2>2. UNCHANGED <<sent, dispatch>> BY <1>4 DEF Confirmed, ForkCleaned, roles, history
  <2>3. CallsGoOn
    <3>1. CASE Confirmed
      <4>1. By \in DOMAIN calls BY <1>2, <3>1 DEF Confirmed, Publishes
      <4> QED BY <1>0, <3>1, <4>1, CallReturns DEF Confirmed, Returns, Stages
    <3>2. CASE ForkCleaned BY <1>0, <3>2, CallsStay DEF ForkCleaned, leader
    <3> QED BY <1>4, <3>1, <3>2
  <2> QED BY <1>0, <2>1, <2>2, <2>3, SentKept
<1>5. ASSUME TaskAssigned \/ WorkerMessaged
      PROVE  /\ By \in DOMAIN calls /\ CallsGoOn /\ calls'[By].at = "returned"
             /\ \A k \in DOMAIN queue : k > 1 /\ Carries(queue[k]) => queue[k].call # By
             /\ \A w \in Workers : /\ By \notin sent[w]
                                   /\ \A i \in DOMAIN dispatch[w] : dispatch[w][i] # By
             /\ \A j, k \in DOMAIN queue' :
                    Carries(queue'[j]) /\ Carries(queue'[k]) /\ queue'[j].call = queue'[k].call => j = k
             /\ \A k \in DOMAIN queue' :
                    k + 1 > 1 /\ k + 1 \in DOMAIN queue /\ queue'[k] = queue[k + 1]
  <2>1. Carries(Head(queue)) BY <1>5 DEF TaskAssigned, WorkerMessaged, Publishes, Carries
  <2>2. Shift(1, {}) BY <1>0, <1>1, <1>5, ShiftShrunk DEF TaskAssigned, WorkerMessaged
  <2>3. By \in DOMAIN calls BY <1>0, <1>1, <2>1, HeadCarries
  <2>4. CallsGoOn /\ calls'[By].at = "returned"
    <3>1. calls' = [calls EXCEPT ![By].at = "returned"]
        BY <1>5 DEF TaskAssigned, WorkerMessaged, Returns
    <3>2. CallsGoOn BY <1>0, <2>3, <3>1, CallReturns DEF Stages
    <3>3. calls \in Seq(Calls) BY <1>0 DEF LeaderTyped
    <3>4. "returned" \in Stages \ {"waiting"} BY DEF Stages
    <3>5. \A j \in DOMAIN calls : calls'[j].at = IF j = By THEN "returned" ELSE calls[j].at
        BY <2>3, <3>1, <3>3, <3>4, CallMoves
    <3> QED BY <2>3, <3>2, <3>5
  <2>5. /\ \A j, k \in DOMAIN queue' :
            Carries(queue'[j]) /\ Carries(queue'[k]) /\ queue'[j].call = queue'[k].call => j = k
        /\ \A k \in DOMAIN queue' :
            \/ k + 1 > 1 /\ k + 1 \in DOMAIN queue /\ queue'[k] = queue[k + 1]
            \/ queue'[k] \in {}
      BY <1>0, <2>2, CarriedMove
  <2> QED BY <1>0, <1>1, <2>1, <2>3, <2>4, <2>5, HeadCarries
<1>6. CASE TaskAssigned
  <2>1. UNCHANGED sent /\ dispatch' = [dispatch EXCEPT ![Of] = Append(@, By)]
      BY <1>6 DEF TaskAssigned
  <2>2. ASSUME NEW w \in Workers, NEW i \in DOMAIN dispatch'[w]
        PROVE  \/ i \in DOMAIN dispatch[w] /\ dispatch'[w][i] = dispatch[w][i]
               \/ w = Of /\ i = Len(dispatch[w]) + 1 /\ dispatch'[w][i] = By
    <3>1. dispatch[w] \in Seq(Nat) /\ dispatch'[w] = IF w = Of THEN Append(dispatch[w], By) ELSE dispatch[w]
        BY <1>0, <2>1 DEF RolesTyped
    <3> QED BY <1>2, <2>2, <3>1
  <2>3. \A v, w \in Workers : \A i \in DOMAIN dispatch'[v] : \A j \in DOMAIN dispatch'[w] :
            dispatch'[v][i] = dispatch'[w][j] => v = w /\ i = j
    <3> SUFFICES ASSUME NEW v \in Workers, NEW w \in Workers, NEW i \in DOMAIN dispatch'[v],
                        NEW j \in DOMAIN dispatch'[w], dispatch'[v][i] = dispatch'[w][j]
                 PROVE  v = w /\ i = j
        OBVIOUS
    <3>1. \/ i \in DOMAIN dispatch[v] /\ dispatch'[v][i] = dispatch[v][i]
          \/ v = Of /\ i = Len(dispatch[v]) + 1 /\ dispatch'[v][i] = By
        BY <2>2
    <3>2. \/ j \in DOMAIN dispatch[w] /\ dispatch'[w][j] = dispatch[w][j]
          \/ w = Of /\ j = Len(dispatch[w]) + 1 /\ dispatch'[w][j] = By
        BY <2>2
    <3> QED BY <1>5, <1>6, <3>1, <3>2 DEF SentOnce
  <2>4. \A k \in DOMAIN queue' : Carries(queue'[k]) => \A w \in Workers :
            /\ queue'[k].call \notin sent'[w]
            /\ \A i \in DOMAIN dispatch'[w] : dispatch'[w][i] # queue'[k].call
      BY <1>5, <1>6, <2>1, <2>2 DEF SentOnce
  <2>5. \A v, w \in Workers : \A i \in DOMAIN dispatch'[v] : dispatch'[v][i] \notin sent'[w]
      BY <1>5, <1>6, <2>1, <2>2 DEF SentOnce
  <2>6. \A w \in Workers : \A m \in sent'[w] : m \in DOMAIN calls' /\ calls'[m].at # "waiting"
      BY <1>5, <1>6, <2>1 DEF SentOnce, CallsGoOn
  <2> QED BY <1>5, <1>6, <2>1, <2>3, <2>4, <2>5, <2>6 DEF SentOnce
<1>7. CASE WorkerMessaged
  <2>1. UNCHANGED dispatch /\ sent' = [sent EXCEPT ![Of] = @ \cup {By}]
      BY <1>7 DEF WorkerMessaged
  <2>2. \A w \in Workers : sent'[w] = IF w = Of THEN sent[w] \cup {By} ELSE sent[w]
      BY <2>1 DEF SentOnce
  <2>3. sent' \in [Workers -> SUBSET Nat] BY <1>2, <2>1 DEF SentOnce
  <2>4. \A w \in Workers : \A m \in sent'[w] : m \in DOMAIN calls' /\ calls'[m].at # "waiting"
    <3>1. By \in DOMAIN calls' /\ calls'[By].at # "waiting" BY <1>5, <1>7 DEF CallsGoOn
    <3>2. \A w \in Workers : \A m \in sent[w] : m \in DOMAIN calls' /\ calls'[m].at # "waiting"
        BY <1>5, <1>7 DEF SentOnce, CallsGoOn
    <3> QED BY <2>2, <3>1, <3>2
  <2>5. \A k \in DOMAIN queue' : Carries(queue'[k]) => \A w \in Workers :
            /\ queue'[k].call \notin sent'[w]
            /\ \A i \in DOMAIN dispatch'[w] : dispatch'[w][i] # queue'[k].call
      BY <1>5, <1>7, <2>1, <2>2 DEF SentOnce
  <2>6. \A v, w \in Workers : \A i \in DOMAIN dispatch'[v] : dispatch'[v][i] \notin sent'[w]
      BY <1>5, <1>7, <2>1, <2>2 DEF SentOnce
  <2> QED BY <1>5, <1>7, <2>1, <2>3, <2>4, <2>5, <2>6 DEF SentOnce
<1> QED BY <1>3, <1>4, <1>6, <1>7 DEF Publish

LEMMA SentDispatch ==
  ASSUME Ordered, SentOnce, NEW w \in Workers, Dispatch(w)
  PROVE  SentOnce'
<1>0. Typed /\ RolesTyped BY DEF Ordered, Typed
<1>1. /\ dispatch[w] \in Seq(Nat) /\ dispatch[w] # <<>> /\ 1 \in DOMAIN dispatch[w]
      /\ Head(dispatch[w]) = dispatch[w][1] /\ dispatch[w][1] \in Nat
    BY <1>0 DEF RolesTyped, Dispatch
<1>2. PICK e : e = Event("worker_messaged", w, Head(dispatch[w])) OBVIOUS
<1>3. e \in Events /\ e.call = dispatch[w][1] BY <1>1, <1>2, EventTyped DEF Event, EventTypes
<1>4. Shift(0, {e}) BY <1>0, <1>2, <1>3, ShiftGrown DEF Dispatch
<1>5. UNCHANGED <<sent, calls>> BY DEF Dispatch, leader, history
<1>6. ASSUME NEW v \in Workers, NEW i \in DOMAIN dispatch'[v]
      PROVE  LET j == IF v = w THEN i + 1 ELSE i
             IN  /\ j \in DOMAIN dispatch[v] /\ dispatch'[v][i] = dispatch[v][j]
                 /\ (v = w => j \in Nat /\ j > 1 /\ i = j - 1)
  <2>1. dispatch'[v] = IF v = w THEN Tail(dispatch[v]) ELSE dispatch[v]
      BY <1>0 DEF RolesTyped, Dispatch
  <2> QED BY <1>1, <1>6, <2>1
<1>7. \A v \in Workers : \A i \in DOMAIN dispatch'[v] : dispatch'[v][i] # e.call
  <2> SUFFICES ASSUME NEW v \in Workers, NEW i \in DOMAIN dispatch'[v] PROVE dispatch'[v][i] # e.call
      OBVIOUS
  <2>1. PICK j \in DOMAIN dispatch[v] : dispatch'[v][i] = dispatch[v][j] /\ (v = w => j # 1)
      BY <1>6
  <2> QED BY <1>1, <1>3, <2>1 DEF SentOnce
<1>8. \A u, v \in Workers : \A i \in DOMAIN dispatch'[u] : \A j \in DOMAIN dispatch'[v] :
        dispatch'[u][i] = dispatch'[v][j] => u = v /\ i = j
  <2> SUFFICES ASSUME NEW u \in Workers, NEW v \in Workers, NEW i \in DOMAIN dispatch'[u],
                      NEW j \in DOMAIN dispatch'[v], dispatch'[u][i] = dispatch'[v][j]
               PROVE  u = v /\ i = j
      OBVIOUS
  <2>1. PICK x \in DOMAIN dispatch[u] :
            /\ dispatch'[u][i] = dispatch[u][x] /\ x = IF u = w THEN i + 1 ELSE i
            /\ u = w => i = x - 1
      BY <1>6
  <2>2. PICK y \in DOMAIN dispatch[v] :
            /\ dispatch'[v][j] = dispatch[v][y] /\ y = IF v = w THEN j + 1 ELSE j
            /\ v = w => j = y - 1
      BY <1>6
  <2>3. u = v /\ x = y
    <3>1. dispatch[u][x] = dispatch[v][y] BY <2>1, <2>2
    <3> QED BY <3>1 DEF SentOnce
  <2> QED BY <2>1, <2>2, <2>3
<1>9. \A f \in {e} : Carries(f) => \A k \in DOMAIN queue :
        k > 0 /\ Carries(queue[k]) => queue[k].call # f.call
    BY <1>1, <1>3 DEF SentOnce
<1>10. /\ \A j, k \in DOMAIN queue' :
            Carries(queue'[j]) /\ Carries(queue'[k]) /\ queue'[j].call = queue'[k].call => j = k
       /\ \A k \in DOMAIN queue' :
            \/ k + 0 > 0 /\ k + 0 \in DOMAIN queue /\ queue'[k] = queue[k + 0]
            \/ queue'[k] \in {e}
    BY <1>0, <1>4, <1>9, CarriedMove
<1>11. \A v \in Workers : e.call \notin sent[v] BY <1>1, <1>3 DEF SentOnce
<1>12. \A k \in DOMAIN queue' : Carries(queue'[k]) => \A v \in Workers :
        /\ queue'[k].call \notin sent'[v]
        /\ \A i \in DOMAIN dispatch'[v] : dispatch'[v][i] # queue'[k].call
  <2> SUFFICES ASSUME NEW k \in DOMAIN queue', Carries(queue'[k]), NEW v \in Workers
               PROVE  /\ queue'[k].call \notin sent'[v]
                      /\ \A i \in DOMAIN dispatch'[v] : dispatch'[v][i] # queue'[k].call
      OBVIOUS
  <2>1. CASE queue'[k] = e BY <1>5, <1>7, <1>11, <2>1
  <2>2. CASE k + 0 \in DOMAIN queue /\ queue'[k] = queue[k + 0]
    <3>1. \A i \in DOMAIN dispatch'[v] : \E j \in DOMAIN dispatch[v] : dispatch'[v][i] = dispatch[v][j]
        BY <1>6
    <3> QED BY <1>5, <2>2, <3>1 DEF SentOnce
  <2> QED BY <1>10, <2>1, <2>2
<1>13. \A u, v \in Workers : \A i \in DOMAIN dispatch'[u] : dispatch'[u][i] \notin sent'[v]
    BY <1>5, <1>6 DEF SentOnce
<1> QED BY <1>5, <1>8, <1>10, <1>12, <1>13 DEF SentOnce

LEMMA SentWorker ==
  ASSUME Ordered, SentOnce, NEW w \in Workers,
         \/ HandleFork(w) \/ SpawnFails(w) \/ OnWorkerMessaged(w) \/ DrainMessages(w)
         \/ Consume(w) \/ Ends(w)
  PROVE  SentOnce'
<1>0. Typed BY DEF Ordered
<1>1. UNCHANGED <<sent, dispatch, calls>>
    BY DEF HandleFork, CreationBegins, StartSession, KillBegins, KillSession, SpawnFails,
           OnWorkerMessaged, DrainMessages, Consume, Ends, LoopEnds, leader, roles, history
<1>2. CallsGoOn BY <1>0, <1>1, CallsStay
<1>3. \E es : Shift(0, es) /\ \A e \in es : ~Carries(e)
  <2>1. CASE UNCHANGED queue BY <1>0, <2>1, ShiftKept
  <2>2. CASE SpawnFails(w)
    <3>1. PICK e : e = Event("agent_finished", w, 0) OBVIOUS
    <3>2. e \in Events /\ ~Carries(e) BY <3>1, EventTyped DEF Event, EventTypes, Carries
    <3>3. Shift(0, {e}) BY <1>0, <2>2, <3>1, <3>2, ShiftGrown DEF SpawnFails
    <3> QED BY <3>2, <3>3
  <2>3. ASSUME NEW reason, Finalize(w, reason)
        PROVE  \E es : Shift(0, es) /\ \A e \in es : ~Carries(e)
    <3>1. PICK es \in {{}, {Event("fork_cleaned", w, 0)}} : Shift(0, es)
        BY <1>0, <2>3, FinalizeShifts
    <3>2. \A e \in es : ~Carries(e) BY <3>1 DEF Event, Carries
    <3> QED BY <3>1, <3>2
  <2> QED BY <2>1, <2>2, <2>3
          DEF HandleFork, CreationBegins, StartSession, KillBegins, KillSession,
              OnWorkerMessaged, DrainMessages, Consume, Ends, LoopEnds
<1>4. PICK es : Shift(0, es) /\ \A e \in es : ~Carries(e) BY <1>3
<1> QED BY <1>0, <1>1, <1>2, <1>4, SentKept

LEMMA SentStep == Ordered /\ SentOnce /\ [Next]_vars => SentOnce'
<1> SUFFICES ASSUME Ordered, SentOnce, [Next]_vars PROVE SentOnce'
    OBVIOUS
<1>0. Typed BY DEF Ordered
<1>1. CASE AppendFails
  <2>1. queue # <<>> /\ Shift(1, {}) BY <1>0, <1>1, ShiftShrunk DEF AppendFails
  <2>2. CallsGoOn
      BY <1>0, <1>1, <2>1, HeadFits, CallReturns, CallsStay DEF AppendFails, Returns, Stages
  <2>3. UNCHANGED <<sent, dispatch>> BY <1>1 DEF AppendFails, history
  <2> QED BY <1>0, <2>1, <2>2, <2>3, SentKept
<1>2. CASE UNCHANGED vars
  <2>1. UNCHANGED <<sent, dispatch, queue, calls>> BY <1>2 DEF vars, leader, roles, history
  <2>2. Shift(0, {}) BY <1>0, <2>1, ShiftKept
  <2>3. CallsGoOn BY <1>0, <2>1, CallsStay
  <2> QED BY <1>0, <2>1, <2>2, <2>3, SentKept
<1> QED BY <1>1, <1>2, SentLeader, SentAcquire, SentPublish, SentWorker, SentDispatch DEF Next

LEMMA SentInit == Init => SentOnce
BY DEF Init, SentOnce

\* What has ended stays so: a session starts only once, before anything else
\* has happened to its worker.
LEMMA OverStays ==
  ASSUME Ordered, Lives, [Next]_vars, NEW w \in Workers, Over(w)
  PROVE  Over(w)'
<1>0. /\ Typed /\ RolesTyped /\ EffectsTyped /\ HistoryTyped /\ Life(w)
      /\ session[w] \in Sessions /\ story[w] \in Seq(Told3)
    BY DEF Ordered, Typed, Lives, EffectsTyped, HistoryTyped
<1>1. "failed" \in Elements(story[w]) => "failed" \in Elements(story'[w])
  <2>1. CASE UNCHANGED story BY <2>1
  <2>2. ASSUME NEW type \in Told3, Told(type), Of \in Workers
        PROVE  "failed" \in Elements(story[w]) => "failed" \in Elements(story'[w])
    <3>1. story'[w] = story[w] \/ story'[w] = Append(story[w], type)
        BY <1>0, <2>2 DEF Told, HistoryTyped
    <3> QED BY <1>0, <3>1, StoryGrows
  <2>3. CASE AgentCreated \/ Killed \/ ForkCleaned \/ FailurePublished
    <3>1. Of \in Workers
        BY <1>0, <2>3, HeadFits DEF AgentCreated, Killed, ForkCleaned, FailurePublished, Publishes
    <3>2. {"created", "killed", "cleaned", "failed"} \subseteq Told3 BY DEF Told3
    <3> QED BY <2>2, <2>3, <3>1, <3>2 DEF AgentCreated, Killed, ForkCleaned, FailurePublished
  <2>4. ~(AgentCreated \/ Killed \/ ForkCleaned \/ FailurePublished) => UNCHANGED story
      BY DEF Next, LeaderCalls, MessageWorker, SpawnWorker, KillWorker, ReassignWorker, Acquire,
             Publish, Confirmed, TaskAssigned, WorkerMessaged, AppendFails, HandleFork,
             CreationBegins, StartSession, KillBegins, KillSession, SpawnFails, OnWorkerMessaged,
             DrainMessages, Dispatch, Consume, Ends, LoopEnds, vars, history
  <2> QED BY <2>1, <2>3, <2>4
<1>2. CASE UNCHANGED session BY <1>1, <1>2 DEF Over
<1>3. ASSUME NEW v \in Workers, StartSession(v) PROVE Over(w)'
  <2>1. session' = [session EXCEPT ![v].status = "running"] BY <1>3 DEF StartSession
  <2>2. CASE w # v
    <3>1. session'[w] = session[w] BY <1>0, <2>1, <2>2 DEF EffectsTyped
    <3> QED BY <1>1, <3>1 DEF Over
  <2>3. CASE w = v
    <3>1. forkChain[w] \in Seq({"create", "kill"}) BY <1>0 DEF RolesTyped
    <3>2. 1 \in DOMAIN forkChain[w] /\ forkChain[w][1] = "create"
        BY <1>3, <2>3, <3>1 DEF StartSession, Heads
    <3>3. New(w) BY <1>0, <3>2 DEF Life
    <3>4. "failed" \in Elements(story[w]) BY <3>3 DEF New, Over, Outcomes
    <3> QED BY <1>1, <3>4 DEF Over
  <2> QED BY <2>2, <2>3
<1>4. ASSUME NEW v \in Workers, KillSession(v) \/ OnWorkerMessaged(v) \/ DrainMessages(v)
                                \/ Consume(v) \/ Ends(v)
      PROVE  Over(w)'
  <2>1. \/ UNCHANGED session
        \/ session' = [session EXCEPT ![v].killed = TRUE]
        \/ \E s : session' = [session EXCEPT ![v].steer = s]
        \/ \E outcome \in Outcomes : session' = [session EXCEPT ![v].status = outcome]
      BY <1>4 DEF KillSession, OnWorkerMessaged, DrainMessages, DeliverMessage, Consume, Ends, LoopEnds
  <2>2. /\ session'[w].status \in Outcomes \/ session'[w].status = session[w].status
        /\ session[w].killed => session'[w].killed
    <3>1. session \in [Workers -> Sessions] BY <1>0 DEF EffectsTyped
    <3>2. CASE UNCHANGED session BY <3>2
    <3>3. CASE session' = [session EXCEPT ![v].killed = TRUE] BY <3>1, <3>3 DEF Sessions
    <3>4. ASSUME NEW s, session' = [session EXCEPT ![v].steer = s]
          PROVE  session'[w].status = session[w].status /\ session'[w].killed = session[w].killed
        BY <3>1, <3>4 DEF Sessions
    <3>5. ASSUME NEW outcome \in Outcomes, session' = [session EXCEPT ![v].status = outcome]
          PROVE  /\ session'[w].status \in Outcomes \/ session'[w].status = session[w].status
                 /\ session[w].killed = session'[w].killed
        BY <3>1, <3>5 DEF Sessions
    <3> QED BY <2>1, <3>2, <3>3, <3>4, <3>5
  <2> QED BY <1>1, <2>2 DEF Over
<1>5. (\A v \in Workers : ~(\/ StartSession(v) \/ KillSession(v) \/ OnWorkerMessaged(v)
                            \/ DrainMessages(v) \/ Consume(v) \/ Ends(v))) => UNCHANGED session
    BY DEF Next, LeaderCalls, MessageWorker, SpawnWorker, KillWorker, ReassignWorker, Acquire,
           Publish, AgentCreated, Killed, ForkCleaned, FailurePublished,
           Confirmed, TaskAssigned, WorkerMessaged, AppendFails, HandleFork,
           CreationBegins, KillBegins, SpawnFails, Dispatch, vars, effects
<1> QED BY <1>2, <1>3, <1>4, <1>5

\* A step after which the worker has the copies it had, or has ended and lost some.
LEMMA KeepsMoves ==
  ASSUME NEW w \in Workers, Keeps(w), UNCHANGED sent[w], Over(w) => Over(w)',
         \A m \in Nat : /\ Copies(w, m) \in Nat
                        /\ \/ Copies(w, m)' = Copies(w, m)
                           \/ /\ Over(w)' /\ Copies(w, m)' \in Nat
                              /\ Copies(w, m)' <= Copies(w, m)
  PROVE  Keeps(w)'
<1>1. ASSUME NEW m \in Nat
      PROVE  IF m \in sent'[w] THEN Copies(w, m)' = 1 \/ (Over(w)' /\ Copies(w, m)' = 0)
             ELSE Copies(w, m)' = 0
  <2>1. IF m \in sent[w] THEN Copies(w, m) = 1 \/ (Over(w) /\ Copies(w, m) = 0)
        ELSE Copies(w, m) = 0
      BY DEF Keeps
  <2>2. /\ Copies(w, m) \in Nat
        /\ \/ Copies(w, m)' = Copies(w, m)
           \/ Over(w)' /\ Copies(w, m)' \in Nat /\ Copies(w, m)' <= Copies(w, m)
      OBVIOUS
  <2> QED BY <2>1, <2>2
<1> QED BY <1>1 DEF Keeps

LEMMA CopiesAreNat ==
  ASSUME Typed, ConsumedTyped, NEW w \in Workers, NEW m \in Nat
  PROVE  /\ Count(msgChain[w], m) \in Nat /\ Count(mailbox[w], m) \in Nat
         /\ Count(session[w].steer, m) \in Nat /\ Count(consumed[w], m) \in Nat
         /\ Copies(w, m) \in Nat
<1>1. /\ msgChain[w] \in Seq(Nat) /\ mailbox[w] \in Seq(Nat)
      /\ session[w].steer \in Seq(Nat) /\ consumed[w] \in Seq(Nat)
    BY DEF Typed, RolesTyped, EffectsTyped, Sessions, ConsumedTyped
<1>2. /\ Count(msgChain[w], m) \in Nat /\ Count(mailbox[w], m) \in Nat
      /\ Count(session[w].steer, m) \in Nat /\ Count(consumed[w], m) \in Nat
    BY <1>1, CountIsNat
<1> QED BY <1>2 DEF Copies

LEMMA KeepsKept ==
  ASSUME Typed, ConsumedTyped, NEW w \in Workers, Keeps(w), Over(w) => Over(w)',
         UNCHANGED <<sent[w], msgChain[w], mailbox[w], session[w].steer, consumed[w]>>
  PROVE  Keeps(w)'
<1>1. \A m \in Nat : Copies(w, m) \in Nat BY CopiesAreNat
<1>2. \A m \in Nat : Copies(w, m)' = Copies(w, m) BY DEF Copies, Count
<1> QED BY <1>1, <1>2, KeepsMoves

\* removeWorker() drops the mailbox of a worker that has ended.
LEMMA KeepsRemoved ==
  ASSUME Typed, ConsumedTyped, NEW w \in Workers, Keeps(w), Over(w)', mailbox'[w] = <<>>,
         UNCHANGED <<sent[w], msgChain[w], session[w].steer, consumed[w]>>
  PROVE  Keeps(w)'
<1>1. ASSUME NEW m \in Nat
      PROVE  Copies(w, m) \in Nat /\ Copies(w, m)' \in Nat /\ Copies(w, m)' <= Copies(w, m)
  <2>1. /\ Count(msgChain[w], m) \in Nat /\ Count(mailbox[w], m) \in Nat
        /\ Count(session[w].steer, m) \in Nat /\ Count(consumed[w], m) \in Nat
        /\ Copies(w, m) \in Nat
      BY CopiesAreNat
  <2>2. Count(mailbox'[w], m) = 0 BY CountOfNone
  <2>3. Copies(w, m)' = Count(msgChain[w], m) + Count(mailbox'[w], m)
                        + Count(session[w].steer, m) + Count(consumed[w], m)
      BY DEF Copies, Count
  <2> QED BY <2>1, <2>2, <2>3 DEF Copies
<1> QED BY <1>1, KeepsMoves

\* A message moves from the head of one place to the end of the next.
LEMMA CountMoves ==
  ASSUME NEW s \in Seq(Nat), s # <<>>, NEW q \in Seq(Nat), NEW m \in Nat
  PROVE  /\ Count(Tail(s), m) + Count(Append(q, Head(s)), m) = Count(s, m) + Count(q, m)
         /\ Count(Tail(s), m) \in Nat /\ Count(Append(q, Head(s)), m) \in Nat
<1>1. Head(s) \in Nat /\ Tail(s) \in Seq(Nat) OBVIOUS
<1>2. Count(Tail(s), m) \in Nat /\ Count(s, m) \in Nat /\ Count(q, m) \in Nat BY <1>1, CountIsNat
<1>3. Count(s, m) = IF Head(s) = m THEN Count(Tail(s), m) + 1 ELSE Count(Tail(s), m)
    BY CountTaken
<1>4. Count(Append(q, Head(s)), m) = IF Head(s) = m THEN Count(q, m) + 1 ELSE Count(q, m)
    BY <1>1, CountAdded
<1> QED BY <1>2, <1>3, <1>4

LEMMA KeepsPublish ==
  ASSUME Ordered, Lives, SentOnce, MailKept, Publish,
         NEW w \in Workers, Over(w) => Over(w)'
  PROVE  Keeps(w)'
<1>0. /\ Typed /\ LeaderTyped /\ RolesTyped /\ EffectsTyped /\ HistoryTyped /\ Keeps(w) /\ Life(w)
      /\ ConsumedTyped
    BY DEF Ordered, Typed, MailKept, Lives
<1>1. queue # <<>>
    BY DEF Publish, AgentCreated, Confirmed, Killed, TaskAssigned, WorkerMessaged,
           ForkCleaned, FailurePublished, Publishes
<1>2. Of \in Workers /\ By \in Nat BY <1>0, <1>1, HeadFits
<1>3. CASE UNCHANGED <<sent[w], msgChain[w], mailbox[w], session[w].steer, consumed[w]>>
    BY <1>0, <1>3, KeepsKept
<1>4. CASE AgentCreated \/ Confirmed \/ Killed \/ TaskAssigned
    BY <1>3, <1>4 DEF AgentCreated, Confirmed, Killed, TaskAssigned, roles, effects, history
<1>5. CASE WorkerMessaged
  <2>1. /\ msgChain' = [msgChain EXCEPT ![Of] = Append(@, By)]
        /\ sent' = [sent EXCEPT ![Of] = @ \cup {By}]
        /\ UNCHANGED <<mailbox, session, consumed>>
      BY <1>5 DEF WorkerMessaged, effects
  <2>2. CASE w # Of
    <3>1. UNCHANGED <<sent[w], msgChain[w]>> BY <1>0, <2>1, <2>2 DEF RolesTyped, SentOnce
    <3> QED BY <1>3, <2>1, <3>1
  <2>3. CASE w = Of
    <3>1. /\ msgChain[w] \in Seq(Nat) /\ msgChain'[w] = Append(msgChain[w], By)
          /\ sent'[w] = sent[w] \cup {By}
        BY <1>0, <2>1, <2>3 DEF RolesTyped, SentOnce
    <3>2. By \notin sent[w]
        BY <1>0, <1>1, <1>5, HeadCarries DEF WorkerMessaged, Publishes, Carries
    <3>3. ASSUME NEW m \in Nat
          PROVE  IF m \in sent'[w] THEN Copies(w, m)' = 1 \/ (Over(w)' /\ Copies(w, m)' = 0)
                 ELSE Copies(w, m)' = 0
      <4>1. /\ Count(msgChain[w], m) \in Nat /\ Count(mailbox[w], m) \in Nat
            /\ Count(session[w].steer, m) \in Nat /\ Count(consumed[w], m) \in Nat
          BY <1>0, CopiesAreNat
      <4>2. Count(msgChain'[w], m) = IF By = m THEN Count(msgChain[w], m) + 1 ELSE Count(msgChain[w], m)
          BY <1>2, <3>1, CountAdded
      <4>3. Copies(w, m)' = Count(msgChain'[w], m) + Count(mailbox[w], m)
                            + Count(session[w].steer, m) + Count(consumed[w], m)
          BY <2>1 DEF Copies, Count
      <4>4. Copies(w, m)' = IF By = m THEN Copies(w, m) + 1 ELSE Copies(w, m)
          BY <4>1, <4>2, <4>3 DEF Copies
      <4>5. IF m \in sent[w] THEN Copies(w, m) = 1 \/ (Over(w) /\ Copies(w, m) = 0)
            ELSE Copies(w, m) = 0
          BY <1>0 DEF Keeps
      <4> QED BY <3>1, <3>2, <4>4, <4>5
    <3> QED BY <3>3 DEF Keeps
  <2> QED BY <2>2, <2>3
<1>6. CASE ForkCleaned
  <2>1. UNCHANGED <<sent, msgChain, session, consumed>> BY <1>6 DEF ForkCleaned, roles
  <2>2. CASE w = Of /\ Of \in finalized
    <3>1. mailbox'[w] = <<>> BY <1>0, <1>6, <2>2 DEF ForkCleaned, RemoveWorker, EffectsTyped
    <3>2. session[w] \in Sessions BY <1>0 DEF EffectsTyped
    <3>3. Over(w) BY <1>0, <2>2, <3>2 DEF Life, Runs, Over, Sessions
    <3> QED BY <1>0, <2>1, <3>1, <3>3, KeepsRemoved
  <2>3. CASE ~(w = Of /\ Of \in finalized)
    <3>1. mailbox'[w] = mailbox[w] BY <1>0, <1>6, <2>3 DEF ForkCleaned, RemoveWorker, EffectsTyped
    <3> QED BY <1>3, <2>1, <3>1
  <2> QED BY <2>2, <2>3
<1>7. CASE FailurePublished
  <2>1. UNCHANGED <<sent, msgChain, session, consumed>> BY <1>7 DEF FailurePublished
  <2>2. mailbox' = [mailbox EXCEPT ![Of] = <<>>] BY <1>7 DEF FailurePublished, RemoveWorker
  <2>3. CASE w = Of
    <3>1. mailbox'[w] = <<>> BY <1>0, <2>2, <2>3 DEF EffectsTyped
    <3>2. story[w] \in Seq(Told3) /\ story'[w] = Append(story[w], "failed")
        BY <1>0, <1>7, <2>3 DEF FailurePublished, Told, HistoryTyped
    <3>3. "failed" \in Elements(story'[w])
      <4>1. "failed" \in Told3 BY DEF Told3
      <4> QED BY <3>2, <4>1, StoryGrows
    <3>4. Over(w)' BY <3>3 DEF Over
    <3> QED BY <1>0, <2>1, <3>1, <3>4, KeepsRemoved
  <2>4. CASE w # Of
    <3>1. mailbox'[w] = mailbox[w] BY <1>0, <2>2, <2>4 DEF EffectsTyped
    <3> QED BY <1>3, <2>1, <3>1
  <2> QED BY <2>3, <2>4
<1> QED BY <1>4, <1>5, <1>6, <1>7 DEF Publish

LEMMA KeepsWorker ==
  ASSUME Ordered, MailKept, NEW v \in Workers,
         OnWorkerMessaged(v) \/ DrainMessages(v) \/ Consume(v),
         NEW w \in Workers, Over(w) => Over(w)'
  PROVE  Keeps(w)'
<1>0. Typed /\ RolesTyped /\ EffectsTyped /\ ConsumedTyped /\ Keeps(w)
    BY DEF Ordered, Typed, MailKept
<1>1. UNCHANGED sent
    BY DEF OnWorkerMessaged, DrainMessages, Consume, history
<1>2. CASE w # v
  <2>1. UNCHANGED <<msgChain[w], mailbox[w], session[w].steer>>
      BY <1>0, <1>2 DEF OnWorkerMessaged, DrainMessages, Consume, DeliverMessage, RolesTyped,
                        EffectsTyped, roles
  <2>2. UNCHANGED consumed[w]
      BY <1>0, <1>2 DEF OnWorkerMessaged, DrainMessages, Consume, ConsumedTyped, history
  <2> QED BY <1>0, <1>1, <2>1, <2>2, KeepsKept
<1>3. CASE w = v
  <2>1. /\ msgChain[w] \in Seq(Nat) /\ mailbox[w] \in Seq(Nat)
        /\ session[w].steer \in Seq(Nat) /\ consumed[w] \in Seq(Nat) /\ session[w] \in Sessions
      BY <1>0 DEF RolesTyped, EffectsTyped, Sessions, ConsumedTyped
  <2>2. \A m \in Nat :
            /\ Count(msgChain[w], m) \in Nat /\ Count(mailbox[w], m) \in Nat
            /\ Count(session[w].steer, m) \in Nat /\ Count(consumed[w], m) \in Nat
            /\ Copies(w, m) \in Nat
      BY <1>0, CopiesAreNat
  <2>3. ASSUME \A m \in Nat : Count(msgChain'[w], m) + Count(mailbox'[w], m)
                              + Count(session'[w].steer, m) + Count(consumed'[w], m)
                              = Copies(w, m)
        PROVE  Keeps(w)'
    <3>1. \A m \in Nat : Copies(w, m)' = Copies(w, m) BY <2>3 DEF Copies, Count
    <3> QED BY <1>0, <1>1, <2>2, <2>3, <3>1, KeepsMoves
  <2>4. CASE OnWorkerMessaged(v) /\ v \in workers
    <3>1. /\ msgChain[w] # <<>> /\ msgChain'[w] = Tail(msgChain[w]) /\ UNCHANGED <<mailbox, consumed>>
          /\ session'[w].steer = Append(session[w].steer, Head(msgChain[w]))
        BY <1>0, <1>3, <2>1, <2>4 DEF OnWorkerMessaged, DeliverMessage, RolesTyped, EffectsTyped,
                                      Sessions, history
    <3>2. \A m \in Nat :
            /\ Count(Tail(msgChain[w]), m) + Count(Append(session[w].steer, Head(msgChain[w])), m)
               = Count(msgChain[w], m) + Count(session[w].steer, m)
            /\ Count(Tail(msgChain[w]), m) \in Nat /\ Count(Append(session[w].steer, Head(msgChain[w])), m) \in Nat
        BY <2>1, <3>1, CountMoves
    <3>3. ASSUME NEW m \in Nat
          PROVE  Count(msgChain'[w], m) + Count(mailbox'[w], m)
                 + Count(session'[w].steer, m) + Count(consumed'[w], m) = Copies(w, m)
      <4>1. /\ Count(msgChain'[w], m) = Count(Tail(msgChain[w]), m)
            /\ Count(session'[w].steer, m) = Count(Append(session[w].steer, Head(msgChain[w])), m)
            /\ Count(mailbox'[w], m) = Count(mailbox[w], m) /\ Count(consumed'[w], m) = Count(consumed[w], m)
          BY <3>1
      <4>2. /\ Count(Tail(msgChain[w]), m) + Count(Append(session[w].steer, Head(msgChain[w])), m)
               = Count(msgChain[w], m) + Count(session[w].steer, m)
            /\ Count(Tail(msgChain[w]), m) \in Nat /\ Count(Append(session[w].steer, Head(msgChain[w])), m) \in Nat
          BY <3>2
      <4>3. /\ Count(msgChain[w], m) \in Nat /\ Count(mailbox[w], m) \in Nat
            /\ Count(session[w].steer, m) \in Nat /\ Count(consumed[w], m) \in Nat
          BY <2>2
      <4> QED BY <4>1, <4>2, <4>3 DEF Copies
    <3> QED BY <2>3, <3>3
  <2>5. CASE OnWorkerMessaged(v) /\ v \notin workers
    <3>1. /\ msgChain[w] # <<>> /\ msgChain'[w] = Tail(msgChain[w]) /\ UNCHANGED <<session, consumed>>
          /\ mailbox'[w] = Append(mailbox[w], Head(msgChain[w]))
        BY <1>0, <1>3, <2>1, <2>5 DEF OnWorkerMessaged, RolesTyped, EffectsTyped, history
    <3>2. \A m \in Nat :
            /\ Count(Tail(msgChain[w]), m) + Count(Append(mailbox[w], Head(msgChain[w])), m)
               = Count(msgChain[w], m) + Count(mailbox[w], m)
            /\ Count(Tail(msgChain[w]), m) \in Nat /\ Count(Append(mailbox[w], Head(msgChain[w])), m) \in Nat
        BY <2>1, <3>1, CountMoves
    <3>3. ASSUME NEW m \in Nat
          PROVE  Count(msgChain'[w], m) + Count(mailbox'[w], m)
                 + Count(session'[w].steer, m) + Count(consumed'[w], m) = Copies(w, m)
      <4>1. /\ Count(msgChain'[w], m) = Count(Tail(msgChain[w]), m)
            /\ Count(mailbox'[w], m) = Count(Append(mailbox[w], Head(msgChain[w])), m)
            /\ Count(session'[w].steer, m) = Count(session[w].steer, m) /\ Count(consumed'[w], m) = Count(consumed[w], m)
          BY <3>1
      <4>2. /\ Count(Tail(msgChain[w]), m) + Count(Append(mailbox[w], Head(msgChain[w])), m)
               = Count(msgChain[w], m) + Count(mailbox[w], m)
            /\ Count(Tail(msgChain[w]), m) \in Nat /\ Count(Append(mailbox[w], Head(msgChain[w])), m) \in Nat
          BY <3>2
      <4>3. /\ Count(msgChain[w], m) \in Nat /\ Count(mailbox[w], m) \in Nat
            /\ Count(session[w].steer, m) \in Nat /\ Count(consumed[w], m) \in Nat
          BY <2>2
      <4> QED BY <4>1, <4>2, <4>3 DEF Copies
    <3> QED BY <2>3, <3>3
  <2>6. CASE DrainMessages(v)
    <3>1. /\ mailbox[w] # <<>> /\ mailbox'[w] = Tail(mailbox[w]) /\ UNCHANGED <<msgChain, consumed>>
          /\ session'[w].steer = Append(session[w].steer, Head(mailbox[w]))
        BY <1>0, <1>3, <2>1, <2>6 DEF DrainMessages, DeliverMessage, RolesTyped, EffectsTyped,
                                      Sessions, history, roles
    <3>2. \A m \in Nat :
            /\ Count(Tail(mailbox[w]), m) + Count(Append(session[w].steer, Head(mailbox[w])), m)
               = Count(mailbox[w], m) + Count(session[w].steer, m)
            /\ Count(Tail(mailbox[w]), m) \in Nat /\ Count(Append(session[w].steer, Head(mailbox[w])), m) \in Nat
        BY <2>1, <3>1, CountMoves
    <3>3. ASSUME NEW m \in Nat
          PROVE  Count(msgChain'[w], m) + Count(mailbox'[w], m)
                 + Count(session'[w].steer, m) + Count(consumed'[w], m) = Copies(w, m)
      <4>1. /\ Count(mailbox'[w], m) = Count(Tail(mailbox[w]), m)
            /\ Count(session'[w].steer, m) = Count(Append(session[w].steer, Head(mailbox[w])), m)
            /\ Count(msgChain'[w], m) = Count(msgChain[w], m) /\ Count(consumed'[w], m) = Count(consumed[w], m)
          BY <3>1
      <4>2. /\ Count(Tail(mailbox[w]), m) + Count(Append(session[w].steer, Head(mailbox[w])), m)
               = Count(mailbox[w], m) + Count(session[w].steer, m)
            /\ Count(Tail(mailbox[w]), m) \in Nat /\ Count(Append(session[w].steer, Head(mailbox[w])), m) \in Nat
          BY <3>2
      <4>3. /\ Count(msgChain[w], m) \in Nat /\ Count(mailbox[w], m) \in Nat
            /\ Count(session[w].steer, m) \in Nat /\ Count(consumed[w], m) \in Nat
          BY <2>2
      <4> QED BY <4>1, <4>2, <4>3 DEF Copies
    <3> QED BY <2>3, <3>3
  <2>7. CASE Consume(v)
    <3>1. /\ session[w].steer # <<>> /\ UNCHANGED <<msgChain, mailbox>>
          /\ session'[w].steer = Tail(session[w].steer)
        BY <1>0, <1>3, <2>1, <2>7 DEF Consume, EffectsTyped, Sessions, roles
    <3>2. consumed'[w] = Append(consumed[w], Head(session[w].steer))
        BY <1>0, <1>3, <2>7 DEF Consume, ConsumedTyped
    <3>3. \A m \in Nat :
            /\ Count(Tail(session[w].steer), m) + Count(Append(consumed[w], Head(session[w].steer)), m)
               = Count(session[w].steer, m) + Count(consumed[w], m)
            /\ Count(Tail(session[w].steer), m) \in Nat /\ Count(Append(consumed[w], Head(session[w].steer)), m) \in Nat
        BY <2>1, <3>1, CountMoves
    <3>4. ASSUME NEW m \in Nat
          PROVE  Count(msgChain'[w], m) + Count(mailbox'[w], m)
                 + Count(session'[w].steer, m) + Count(consumed'[w], m) = Copies(w, m)
      <4>1. /\ Count(session'[w].steer, m) = Count(Tail(session[w].steer), m)
            /\ Count(consumed'[w], m) = Count(Append(consumed[w], Head(session[w].steer)), m)
            /\ Count(msgChain'[w], m) = Count(msgChain[w], m) /\ Count(mailbox'[w], m) = Count(mailbox[w], m)
          BY <3>1, <3>2
      <4>2. /\ Count(Tail(session[w].steer), m) + Count(Append(consumed[w], Head(session[w].steer)), m)
               = Count(session[w].steer, m) + Count(consumed[w], m)
            /\ Count(Tail(session[w].steer), m) \in Nat /\ Count(Append(consumed[w], Head(session[w].steer)), m) \in Nat
          BY <3>3
      <4>3. /\ Count(msgChain[w], m) \in Nat /\ Count(mailbox[w], m) \in Nat
            /\ Count(session[w].steer, m) \in Nat /\ Count(consumed[w], m) \in Nat
          BY <2>2
      <4> QED BY <4>1, <4>2, <4>3 DEF Copies
    <3> QED BY <2>3, <3>4
  <2> QED BY <2>4, <2>5, <2>6, <2>7
<1> QED BY <1>2, <1>3

LEMMA ConsumedStep == Typed /\ ConsumedTyped /\ [Next]_vars => ConsumedTyped'
<1> SUFFICES ASSUME Typed, ConsumedTyped, [Next]_vars PROVE ConsumedTyped'
    OBVIOUS
<1>1. CASE UNCHANGED consumed BY <1>1 DEF ConsumedTyped
<1>2. ASSUME NEW w \in Workers, Consume(w) PROVE ConsumedTyped'
  <2>1. session[w].steer \in Seq(Nat) BY DEF Typed, EffectsTyped, Sessions
  <2>2. Head(session[w].steer) \in Nat BY <1>2, <2>1 DEF Consume
  <2> QED BY <1>2, <2>2 DEF Consume, ConsumedTyped
<1>3. (\A w \in Workers : ~Consume(w)) => UNCHANGED consumed
    BY DEF Next, LeaderCalls, MessageWorker, SpawnWorker, KillWorker, ReassignWorker, Acquire,
           Publish, AgentCreated, Confirmed, Killed, TaskAssigned, WorkerMessaged, ForkCleaned,
           FailurePublished, AppendFails, HandleFork, CreationBegins, StartSession, KillBegins,
           KillSession, SpawnFails, OnWorkerMessaged, DrainMessages, Dispatch, Ends, LoopEnds,
           vars, history
<1> QED BY <1>1, <1>2, <1>3

LEMMA MailStep == Ordered /\ Lives /\ SentOnce /\ MailKept /\ [Next]_vars => MailKept'
<1> SUFFICES ASSUME Ordered, Lives, SentOnce, MailKept, [Next]_vars, NEW w \in Workers
             PROVE  Keeps(w)'
    BY ConsumedStep DEF Ordered, MailKept
<1>0. Typed /\ EffectsTyped /\ ConsumedTyped /\ Keeps(w) BY DEF Ordered, Typed, MailKept
<1>1. Over(w) => Over(w)' BY OverStays
<1>2. CASE UNCHANGED <<sent, msgChain, mailbox, consumed>> /\ UNCHANGED session[w].steer
    BY <1>0, <1>1, <1>2, KeepsKept
<1>3. CASE LeaderCalls \/ (\E i \in DOMAIN calls : Acquire(i)) \/ AppendFails \/ UNCHANGED vars
    BY <1>2, <1>3 DEF LeaderCalls, MessageWorker, SpawnWorker, KillWorker, ReassignWorker, Acquire,
                      AppendFails, vars, roles, effects, history
<1>4. CASE Publish BY <1>1, <1>4, KeepsPublish
<1>5. ASSUME NEW v \in Workers, OnWorkerMessaged(v) \/ DrainMessages(v) \/ Consume(v)
      PROVE  Keeps(w)'
    BY <1>1, <1>5, KeepsWorker
<1>6. ASSUME NEW v \in Workers, HandleFork(v) \/ SpawnFails(v) \/ Dispatch(v) \/ Ends(v)
      PROVE  Keeps(w)'
  <2>1. UNCHANGED <<sent, msgChain, mailbox, consumed>>
      BY <1>6 DEF HandleFork, CreationBegins, StartSession, KillBegins, KillSession, SpawnFails,
                  Dispatch, Ends, LoopEnds, roles, effects, history
  <2>2. UNCHANGED session[w].steer
    <3>1. \/ UNCHANGED session
          \/ \E s : session' = [session EXCEPT ![v].status = s]
          \/ \E b : session' = [session EXCEPT ![v].killed = b]
        BY <1>6 DEF HandleFork, CreationBegins, StartSession, KillBegins, KillSession, SpawnFails,
                    Dispatch, Ends, LoopEnds, effects
    <3>2. session \in [Workers -> Sessions] BY <1>0 DEF EffectsTyped
    <3>3. ASSUME NEW s, session' = [session EXCEPT ![v].status = s]
          PROVE  UNCHANGED session[w].steer
        BY <3>2, <3>3 DEF Sessions
    <3>4. ASSUME NEW b, session' = [session EXCEPT ![v].killed = b]
          PROVE  UNCHANGED session[w].steer
        BY <3>2, <3>4 DEF Sessions
    <3> QED BY <3>1, <3>3, <3>4
  <2> QED BY <1>2, <2>1, <2>2
<1> QED BY <1>3, <1>4, <1>5, <1>6 DEF Next

LEMMA MailInit == Init => MailKept
<1> SUFFICES ASSUME Init, NEW w \in Workers PROVE Keeps(w)
    BY DEF MailKept, ConsumedTyped, Init
<1>1. /\ msgChain[w] = <<>> /\ mailbox[w] = <<>> /\ session[w] = NoSession /\ consumed[w] = <<>>
      /\ sent[w] = {}
    BY DEF Init
<1>2. \A m \in Nat : Copies(w, m) = 0
    BY <1>1, CountOfNone DEF Copies, NoSession
<1> QED BY <1>1, <1>2 DEF Keeps

\* A message that was published to a worker is in exactly one place on its way
\* to the agent, however its delivery races the session's start, the drain loop
\* and the worker's end, and the agent never reads it twice; only a worker that
\* has ended may have lost it (MessageKept).
THEOREM MessagesReachTheAgent == Spec => []MessageKept
<1>1. Init => Ordered /\ Lives /\ SentOnce /\ MailKept BY OrderedInit, LivesInit, SentInit, MailInit
<1>2. Ordered /\ Lives /\ SentOnce /\ MailKept /\ [Next]_vars
        => (Ordered /\ Lives /\ SentOnce /\ MailKept)'
    BY OrderedStep, LivesStep, SentStep, MailStep
<1>3. SentOnce /\ MailKept => MessageKept
    BY DEF SentOnce, MailKept, Keeps, MessageKept
<1> QED BY <1>1, <1>2, <1>3, PTL DEF Spec

=============================================================================
