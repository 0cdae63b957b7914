-------------------------- MODULE SupervisorProofs --------------------------
(***************************************************************************)
(* What holds of the daemon for any number of instances, requests, Pis and *)
(* faults: every child has someone to end it, no request waits for a dead  *)
(* one, the file agrees with memory, and Radius registrations can be found *)
(* again.                                                                  *)
(***************************************************************************)
EXTENDS Supervisor, TLAPS

LEMMA BoundsAreNat ==
    /\ MaxSpawns \in Nat /\ MaxRequests \in Nat /\ MaxLive \in Nat
    /\ MaxPis \in Nat /\ MaxFaults \in Nat
    /\ NotFoundThreshold \in Nat /\ NotFoundThreshold > 0
BY SupervisorAssumption

-----------------------------------------------------------------------------
(* Types.                                                                  *)

Ops == {"none", "spawn", "stop", "rpc"}
Asked == [op : Ops, on : Instances \cup {0}, at : Places, meta : BOOLEAN,
          held : BOOLEAN, pi : Pis, ok : BOOLEAN]
Exits == [on : Instances, pi : Pis]
Known == {r \in Records : r.status # "none"}
Reregs == [on : Instances, by : {"heartbeat", "machine"}, copy : Known]
Busy(h) == request[h].at # "idle"

ProcessTyped ==
    /\ daemon \in {"recovering", "up", "stopping", "spinning", "down"}
    /\ recovery \in [list : [Instances -> Records], todo : SUBSET Instances]
    /\ closing \in SUBSET Instances
FilesTyped ==
    /\ file \in [Instances -> Records] /\ record \in [Instances -> Records]
    /\ \A i \in live : record[i].status # "none"
TablesTyped ==
    /\ live \in SUBSET Instances /\ rpc \in SUBSET Instances /\ bound \in SUBSET Instances
    /\ pi \in [Instances -> Pis]
    /\ child \in [Instances -> {"none", "up", "term", "exited"}]
RequestsTyped ==
    /\ request \in [Handlers -> Asked]
    /\ exits \in SUBSET Exits
PresenceTyped ==
    /\ heartbeat \in [Instances -> Pis] /\ misses \in [Instances -> 0..NotFoundThreshold]
    /\ beats \in SUBSET Instances /\ machine \in SUBSET Instances
    /\ reregs \in SUBSET Reregs
    /\ remote \in SUBSET Pis /\ pis \in Pis
CountsTyped ==
    /\ spawned \in 0..MaxSpawns /\ received \in 0..MaxRequests /\ faults \in 0..MaxFaults
    /\ late \in SUBSET Instances /\ leaked \in SUBSET Instances /\ lost \in SUBSET Instances
    /\ owner \in [1..MaxPis -> Instances \cup {0}]

\* What is about an instance is about one that was spawned.
Spawned ==
    /\ live \subseteq 1..spawned /\ rpc \subseteq 1..spawned
    /\ \A i \in Instances : child[i] # "none" => i \in 1..spawned
    /\ \A h \in Handlers : Busy(h) => request[h].on \in 1..spawned
    /\ \A h \in Requests : h > received => ~Busy(h)
    /\ daemon = "down" => live = {}

Typed == ProcessTyped /\ FilesTyped /\ TablesTyped /\ RequestsTyped
         /\ PresenceTyped /\ CountsTyped /\ Spawned

LEMMA TypedImpliesTypeOK == Typed => TypeOK
<1> SUFFICES ASSUME Typed PROVE TypeOK
    OBVIOUS
<1> USE DEF Typed
<1>1. recovery.list \in [Instances -> Records] /\ recovery.todo \subseteq Instances
    BY DEF ProcessTyped
<1>2. reregs \subseteq [on : Instances, by : {"heartbeat", "machine"}, copy : Records]
    BY DEF PresenceTyped, Reregs, Known
<1>3. request \in [Handlers -> [op : {"none", "spawn", "stop", "rpc"},
           on : Instances \cup {0}, at : Places, meta : BOOLEAN, held : BOOLEAN,
           pi : Pis, ok : BOOLEAN]]
    BY DEF RequestsTyped, Asked, Ops
<1> QED BY <1>1, <1>2, <1>3 DEF TypeOK, ProcessTyped, FilesTyped, TablesTyped,
        RequestsTyped, PresenceTyped, CountsTyped, Exits

LEMMA TypedInit == Init => Typed
<1> SUFFICES ASSUME Init PROVE Typed
    OBVIOUS
<1> USE BoundsAreNat DEF Init
<1>0. NoRecord \in Records /\ Idle \in Asked /\ 0 \in Pis /\ 0 \in 0..NotFoundThreshold
    BY DEF Records, Idle, Asked, Ops, Places, Pis
<1>1. ProcessTyped BY <1>0 DEF ProcessTyped, NoRecovery
<1>2. FilesTyped BY <1>0 DEF FilesTyped
<1>3. TablesTyped BY <1>0 DEF TablesTyped
<1>4. RequestsTyped BY <1>0 DEF RequestsTyped
<1>5. PresenceTyped BY <1>0 DEF PresenceTyped
<1>6. CountsTyped BY <1>0 DEF CountsTyped
<1>7. Spawned BY DEF Spawned, Busy, Idle, Handlers
<1> QED BY <1>1, <1>2, <1>3, <1>4, <1>5, <1>6, <1>7 DEF Typed

\* Records and requests keep their types field by field.
LEMMA RecordOps ==
  ASSUME NEW r \in Records
  PROVE  /\ r.pi \in Pis /\ r.status \in Statuses \cup {"none"}
         /\ \A s \in Statuses : /\ [r EXCEPT !.status = s] \in Known
                                /\ [r EXCEPT !.status = s].status = s
                                /\ [r EXCEPT !.status = s].pi = r.pi
         /\ [r EXCEPT !.pi = 0] \in Records
         /\ [r EXCEPT !.pi = 0].status = r.status /\ [r EXCEPT !.pi = 0].pi = 0
         /\ r \in Known => \A p \in Pis : /\ [r EXCEPT !.pi = p] \in Known
                                          /\ [r EXCEPT !.pi = p].status = r.status
                                          /\ [r EXCEPT !.pi = p].pi = p
<1> USE BoundsAreNat
<1>1. 0 \in Pis BY DEF Pis
<1>2. CASE r = NoRecord
    BY <1>1, <1>2 DEF NoRecord, Records, Known, Statuses
<1>3. CASE r \in [status : Statuses, pi : Pis]
    BY <1>1, <1>3 DEF Records, Known, Statuses
<1> QED BY <1>2, <1>3 DEF Records

LEMMA RequestOps ==
  ASSUME NEW q \in Asked
  PROVE  /\ \A a \in Places : /\ [q EXCEPT !.at = a] \in Asked
                              /\ [q EXCEPT !.at = a].at = a
                              /\ [q EXCEPT !.at = a].on = q.on
                              /\ [q EXCEPT !.at = a].op = q.op
                              /\ [q EXCEPT !.at = a].held = q.held
                              /\ [q EXCEPT !.at = a].meta = q.meta
                              /\ [q EXCEPT !.at = a].pi = q.pi
                              /\ [q EXCEPT !.at = a].ok = q.ok
         /\ q.op \in Ops /\ q.on \in Instances \cup {0} /\ q.at \in Places
         /\ q.meta \in BOOLEAN /\ q.held \in BOOLEAN /\ q.pi \in Pis /\ q.ok \in BOOLEAN
BY DEF Asked

LEMMA AskedNew ==
  ASSUME NEW op \in Ops, NEW i \in Instances, NEW a \in Places
  PROVE  /\ Idle \in Asked /\ Idle.at = "idle"
         /\ Asks(op, i, a) \in Asked
         /\ Asks(op, i, a).op = op /\ Asks(op, i, a).on = i /\ Asks(op, i, a).at = a
         /\ \A m \in BOOLEAN : /\ [Asks(op, i, a) EXCEPT !.meta = m] \in Asked
                               /\ [Asks(op, i, a) EXCEPT !.meta = m].on = i
                               /\ [Asks(op, i, a) EXCEPT !.meta = m].at = a
<1>1. 0 \in Pis /\ "idle" \in Places BY BoundsAreNat DEF Pis, Places
<1> QED BY <1>1 DEF Idle, Asks, Asked, Ops

\* What the operations that several actions share do, place by place.
LEMMA PutEffects ==
  ASSUME Typed, NEW i \in Instances, NEW rec \in Records, i \in live => rec \in Known,
         Put(i, rec)
  PROVE  /\ record' \in [Instances -> Records] /\ file' \in [Instances -> Records]
         /\ record'[i] = rec /\ file'[i] = rec
         /\ \A j \in Instances \ {i} : record'[j] = record[j] /\ file'[j] = file[j]
         /\ \A j \in live \cup {i} : j \in live => record'[j].status # "none"
BY DEF Put, Typed, FilesTyped, TablesTyped, Known

LEMMA StatusEffects ==
  ASSUME Typed, NEW i \in Instances, NEW s \in Statuses, SetStatus(i, s)
  PROVE  /\ record' \in [Instances -> Records] /\ file' \in [Instances -> Records]
         /\ record'[i].status = s /\ file'[i].status = s
         /\ record'[i].pi = record[i].pi /\ file'[i].pi = record[i].pi
         /\ \A j \in Instances \ {i} : record'[j] = record[j] /\ file'[j] = file[j]
         /\ \A j \in live : record'[j].status # "none"
<1>1. record[i] \in Records BY DEF Typed, FilesTyped
<1>2. [record[i] EXCEPT !.status = s] \in Known BY <1>1, RecordOps
<1>3. [record[i] EXCEPT !.status = s] \in Records BY <1>2 DEF Known
<1>4. Put(i, [record[i] EXCEPT !.status = s]) BY DEF SetStatus
<1>5. /\ [record[i] EXCEPT !.status = s].status = s
      /\ [record[i] EXCEPT !.status = s].pi = record[i].pi
    BY <1>1, RecordOps
<1> HIDE DEF SetStatus
<1> QED BY <1>2, <1>3, <1>4, <1>5, PutEffects

Rejected(g, i) ==
    /\ request[g].on = i /\ request[g].at \in OnChild
    /\ request'[g] = [request[g] EXCEPT !.at = "lost"]
OthersKept(h, i) ==
    \A g \in Handlers \ {h} : request'[g] = request[g] \/ Rejected(g, i)

\* The child of i is disposed of by h, if h holds it.
Disposed(h, i, held) ==
    /\ rpc' \subseteq rpc /\ rpc \ {i} \subseteq rpc'
    /\ child' \in [Instances -> {"none", "up", "term", "exited"}]
    /\ \A j \in Instances \ {i} : child'[j] = child[j]
    /\ held => /\ i \notin rpc'
               /\ child'[i] = IF child[i] = "up" THEN "term" ELSE child[i]
               /\ request'[h].at = IF child[i] = "exited" THEN "finish" ELSE "dispose"
    /\ ~held => /\ rpc' = rpc /\ child' = child
                /\ request'[h].at = "finish"
    /\ request' \in [Handlers -> Asked]
    /\ request'[h].on = i
    /\ OthersKept(h, i)

LEMMA RejectEffects ==
  ASSUME Typed, NEW i \in Instances, NEW g \in Handlers
  PROVE  /\ RejectPending(i) \in [Handlers -> Asked]
         /\ \/ RejectPending(i)[g] = request[g] /\ ~(request[g].on = i /\ request[g].at \in OnChild)
            \/ /\ request[g].on = i /\ request[g].at \in OnChild
               /\ RejectPending(i)[g] = [request[g] EXCEPT !.at = "lost"]
<1>1. "lost" \in Places BY DEF Places, Micro
<1>2. \A k \in Handlers : request[k] \in Asked BY DEF Typed, RequestsTyped
<1>3. \A k \in Handlers : [request[k] EXCEPT !.at = "lost"] \in Asked BY <1>1, <1>2, RequestOps
<1> QED BY <1>2, <1>3 DEF RejectPending

LEMMA DisposeEffects ==
  ASSUME Typed, NEW h \in Handlers, NEW q \in Asked, q.on \in Instances, Dispose(h, q)
  PROVE  Disposed(h, q.on, q.held) /\ request'[h].op = q.op
<1> DEFINE i == q.on
<1>0. q.held \in BOOLEAN BY RequestOps
<1>1. /\ child \in [Instances -> {"none", "up", "term", "exited"}]
      /\ request \in [Handlers -> Asked]
    BY DEF Typed, TablesTyped, RequestsTyped
<1>2. "finish" \in Places /\ "dispose" \in Places BY DEF Places, Micro
<1>3. CASE q.held
  <2> DEFINE new == [q EXCEPT !.at = IF child[i] = "exited" THEN "finish" ELSE "dispose"]
  <2>1. /\ rpc' = rpc \ {i}
        /\ child' = [child EXCEPT ![i] = IF @ = "up" THEN "term" ELSE @]
        /\ request' = [RejectPending(i) EXCEPT ![h] = new]
      BY <1>3 DEF Dispose
  <2>2. /\ new \in Asked /\ new.on = i /\ new.op = q.op
        /\ new.at = IF child[i] = "exited" THEN "finish" ELSE "dispose"
      BY <1>2, RequestOps
  <2>3. RejectPending(i) \in [Handlers -> Asked] BY <1>1, RejectEffects
  <2> HIDE DEF new
  <2>4. request' \in [Handlers -> Asked] /\ request'[h] = new
      BY <2>1, <2>2, <2>3
  <2>5. OthersKept(h, i)
    <3> SUFFICES ASSUME NEW g \in Handlers \ {h} PROVE request'[g] = request[g] \/ Rejected(g, i)
        BY DEF OthersKept
    <3>1. request'[g] = RejectPending(i)[g] BY <2>1, <2>3
    <3> QED BY <3>1, RejectEffects DEF Rejected
  <2> QED BY <1>1, <1>3, <2>1, <2>2, <2>4, <2>5 DEF Disposed
<1>4. CASE ~q.held
  <2>1. request' = [request EXCEPT ![h] = [q EXCEPT !.at = "finish"]] /\ rpc' = rpc /\ child' = child
      BY <1>4 DEF Dispose
  <2>2. /\ [q EXCEPT !.at = "finish"] \in Asked /\ [q EXCEPT !.at = "finish"].on = i
        /\ [q EXCEPT !.at = "finish"].op = q.op /\ [q EXCEPT !.at = "finish"].at = "finish"
      BY <1>2, RequestOps
  <2> QED BY <1>1, <1>4, <2>1, <2>2 DEF Disposed, OthersKept
<1> QED BY <1>0, <1>3, <1>4

\* h begins to clean up after i: it waits for Radius, or disposes of the child.
CleaningUp(h, i, op) ==
    /\ request' \in [Handlers -> Asked]
    /\ request'[h].op = op /\ request'[h].on = i
    /\ \/ /\ pi[i] # 0 /\ rpc' = rpc /\ child' = child
          /\ request'[h].at = "disconnect"
          /\ request'[h].held = (i \in rpc) /\ request'[h].pi = record[i].pi
          /\ \A g \in Handlers \ {h} : request'[g] = request[g]
       \/ pi[i] = 0 /\ Disposed(h, i, i \in rpc)
    /\ bound' = bound \ {i}
    /\ heartbeat' \in [Instances -> Pis] /\ beats' \in SUBSET Instances

LEMMA CleanUpEffects ==
  ASSUME Typed, NEW h \in Handlers, NEW i \in Instances, NEW op \in Ops, CleanUp(h, i, op)
  PROVE  CleaningUp(h, i, op)
<1> DEFINE q == [Asks(op, i, "disconnect") EXCEPT !.held = i \in rpc, !.pi = record[i].pi]
<1>0. record[i] \in Records BY DEF Typed, FilesTyped
<1>1. record[i].pi \in Pis
    BY <1>0, RecordOps
<1>a. 0 \in Pis /\ "disconnect" \in Places
    BY BoundsAreNat DEF Pis, Places
<1>2. /\ q \in Asked /\ q.op = op /\ q.on = i /\ q.at = "disconnect"
      /\ q.held = (i \in rpc) /\ q.pi = record[i].pi
  <2>1. CASE i \in rpc
    <3>1. (i \in rpc) = TRUE
        BY <2>1
    <3>2. q = [Asks(op, i, "disconnect") EXCEPT !.held = TRUE, !.pi = record[i].pi]
        BY <3>1, Zenon
    <3> HIDE DEF q
    <3>3. /\ q \in Asked /\ q.op = op /\ q.on = i /\ q.at = "disconnect"
          /\ q.held = TRUE /\ q.pi = record[i].pi
        BY <1>1, <1>a, <3>2 DEF Idle, Asks, Asked, Ops
    <3> QED BY <2>1, <3>3
  <2>2. CASE i \notin rpc
    <3>1. (i \in rpc) = FALSE
        BY <2>2
    <3>2. q = [Asks(op, i, "disconnect") EXCEPT !.held = FALSE, !.pi = record[i].pi]
        BY <3>1, Zenon
    <3> HIDE DEF q
    <3>3. /\ q \in Asked /\ q.op = op /\ q.on = i /\ q.at = "disconnect"
          /\ q.held = FALSE /\ q.pi = record[i].pi
        BY <1>1, <1>a, <3>2 DEF Idle, Asks, Asked, Ops
    <3>4. q.held = (i \in rpc)
        BY <3>1, <3>3, Zenon
    <3> QED BY <3>3, <3>4
  <2> QED BY <2>1, <2>2
<1>3. /\ request \in [Handlers -> Asked]
      /\ heartbeat \in [Instances -> Pis] /\ beats \in SUBSET Instances /\ 0 \in Pis
    BY BoundsAreNat DEF Typed, RequestsTyped, PresenceTyped, Pis
<1>4. CASE pi[i] # 0
  <2>1. /\ DropHeartbeat(i) /\ request' = [request EXCEPT ![h] = q] /\ rpc' = rpc /\ child' = child
        /\ bound' = bound \ {i}
      BY <1>4 DEF CleanUp
  <2> HIDE DEF q
  <2>2. heartbeat' \in [Instances -> Pis] /\ beats' \in SUBSET Instances
      BY <1>3, <2>1 DEF DropHeartbeat
  <2> QED BY <1>2, <1>3, <1>4, <2>1, <2>2 DEF CleaningUp
<1>5. CASE pi[i] = 0
  <2>1. Dispose(h, q) /\ bound' = bound \ {i} /\ heartbeat' = heartbeat /\ beats' = beats
      BY <1>5 DEF CleanUp
  <2> HIDE DEF q
  <2>2. Disposed(h, i, i \in rpc) /\ request'[h].op = op
      BY <1>2, <2>1, DisposeEffects
  <2> QED BY <1>3, <1>5, <2>1, <2>2 DEF CleaningUp, Disposed
<1> QED BY <1>4, <1>5

LEMMA HandlerOf ==
  ASSUME Typed, NEW h \in Handlers, Busy(h)
  PROVE  /\ request[h] \in Asked
         /\ request[h].on \in Instances /\ request[h].on \in 1..spawned
<1>1. spawned \in 0..MaxSpawns BY DEF Typed, CountsTyped
<1> QED BY <1>1, BoundsAreNat DEF Typed, RequestsTyped, Spawned, Instances

LEMMA HandlerSets == Requests \subseteq Handlers /\ Shutdown \in Handlers
                     /\ Shutdown \notin Requests /\ Handlers \subseteq Nat
BY BoundsAreNat DEF Requests, Handlers, Shutdown

\* h goes on to a place, and is done.
LEMMA GotoEffects ==
  ASSUME Typed, NEW h \in Handlers, NEW a \in Places, Goto(h, a)
  PROVE  /\ request' \in [Handlers -> Asked]
         /\ request'[h].at = a /\ request'[h].on = request[h].on
         /\ request'[h].op = request[h].op
         /\ \A g \in Handlers \ {h} : request'[g] = request[g]
<1>1. request \in [Handlers -> Asked] BY DEF Typed, RequestsTyped
<1>2. request[h] \in Asked BY <1>1
<1>3. request' = [request EXCEPT ![h] = [request[h] EXCEPT !.at = a]] BY <1>1 DEF Goto
<1>4. /\ [request[h] EXCEPT !.at = a] \in Asked
      /\ [request[h] EXCEPT !.at = a].at = a
      /\ [request[h] EXCEPT !.at = a].on = request[h].on
      /\ [request[h] EXCEPT !.at = a].op = request[h].op
    BY <1>2, RequestOps
<1> QED BY <1>1, <1>3, <1>4

LEMMA DoneEffects ==
  ASSUME Typed, NEW h \in Handlers, Done(h)
  PROVE  /\ request' \in [Handlers -> Asked]
         /\ request'[h].at = "idle"
         /\ \A g \in Handlers \ {h} : request'[g] = request[g]
<1>1. Idle \in Asked /\ Idle.at = "idle"
    BY BoundsAreNat DEF Idle, Asked, Ops, Pis, Places
<1> QED BY <1>1 DEF Done, Typed, RequestsTyped

\* A step that spawns nothing and receives nothing keeps Spawned if no request
\* moves to another instance.
LEMMA SpawnedKept ==
  ASSUME Typed, spawned' = spawned, received' = received,
         live' \subseteq live, rpc' \subseteq rpc,
         \A i \in Instances : child'[i] # "none" => child[i] # "none",
         \A g \in Handlers : Busy(g)' =>
            /\ request'[g].on \in 1..spawned
            /\ Busy(g) \/ g = Shutdown,
         daemon' = "down" => live' = {}
  PROVE  Spawned'
BY HandlerSets DEF Typed, Spawned

LEMMA OthersBusy ==
  ASSUME NEW h \in Handlers, NEW i, Typed, OthersKept(h, i), NEW g \in Handlers \ {h}
  PROVE  Busy(g)' => Busy(g) /\ request'[g].on = request[g].on
<1>1. CASE request'[g] = request[g] BY <1>1 DEF Busy
<1>2. CASE Rejected(g, i)
  <2>1. request[g] \in Asked BY DEF Typed, RequestsTyped
  <2>2. "lost" \in Places BY DEF Places, Micro
  <2>3. Busy(g) BY <1>2 DEF Busy, Rejected, OnChild
  <2> QED BY <1>2, <2>1, <2>2, <2>3, RequestOps DEF Rejected
<1> QED BY <1>1, <1>2 DEF OthersKept

LEMMA CleaningSpawned ==
  ASSUME Typed, NEW h \in Handlers, NEW i \in 1..spawned, NEW op, CleaningUp(h, i, op)
  PROVE  /\ rpc' \subseteq rpc
         /\ \A j \in Instances : child'[j] # "none" => child[j] # "none"
         /\ rpc' \in SUBSET Instances /\ bound' \in SUBSET Instances
         /\ child' \in [Instances -> {"none", "up", "term", "exited"}]
         /\ \A g \in Handlers : Busy(g)' => request'[g].on \in 1..spawned /\ (Busy(g) \/ g = h)
<1>1. /\ rpc \in SUBSET Instances /\ bound \in SUBSET Instances
      /\ child \in [Instances -> {"none", "up", "term", "exited"}]
    BY DEF Typed, TablesTyped
<1>2. \A g \in Handlers : Busy(g) => request[g].on \in 1..spawned
    BY DEF Typed, Spawned
<1>3. request'[h].on = i BY DEF CleaningUp
<1>4. CASE pi[i] # 0
  <2>1. rpc' = rpc /\ child' = child /\ bound' = bound \ {i}
        /\ \A g \in Handlers \ {h} : request'[g] = request[g]
      BY <1>4 DEF CleaningUp
  <2> QED BY <1>1, <1>2, <1>3, <2>1 DEF Busy
<1>5. CASE pi[i] = 0
  <2>1. Disposed(h, i, i \in rpc) /\ bound' = bound \ {i}
      BY <1>5 DEF CleaningUp
  <2>2. OthersKept(h, i) BY <2>1 DEF Disposed
  <2>3. \A g \in Handlers \ {h} : Busy(g)' => Busy(g) /\ request'[g].on = request[g].on
      BY <2>2, OthersBusy
  <2>4. \A j \in Instances : child'[j] # "none" => child[j] # "none"
    <3> SUFFICES ASSUME NEW j \in Instances, child'[j] # "none", child[j] = "none" PROVE FALSE
        OBVIOUS
    <3> QED BY <2>1 DEF Disposed
  <2>5. rpc' \subseteq rpc /\ child' \in [Instances -> {"none", "up", "term", "exited"}]
      BY <2>1 DEF Disposed
  <2> QED BY <1>1, <1>2, <1>3, <2>1, <2>3, <2>4, <2>5
<1> QED BY <1>4, <1>5

LEMMA GotStateTyped ==
  ASSUME Typed, NEW h \in Handlers, GotState(h)
  PROVE  Typed'
<1> DEFINE i == request[h].on
<1>1. Busy(h) BY DEF GotState, At, Busy
<1>2. i \in Instances /\ i \in 1..spawned BY <1>1, HandlerOf
<1>3. /\ Put(i, record[i]) /\ Goto(h, "register")
      /\ UNCHANGED <<process, live, rpc, bound, pi, child, exits, presence, counts, history>>
    BY DEF GotState
<1> HIDE DEF i
<1>4. "register" \in Places BY DEF Places
<1>5. record[i] \in Records /\ (i \in live => record[i] \in Known)
    BY <1>2 DEF Typed, FilesTyped, Known
<1>6. FilesTyped'
    BY <1>2, <1>3, <1>5, PutEffects DEF FilesTyped, Typed
<1>7. RequestsTyped' BY <1>3, <1>4, GotoEffects DEF Typed, RequestsTyped
<1>8. Spawned'
  <2>1. \A g \in Handlers : Busy(g)' => request'[g].on \in 1..spawned /\ Busy(g)
      BY <1>1, <1>3, <1>4, GotoEffects DEF Busy, Typed, Spawned
  <2>2. live' = live /\ rpc' = rpc /\ child' = child /\ daemon' = daemon
        /\ spawned' = spawned /\ received' = received
      BY <1>3 DEF process, counts
  <2> QED BY <2>1, <2>2, SpawnedKept DEF Typed, Spawned
<1>9. ProcessTyped' /\ TablesTyped' /\ PresenceTyped' /\ CountsTyped'
    BY <1>3 DEF Typed, ProcessTyped, TablesTyped, PresenceTyped, CountsTyped,
                process, presence, counts, history
<1> QED BY <1>6, <1>7, <1>8, <1>9 DEF Typed

LEMMA FailSpawnTyped ==
  ASSUME Typed, NEW h \in Handlers, Busy(h), FailSpawn(h), faults' \in 0..MaxFaults
  PROVE  Typed'
<1> DEFINE i == request[h].on
<1>2. i \in Instances /\ i \in 1..spawned BY HandlerOf
<1>3. /\ SetStatus(i, "error") /\ CleanUp(h, i, "spawn")
      /\ UNCHANGED <<process, live, pi, exits, misses, reregs, machine,
                     remote, pis, spawned, received, history>>
    BY DEF FailSpawn
<1> HIDE DEF i
<1>4. CleaningUp(h, i, "spawn") BY <1>2, <1>3, CleanUpEffects DEF Ops
<1>6. FilesTyped'
    BY <1>2, <1>3, StatusEffects DEF Statuses, FilesTyped
<1>7. RequestsTyped' BY <1>3, <1>4 DEF Typed, RequestsTyped, CleaningUp
<1>8. Spawned'
  <2>1. live' = live /\ daemon' = daemon /\ spawned' = spawned /\ received' = received
      BY <1>3 DEF process
  <2>2. \A g \in Handlers : Busy(g)' => request'[g].on \in 1..spawned /\ Busy(g)
      BY <1>2, <1>4, CleaningSpawned
  <2> QED BY <1>2, <1>4, <2>1, <2>2, CleaningSpawned, SpawnedKept DEF Typed, Spawned
<1>9. TablesTyped' BY <1>2, <1>3, <1>4, CleaningSpawned DEF Typed, TablesTyped
<1>10. PresenceTyped' BY <1>3, <1>4 DEF Typed, PresenceTyped, CleaningUp
<1>11. ProcessTyped' /\ CountsTyped'
    BY <1>3 DEF Typed, ProcessTyped, CountsTyped, process, history
<1> QED BY <1>6, <1>7, <1>8, <1>9, <1>10, <1>11 DEF Typed

LEMMA FaultCounts ==
  ASSUME Typed
  PROVE  /\ UNCHANGED faults => faults' \in 0..MaxFaults
         /\ Fault => faults' \in 0..MaxFaults
         /\ Refused => faults' \in 0..MaxFaults
BY BoundsAreNat DEF Typed, CountsTyped, Fault, Refused

LEMMA ContinueTyped ==
  ASSUME Typed, NEW h \in Handlers,
         GotResponse(h) \/ Synced(h) \/ RpcLost(h)
  PROVE  Typed'
<1> DEFINE i == request[h].on
<1>1. Busy(h) BY DEF GotResponse, Synced, RpcLost, At, Busy
<1>2. i \in Instances /\ i \in 1..spawned BY <1>1, HandlerOf
<1>3. record[i] \in Records /\ (i \in live => record[i] \in Known)
    BY <1>2 DEF Typed, FilesTyped, Known
<1>4. /\ Put(i, record[i]) \/ UNCHANGED <<file, record>>
      /\ Goto(h, "sync") \/ Done(h)
      /\ UNCHANGED <<process, live, rpc, bound, pi, child, exits, presence, counts, history>>
    BY DEF GotResponse, Synced, RpcLost, tables
<1> HIDE DEF i
<1>5. FilesTyped'
  <2>1. live' = live BY <1>4
  <2>2. CASE UNCHANGED <<file, record>> BY <2>1, <2>2 DEF Typed, FilesTyped
  <2>3. CASE Put(i, record[i]) BY <1>2, <1>3, <2>1, <2>3, PutEffects DEF FilesTyped, Typed
  <2> QED BY <1>4, <2>2, <2>3
<1>6. /\ request' \in [Handlers -> Asked]
      /\ Busy(h)' => request'[h].on = request[h].on
      /\ \A g \in Handlers \ {h} : request'[g] = request[g]
  <2>1. "sync" \in Places BY DEF Places, OnChild
  <2>2. CASE Goto(h, "sync") BY <2>1, <2>2, GotoEffects
  <2>3. CASE Done(h) BY <2>3, DoneEffects DEF Busy
  <2> QED BY <1>4, <2>2, <2>3
<1>7. RequestsTyped' BY <1>4, <1>6 DEF Typed, RequestsTyped
<1>8. Spawned'
  <2>1. \A g \in Handlers : Busy(g)' => request'[g].on \in 1..spawned /\ Busy(g)
      BY <1>1, <1>6 DEF Busy, Typed, Spawned
  <2>2. live' = live /\ rpc' = rpc /\ child' = child /\ daemon' = daemon
        /\ spawned' = spawned /\ received' = received
      BY <1>4 DEF process, counts
  <2> QED BY <2>1, <2>2, SpawnedKept DEF Typed, Spawned
<1>9. ProcessTyped' /\ TablesTyped' /\ PresenceTyped' /\ CountsTyped'
    BY <1>4 DEF Typed, ProcessTyped, TablesTyped, PresenceTyped, CountsTyped,
                process, presence, counts, history
<1> QED BY <1>5, <1>7, <1>8, <1>9 DEF Typed

\* What the end of failSpawn() or stopInstance() writes.
LEMMA FinallyEffects ==
  ASSUME Typed, NEW h \in Handlers, Busy(h), Finally(h)
  PROVE  /\ record' \in [Instances -> Records] /\ file' \in [Instances -> Records]
         /\ record'[request[h].on].status = "stopped"
         /\ file'[request[h].on].status \in {"stopped", "none"}
         /\ \A j \in Instances \ {request[h].on} :
                record'[j] = record[j] /\ file'[j] = file[j]
         /\ live' = live \ {request[h].on}
<1> DEFINE i == request[h].on
<1>1. i \in Instances BY HandlerOf
<1>2. CASE request[h].op = "spawn"
  <2>1. SetStatus(i, "stopped") /\ live' = live \ {i} BY <1>2 DEF Finally, Forget
  <2> HIDE DEF i
  <2> QED BY <1>1, <2>1, StatusEffects DEF Statuses, i
<1>3. CASE request[h].op # "spawn"
  <2>1. /\ record' = [record EXCEPT ![i].status = "stopped"]
        /\ file' = [file EXCEPT ![i] = NoRecord] /\ live' = live \ {i}
      BY <1>3 DEF Finally, Forget
  <2> HIDE DEF i
  <2>2. /\ record \in [Instances -> Records] /\ file \in [Instances -> Records]
        /\ record[i] \in Records /\ NoRecord \in Records /\ NoRecord.status = "none"
      BY <1>1 DEF Typed, FilesTyped, Records, NoRecord
  <2>3. /\ [record[i] EXCEPT !.status = "stopped"] \in Records
        /\ [record[i] EXCEPT !.status = "stopped"].status = "stopped"
      BY <2>2, RecordOps DEF Known, Statuses
  <2>4. record' = [record EXCEPT ![i] = [record[i] EXCEPT !.status = "stopped"]]
      BY <2>1, <2>2
  <2> HIDE DEF NoRecord
  <2> QED BY <1>1, <2>1, <2>2, <2>3, <2>4 DEF i
<1> QED BY <1>2, <1>3

LEMMA FinishTyped ==
  ASSUME Typed, NEW h \in Handlers, Finish(h)
  PROVE  Typed'
<1> DEFINE i == request[h].on
<1>1. Busy(h) BY DEF Finish, At, Busy
<1>2. i \in Instances BY <1>1, HandlerOf
<1>3. /\ Finally(h) /\ Done(h)
      /\ daemon' = IF h = Shutdown /\ ~request[h].ok THEN "spinning" ELSE daemon
      /\ UNCHANGED <<recovery, closing, rpc, bound, pi, child, exits, presence, counts, history>>
    BY DEF Finish
<1>4. live' \subseteq live BY <1>3 DEF Finally, Forget
<1>5. FilesTyped' BY <1>1, <1>2, <1>3, <1>4, FinallyEffects DEF Typed, FilesTyped, TablesTyped
<1>6. RequestsTyped' BY <1>3, DoneEffects DEF Typed, RequestsTyped
<1>7. Spawned'
  <2>1. \A g \in Handlers : Busy(g)' => request'[g].on \in 1..spawned /\ Busy(g)
      BY <1>3, DoneEffects DEF Busy, Typed, Spawned
  <2>2. rpc' = rpc /\ child' = child /\ spawned' = spawned /\ received' = received
        /\ (daemon' = "down" => daemon = "down")
      BY <1>3 DEF counts
  <2> QED BY <1>4, <2>1, <2>2, SpawnedKept DEF Typed, Spawned
<1>8. TablesTyped' BY <1>3, <1>4 DEF Typed, TablesTyped
<1>9. ProcessTyped' /\ PresenceTyped' /\ CountsTyped'
    BY <1>3 DEF Typed, ProcessTyped, PresenceTyped, CountsTyped, presence, counts, history
<1> QED BY <1>5, <1>6, <1>7, <1>8, <1>9 DEF Typed

LEMMA SpawnTyped ==
  ASSUME Typed, NEW h \in Requests, Spawn(h)
  PROVE  Typed'
<1> DEFINE i == spawned + 1
<1>1. /\ spawned < MaxSpawns /\ spawned' = i
      /\ received < MaxRequests /\ received' = received + 1 /\ h = received + 1
      /\ daemon \in {"recovering", "up"}
      /\ live' = live \cup {i} /\ rpc' = rpc \cup {i} /\ bound' = bound \cup {i}
      /\ child' = [child EXCEPT ![i] = "up"]
      /\ Put(i, [status |-> "starting", pi |-> 0])
      /\ request' = [request EXCEPT ![h] = Asks("spawn", i, "get_state")]
      /\ UNCHANGED <<process, pi, exits, presence, faults, history>>
    BY DEF Spawn, Receive
<1>2. /\ spawned \in Nat /\ received \in Nat /\ i \in Instances /\ i \in 1..i
      /\ 1..spawned \subseteq 1..i /\ i \notin 1..spawned
    BY <1>1, BoundsAreNat DEF Typed, CountsTyped, Instances
<1> HIDE DEF i
<1>3. [status |-> "starting", pi |-> 0] \in Known
    BY BoundsAreNat DEF Known, Records, Statuses, Pis
<1>4. h \in Handlers BY HandlerSets
<1>5. /\ Asks("spawn", i, "get_state") \in Asked /\ Asks("spawn", i, "get_state").on = i
    BY <1>2, AskedNew DEF Ops, Places, OnChild
<1>6. /\ request' \in [Handlers -> Asked] /\ request'[h].on = i
      /\ \A g \in Handlers \ {h} : request'[g] = request[g]
    BY <1>1, <1>4, <1>5 DEF Typed, RequestsTyped
<1>7. FilesTyped'
    BY <1>1, <1>2, <1>3, PutEffects DEF FilesTyped, Typed, Known
<1>8. RequestsTyped' BY <1>1, <1>6 DEF Typed, RequestsTyped
<1>9. TablesTyped' BY <1>1, <1>2 DEF Typed, TablesTyped
<1>10. Spawned'
  <2>1. \A g \in Handlers : Busy(g)' => request'[g].on \in 1..i
      BY <1>2, <1>6 DEF Typed, Spawned, Busy
  <2>2. \A g \in Requests : g > received' => ~Busy(g)'
      BY <1>1, <1>2, <1>6, HandlerSets DEF Typed, Spawned, Busy
  <2>3. \A j \in Instances : child'[j] # "none" => j \in 1..i
      BY <1>1, <1>2 DEF Typed, Spawned, TablesTyped
  <2>4. daemon' # "down" BY <1>1 DEF process
  <2> QED BY <1>1, <1>2, <2>1, <2>2, <2>3, <2>4 DEF Typed, Spawned
<1>11. ProcessTyped' /\ PresenceTyped' BY <1>1 DEF Typed, ProcessTyped, PresenceTyped, process, presence
<1>12. CountsTyped' BY <1>1, BoundsAreNat DEF Typed, CountsTyped, history, i
<1> QED BY <1>7, <1>8, <1>9, <1>10, <1>11, <1>12 DEF Typed

\* Stopping one instance, whatever the shutdown and the socket count.
LEMMA StopInstanceTyped ==
  ASSUME Typed, NEW h \in Handlers, NEW i \in Instances, StopInstance(h, i),
         ~Busy(h), spawned' = spawned, received' \in received..MaxRequests,
         h \in Requests => h <= received', closing' \in SUBSET Instances
  PROVE  Typed'
<1>1. /\ i \in live /\ SetStatus(i, "stopping") /\ CleanUp(h, i, "stop")
      /\ UNCHANGED <<daemon, recovery, live, pi, exits, misses, reregs, machine,
                     remote, pis, faults, history>>
    BY DEF StopInstance
<1>2. CleaningUp(h, i, "stop") BY <1>1, CleanUpEffects DEF Ops
<1>3. i \in 1..spawned BY <1>1 DEF Typed, Spawned
<1>4. FilesTyped' BY <1>1, StatusEffects DEF Statuses, FilesTyped
<1>5. RequestsTyped' BY <1>1, <1>2 DEF Typed, RequestsTyped, CleaningUp
<1>6. Spawned'
  <2>1. \A g \in Handlers : Busy(g)' => request'[g].on \in 1..spawned /\ (Busy(g) \/ g = h)
      BY <1>2, <1>3, CleaningSpawned
  <2>2. received \in Nat /\ received' \in Nat /\ received <= received'
      BY BoundsAreNat DEF Typed, CountsTyped
  <2>3. \A g \in Requests : g > received' => ~Busy(g)'
      BY <2>1, <2>2, HandlerSets DEF Typed, Spawned
  <2>4. rpc' \subseteq rpc /\ \A j \in Instances : child'[j] # "none" => child[j] # "none"
      BY <1>2, <1>3, CleaningSpawned
  <2> QED BY <1>1, <2>1, <2>3, <2>4 DEF Typed, Spawned
<1>7. TablesTyped' BY <1>1, <1>2, <1>3, CleaningSpawned DEF Typed, TablesTyped
<1>8. PresenceTyped' BY <1>1, <1>2 DEF Typed, PresenceTyped, CleaningUp
<1>9. ProcessTyped' BY <1>1 DEF Typed, ProcessTyped
<1>10. CountsTyped' BY <1>1, BoundsAreNat DEF Typed, CountsTyped, history
<1> QED BY <1>4, <1>5, <1>6, <1>7, <1>8, <1>9, <1>10 DEF Typed

LEMMA StopTyped ==
  ASSUME Typed, NEW h \in Requests, NEW i \in Instances, Stop(h, i)
  PROVE  Typed'
<1>1. /\ received < MaxRequests /\ received' = received + 1 /\ h = received + 1
      /\ UNCHANGED <<closing, spawned>> /\ StopInstance(h, i)
    BY DEF Stop, Receive
<1>2. received \in Nat BY BoundsAreNat DEF Typed, CountsTyped
<1>3. ~Busy(h) BY <1>1, <1>2 DEF Typed, Spawned
<1>4. closing' \in SUBSET Instances BY <1>1 DEF Typed, ProcessTyped
<1>5. received' \in received..MaxRequests BY <1>1, <1>2, BoundsAreNat
<1>6. h <= received' BY <1>1, <1>2
<1> QED BY <1>1, <1>3, <1>4, <1>5, <1>6, HandlerSets, StopInstanceTyped

LEMMA ShutdownNextTyped ==
  ASSUME Typed, ShutdownNext
  PROVE  Typed'
<1> DEFINE i == Least(closing)
<1>1. /\ closing' = closing \ {i} /\ At(Shutdown, "idle")
      /\ \/ StopInstance(Shutdown, i) /\ UNCHANGED <<received, spawned>>
         \/ UNCHANGED <<daemon, recovery, file, tables, request, exits, presence, counts, history>>
    BY DEF ShutdownNext
<1> HIDE DEF i
<1>2. closing' \in SUBSET Instances BY <1>1 DEF Typed, ProcessTyped
<1>3. CASE StopInstance(Shutdown, i) /\ UNCHANGED <<received, spawned>>
  <2>1. i \in live BY <1>3 DEF StopInstance
  <2>2. i \in Instances BY <2>1 DEF Typed, TablesTyped
  <2>3. received' \in received..MaxRequests BY <1>3, BoundsAreNat DEF Typed, CountsTyped
  <2>4. ~Busy(Shutdown) BY <1>1 DEF Busy, At
  <2> QED BY <1>2, <1>3, <2>2, <2>3, <2>4, HandlerSets, StopInstanceTyped
<1>4. CASE UNCHANGED <<daemon, recovery, file, tables, request, exits, presence, counts, history>>
    BY <1>2, <1>4 DEF Typed, ProcessTyped, FilesTyped, TablesTyped, RequestsTyped, PresenceTyped,
        CountsTyped, Spawned, Busy, tables, presence, counts, history
<1> QED BY <1>1, <1>3, <1>4

LEMMA HandleRpcTyped ==
  ASSUME Typed, NEW h \in Requests, NEW i \in Instances, NEW meta \in BOOLEAN,
         HandleRpc(h, i, meta)
  PROVE  Typed'
<1>1. /\ received < MaxRequests /\ received' = received + 1 /\ h = received + 1
      /\ spawned' = spawned /\ child[i] \in {"up", "term"} /\ daemon \in {"recovering", "up"}
      /\ request' = [request EXCEPT ![h] = [Asks("rpc", i, "rpc") EXCEPT !.meta = meta]]
      /\ UNCHANGED <<process, file, tables, exits, presence, faults, history>>
    BY DEF HandleRpc, Receive
<1>2. received \in Nat /\ received' \in 0..MaxRequests
    BY <1>1, BoundsAreNat DEF Typed, CountsTyped
<1>3. i \in 1..spawned BY <1>1 DEF Typed, Spawned
<1>4. /\ [Asks("rpc", i, "rpc") EXCEPT !.meta = meta] \in Asked
      /\ [Asks("rpc", i, "rpc") EXCEPT !.meta = meta].on = i
    BY AskedNew DEF Ops, Places, OnChild
<1>5. /\ request' \in [Handlers -> Asked] /\ request'[h].on = i
      /\ \A g \in Handlers \ {h} : request'[g] = request[g]
    BY <1>1, <1>4, HandlerSets DEF Typed, RequestsTyped
<1>6. RequestsTyped' BY <1>1, <1>5 DEF Typed, RequestsTyped
<1>7. Spawned'
  <2>1. \A g \in Handlers : Busy(g)' => request'[g].on \in 1..spawned
      BY <1>3, <1>5 DEF Typed, Spawned, Busy
  <2>2. \A g \in Requests : g > received' => ~Busy(g)'
      BY <1>1, <1>2, <1>5, HandlerSets DEF Typed, Spawned, Busy
  <2> QED BY <1>1, <2>1, <2>2 DEF Typed, Spawned, process, tables
<1>8. ProcessTyped' /\ FilesTyped' /\ TablesTyped' /\ PresenceTyped'
    BY <1>1 DEF Typed, ProcessTyped, FilesTyped, TablesTyped, PresenceTyped, process, tables, presence
<1>9. CountsTyped' BY <1>1, <1>2 DEF Typed, CountsTyped, history
<1> QED BY <1>6, <1>7, <1>8, <1>9 DEF Typed

LEMMA ChildAnswersTyped ==
  ASSUME Typed, NEW h \in Handlers, ChildAnswers(h)
  PROVE  Typed'
<1>1. /\ request[h].at \in OnChild
      /\ UNCHANGED <<process, file, tables, exits, presence, counts, history>>
      /\ \E a \in {"got_state", "got_rpc", "got_sync"} : Goto(h, a)
    BY DEF ChildAnswers, OnChild
<1>2. PICK a \in {"got_state", "got_rpc", "got_sync"} : Goto(h, a)
    BY <1>1
<1>3. a \in Places BY DEF Places, Micro
<1>4. RequestsTyped' BY <1>1, <1>2, <1>3, GotoEffects DEF Typed, RequestsTyped
<1>5. Spawned'
  <2>1. Busy(h) BY <1>1 DEF Busy, OnChild
  <2>2. \A g \in Handlers : Busy(g)' => request'[g].on \in 1..spawned /\ Busy(g)
      BY <1>2, <1>3, <2>1, GotoEffects DEF Busy, Typed, Spawned
  <2> QED BY <1>1, <2>2, SpawnedKept DEF Typed, Spawned, process, tables, counts
<1>6. ProcessTyped' /\ FilesTyped' /\ TablesTyped' /\ PresenceTyped' /\ CountsTyped'
    BY <1>1 DEF Typed, ProcessTyped, FilesTyped, TablesTyped, PresenceTyped, CountsTyped,
        process, tables, presence, counts, history
<1> QED BY <1>4, <1>5, <1>6 DEF Typed

\* Everything that waits for the child of i moves on when it exits.
LEMMA ExitEffects ==
  ASSUME Typed, NEW i \in Instances, ChildExits(i)
  PROVE  /\ request' \in [Handlers -> Asked]
         /\ \A g \in Handlers :
              \/ /\ request[g].on = i /\ At(g, "dispose")
                 /\ request'[g] = [request[g] EXCEPT !.at = "finish"]
              \/ Rejected(g, i)
              \/ request'[g] = request[g]
                 /\ ~(request[g].on = i /\ request[g].at \in OnChild \cup {"dispose"})
         /\ \A g \in Handlers : request'[g].on = request[g].on /\ request'[g].pi = request[g].pi
         /\ \A g \in Handlers : Busy(g)' <=> Busy(g)
<1>1. request' = [h \in Handlers |->
           IF request[h].on = i /\ At(h, "dispose") THEN [request[h] EXCEPT !.at = "finish"]
           ELSE RejectPending(i)[h]]
    BY DEF ChildExits
<1>2. \A g \in Handlers : request[g] \in Asked BY DEF Typed, RequestsTyped
<1>3. "finish" \in Places /\ "lost" \in Places BY DEF Places, Micro
<1>4. ASSUME NEW g \in Handlers
      PROVE  /\ request'[g] \in Asked
             /\ \/ /\ request[g].on = i /\ At(g, "dispose")
                   /\ request'[g] = [request[g] EXCEPT !.at = "finish"]
                \/ Rejected(g, i)
                \/ request'[g] = request[g]
                   /\ ~(request[g].on = i /\ request[g].at \in OnChild \cup {"dispose"})
             /\ request'[g].on = request[g].on /\ request'[g].pi = request[g].pi
             /\ Busy(g)' <=> Busy(g)
  <2>1. CASE request[g].on = i /\ At(g, "dispose")
    <3>1. request'[g] = [request[g] EXCEPT !.at = "finish"] BY <1>1, <2>1
    <3> QED BY <1>2, <1>3, <2>1, <3>1, RequestOps DEF Busy, At
  <2>2. CASE ~(request[g].on = i /\ At(g, "dispose"))
    <3>1. request'[g] = RejectPending(i)[g] /\ RejectPending(i)[g] \in Asked
        BY <1>1, <2>2, RejectEffects
    <3>2. CASE RejectPending(i)[g] = request[g] /\ ~(request[g].on = i /\ request[g].at \in OnChild)
        BY <2>2, <3>1, <3>2 DEF Busy, At
    <3>3. CASE /\ request[g].on = i /\ request[g].at \in OnChild
               /\ RejectPending(i)[g] = [request[g] EXCEPT !.at = "lost"]
      <4>1. Rejected(g, i) BY <3>1, <3>3 DEF Rejected
      <4> QED BY <1>2, <1>3, <3>1, <3>3, <4>1, RequestOps DEF Busy, OnChild
    <3> QED BY <3>2, <3>3, RejectEffects
  <2> QED BY <2>1, <2>2
<1>5. DOMAIN request' = Handlers /\ request' = [h \in Handlers |-> request'[h]] BY <1>1
<1>6. request' \in [Handlers -> Asked] BY <1>4, <1>5
<1> QED BY <1>4, <1>6

LEMMA ChildExitsTyped ==
  ASSUME Typed, NEW i \in Instances, ChildExits(i)
  PROVE  Typed'
<1>1. /\ child' = [child EXCEPT ![i] = "exited"] /\ child[i] \in {"up", "term"}
      /\ UNCHANGED <<process, pi, misses, reregs, machine, remote, pis, counts, history>>
    BY DEF ChildExits
<1>4. /\ FilesTyped' /\ TablesTyped' /\ exits' \in SUBSET Exits
      /\ heartbeat' \in [Instances -> Pis] /\ beats' \in SUBSET Instances
      /\ live' \subseteq live /\ rpc' \subseteq rpc
  <2>1. CASE Unexpected(i)
    <3>1. /\ SetStatus(i, "error") /\ bound' = bound \ {i} /\ rpc' = rpc \ {i}
          /\ \/ DropHeartbeat(i) /\ live' = live
                /\ exits' = exits \cup {[on |-> i, pi |-> record[i].pi]}
             \/ Forget(i) /\ UNCHANGED <<heartbeat, beats, exits>>
        BY <2>1 DEF ChildExits
    <3>2. live' \subseteq live /\ live' \in SUBSET Instances
        BY <3>1 DEF Forget, Typed, TablesTyped
    <3>3. FilesTyped' BY <3>1, <3>2, StatusEffects DEF FilesTyped, Statuses
    <3>4. TablesTyped' BY <1>1, <3>1, <3>2 DEF Typed, TablesTyped
    <3>5. exits' \in SUBSET Exits
      <4>1. record[i].pi \in Pis BY RecordOps DEF Typed, FilesTyped
      <4> QED BY <3>1, <4>1 DEF Typed, RequestsTyped, Exits
    <3>6. heartbeat' \in [Instances -> Pis] /\ beats' \in SUBSET Instances
        BY <3>1, BoundsAreNat DEF Typed, PresenceTyped, DropHeartbeat, Pis
    <3> QED BY <3>1, <3>2, <3>3, <3>4, <3>5, <3>6
  <2>2. CASE ~Unexpected(i)
    <3>1. UNCHANGED <<file, live, record, rpc, bound, exits, heartbeat, beats>>
        BY <2>2 DEF ChildExits
    <3> QED BY <1>1, <3>1 DEF Typed, FilesTyped, TablesTyped, RequestsTyped, PresenceTyped
  <2> QED BY <2>1, <2>2
<1>5. RequestsTyped' BY <1>4, ExitEffects DEF RequestsTyped
<1>6. Spawned'
  <2>1. \A g \in Handlers : Busy(g)' => request'[g].on \in 1..spawned /\ Busy(g)
      BY ExitEffects DEF Typed, Spawned
  <2>2. \A j \in Instances : child'[j] # "none" => child[j] # "none"
      BY <1>1 DEF Typed, TablesTyped
  <2> QED BY <1>1, <1>4, <2>1, <2>2, SpawnedKept DEF Typed, Spawned, process, counts
<1>7. PresenceTyped' BY <1>1, <1>4 DEF Typed, PresenceTyped
<1>8. ProcessTyped' /\ CountsTyped' BY <1>1 DEF Typed, ProcessTyped, CountsTyped, process, counts, history
<1> QED BY <1>4, <1>5, <1>6, <1>7, <1>8 DEF Typed

\* What is left when the process ends.
LEMMA ResetTyped ==
  ASSUME Typed, Reset, daemon' = "down", file' \in [Instances -> Records],
         UNCHANGED <<pis, spawned, received>>, remote' = remote
  PROVE  ProcessTyped' /\ FilesTyped' /\ TablesTyped' /\ RequestsTyped' /\ PresenceTyped' /\ Spawned'
<1>0. NoRecord \in Records /\ Idle \in Asked /\ 0 \in Pis /\ 0 \in 0..NotFoundThreshold
      /\ Idle.at = "idle"
    BY BoundsAreNat DEF NoRecord, Records, Idle, Asked, Ops, Places, Pis
<1>1. ProcessTyped' BY <1>0 DEF Reset, ProcessTyped, NoRecovery
<1>2. FilesTyped' BY <1>0 DEF Reset, FilesTyped
<1>3. TablesTyped' BY <1>0 DEF Reset, TablesTyped
<1>4. RequestsTyped' BY <1>0 DEF Reset, RequestsTyped
<1>5. PresenceTyped' BY <1>0 DEF Reset, PresenceTyped, Typed
<1>6. Spawned'
  <2>1. \A g \in Handlers : ~Busy(g)' BY <1>0 DEF Reset, Busy
  <2>2. \A j \in Instances : child'[j] # "none" => child[j] # "none"
      BY DEF Reset
  <2> QED BY <2>1, <2>2, HandlerSets DEF Reset, Typed, Spawned
<1> QED BY <1>1, <1>2, <1>3, <1>4, <1>5, <1>6

LEMMA SignalTyped ==
  ASSUME Typed, Signal
  PROVE  Typed'
<1>1. /\ daemon' = "stopping" /\ closing' = live
      /\ UNCHANGED <<recovery, file, tables, request, exits, presence, counts, history>>
    BY DEF Signal
<1> QED BY <1>1 DEF Typed, ProcessTyped, FilesTyped, TablesTyped, RequestsTyped, PresenceTyped,
        CountsTyped, Spawned, Busy, tables, presence, counts, history

LEMMA ShutdownEndsTyped ==
  ASSUME Typed, ShutdownEnds
  PROVE  Typed'
<1>1. UNCHANGED <<file, remote, pis, spawned, received, history>> BY DEF ShutdownEnds
<1>2. CASE daemon' = "down" /\ Reset /\ UNCHANGED faults
  <2>1. CountsTyped' BY <1>1, <1>2 DEF Typed, CountsTyped, history
  <2>2. file' \in [Instances -> Records] BY <1>1 DEF Typed, FilesTyped
  <2> QED BY <1>1, <1>2, <2>1, <2>2, ResetTyped DEF Typed
<1>3. CASE /\ Fault /\ daemon' = "spinning"
           /\ heartbeat' = [i \in Instances |-> 0]
           /\ UNCHANGED <<recovery, closing, tables, request, exits, misses, beats, reregs, machine>>
  <2>1. CountsTyped' BY <1>1, <1>3, FaultCounts DEF Typed, CountsTyped, history
  <2>2. PresenceTyped' BY <1>1, <1>3, BoundsAreNat DEF Typed, PresenceTyped, Pis
  <2> QED BY <1>1, <1>3, <2>1, <2>2 DEF Typed, ProcessTyped, FilesTyped, TablesTyped,
            RequestsTyped, Spawned, Busy, tables
<1> QED BY <1>2, <1>3 DEF ShutdownEnds

LEMMA CrashTyped ==
  ASSUME Typed, Crash
  PROVE  Typed'
<1>1. /\ Fault /\ daemon' = "down" /\ Reset
      /\ UNCHANGED <<remote, pis, spawned, received, late, leaked, owner>>
    BY DEF Crash
<1>2. file' \in [Instances -> Records] /\ lost' \in SUBSET Instances
  <2>1. CASE UNCHANGED <<file, lost>> BY <2>1 DEF Typed, FilesTyped, CountsTyped
  <2>2. CASE file' = [i \in Instances |-> NoRecord] /\ lost' = 1..spawned
      BY <2>2, BoundsAreNat DEF Typed, CountsTyped, Records, Instances
  <2> QED BY <2>1, <2>2 DEF Crash
<1>3. CountsTyped' BY <1>1, <1>2, FaultCounts DEF Typed, CountsTyped
<1> QED BY <1>1, <1>2, <1>3, ResetTyped DEF Typed

LEMMA RecoveredEffects ==
  ASSUME NEW r \in Records
  PROVE  /\ Recovered(r) \in Records
         /\ Recovered(r).status \notin {"starting", "online"}
         /\ Recovered(r).pi = r.pi
<1>1. CASE r.status \in {"online", "starting"}
  <2>1. Recovered(r) = [r EXCEPT !.status = "stopped"]
      BY <1>1 DEF Recovered, Records, NoRecord
  <2>2. /\ [r EXCEPT !.status = "stopped"] \in Known
        /\ [r EXCEPT !.status = "stopped"].status = "stopped"
        /\ [r EXCEPT !.status = "stopped"].pi = r.pi
      BY RecordOps DEF Statuses
  <2> QED BY <2>1, <2>2 DEF Known
<1>2. CASE r.status \notin {"online", "starting"}
  <2>1. Recovered(r) = r
      BY <1>2 DEF Recovered, Records, NoRecord
  <2> QED BY <1>2, <2>1
<1> QED BY <1>1, <1>2

LEMMA RecoverTyped ==
  ASSUME Typed, RecoverAfterRestart \/ RecoverNext
  PROVE  Typed'
<1>1. CASE RecoverAfterRestart
  <2> DEFINE list == [i \in Instances |-> Recovered(file[i])]
             todo == {i \in Instances : file[i].pi # 0}
  <2>1. list \in [Instances -> Records] /\ todo \in SUBSET Instances
      BY RecoveredEffects DEF Typed, FilesTyped
  <2>2. /\ \/ daemon' = "up" /\ file' = list /\ UNCHANGED recovery
           \/ daemon' = "recovering" /\ recovery' = [list |-> list, todo |-> todo] /\ file' = file
        /\ UNCHANGED <<closing, tables, request, exits, presence, counts, history>>
      BY <1>1 DEF RecoverAfterRestart
  <2> HIDE DEF list, todo
  <2>3. ProcessTyped' BY <2>1, <2>2 DEF Typed, ProcessTyped
  <2>4. FilesTyped' BY <2>1, <2>2 DEF Typed, FilesTyped, tables
  <2> QED BY <2>2, <2>3, <2>4 DEF Typed, TablesTyped, RequestsTyped, PresenceTyped,
        CountsTyped, Spawned, Busy, tables, presence, counts, history
<1>2. CASE RecoverNext
  <2> DEFINE i == Least(recovery.todo)
             rest == recovery.todo \ {i}
  <2>1. /\ remote' = remote \ {recovery.list[i].pi}
        /\ heartbeat' = [heartbeat EXCEPT ![i] = 0]
        /\ \/ daemon' = "up" /\ file' = recovery.list /\ recovery' = NoRecovery
              /\ lost' = lost \cup live
           \/ recovery' = [recovery EXCEPT !.todo = rest] /\ UNCHANGED <<daemon, file, lost>>
        /\ UNCHANGED <<closing, tables, request, exits, misses, beats, reregs, machine, pis,
                       counts, late, leaked, owner>>
        /\ daemon = "recovering"
      BY <1>2 DEF RecoverNext
  <2>2. /\ recovery.list \in [Instances -> Records] /\ rest \in SUBSET Instances
        /\ NoRecovery \in [list : [Instances -> Records], todo : SUBSET Instances]
      BY BoundsAreNat DEF Typed, ProcessTyped, NoRecovery, NoRecord, Records, Pis
  <2> HIDE DEF i, rest
  <2>3. ProcessTyped' BY <2>1, <2>2 DEF Typed, ProcessTyped
  <2>4. FilesTyped' BY <2>1, <2>2 DEF Typed, FilesTyped, tables
  <2>5. PresenceTyped'
    <3>1. 0 \in Pis BY BoundsAreNat DEF Pis
    <3>2. heartbeat' \in [Instances -> Pis] /\ remote' \in SUBSET Pis
        BY <2>1, <3>1 DEF Typed, PresenceTyped
    <3> QED BY <2>1, <3>2 DEF Typed, PresenceTyped
  <2>6. CountsTyped' BY <2>1 DEF Typed, CountsTyped, TablesTyped, counts
  <2>7. daemon' # "down" BY <2>1
  <2> QED BY <2>1, <2>3, <2>4, <2>5, <2>6, <2>7 DEF Typed, TablesTyped, RequestsTyped,
        Spawned, Busy, tables, counts
<1> QED BY <1>1, <1>2

\* Radius answers h's disconnectPi().
LEMMA DisconnectedTyped ==
  ASSUME Typed, NEW h \in Handlers, Disconnected(h)
  PROVE  Typed'
<1> DEFINE i == request[h].on
<1>0. Busy(h) BY DEF Disconnected, At, Busy
<1>1. i \in Instances /\ i \in 1..spawned /\ request[h] \in Asked BY <1>0, HandlerOf
<1>2. UNCHANGED <<process, file, live, bound, exits, heartbeat, misses, beats,
                   reregs, machine, pis, spawned, received, late, lost, owner>>
    BY DEF Disconnected
<1>3. CASE /\ remote' = remote \ {request[h].pi}
           /\ pi' = [pi EXCEPT ![i] = 0]
           /\ record' = [record EXCEPT ![i].pi = 0]
           /\ Dispose(h, request[h])
           /\ UNCHANGED <<faults, leaked>>
  <2>1. Disposed(h, i, request[h].held) BY <1>1, <1>3, DisposeEffects
  <2> HIDE DEF i
  <2>2. /\ record[i] \in Records /\ record \in [Instances -> Records]
        /\ record' = [record EXCEPT ![i] = [record[i] EXCEPT !.pi = 0]]
      BY <1>1, <1>3 DEF Typed, FilesTyped
  <2>3. /\ [record[i] EXCEPT !.pi = 0] \in Records
        /\ [record[i] EXCEPT !.pi = 0].status = record[i].status
      BY <2>2, RecordOps
  <2>4. FilesTyped'
    <3>1. record' \in [Instances -> Records] BY <1>1, <2>2, <2>3
    <3>2. \A j \in Instances : record'[j].status = record[j].status BY <1>1, <2>2, <2>3
    <3>3. live \subseteq Instances BY DEF Typed, TablesTyped
    <3> QED BY <1>2, <3>1, <3>2, <3>3 DEF Typed, FilesTyped
  <2>5. TablesTyped'
    <3>1. rpc' \subseteq rpc /\ child' \in [Instances -> {"none", "up", "term", "exited"}]
        BY <2>1 DEF Disposed
    <3>0. 0 \in Pis /\ pi \in [Instances -> Pis] BY BoundsAreNat DEF Pis, Typed, TablesTyped
    <3>2. pi' \in [Instances -> Pis] BY <1>3, <3>0
    <3> QED BY <1>2, <3>1, <3>2 DEF Typed, TablesTyped
  <2>6. RequestsTyped' BY <1>2, <2>1 DEF Typed, RequestsTyped, Disposed
  <2>7. PresenceTyped' BY <1>2, <1>3 DEF Typed, PresenceTyped
  <2>8. CountsTyped' BY <1>2, <1>3 DEF Typed, CountsTyped
  <2>9. ProcessTyped' BY <1>2 DEF Typed, ProcessTyped, process
  <2>10. Spawned'
    <3>1. \A g \in Handlers : Busy(g)' => request'[g].on \in 1..spawned /\ Busy(g)
      <4>1. \A g \in Handlers \ {h} : Busy(g)' => Busy(g) /\ request'[g].on = request[g].on
          BY <2>1, OthersBusy DEF Disposed
      <4>2. request'[h].on = i BY <2>1 DEF Disposed
      <4> QED BY <1>0, <1>1, <4>1, <4>2 DEF Typed, Spawned
    <3>2. rpc' \subseteq rpc /\ \A j \in Instances : child'[j] # "none" => child[j] # "none"
      <4>1. SUFFICES ASSUME NEW j \in Instances, child'[j] # "none", child[j] = "none" PROVE FALSE
          BY <2>1 DEF Disposed
      <4>2. request[h].held \in BOOLEAN BY <1>1, RequestOps
      <4> QED BY <2>1, <4>1, <4>2 DEF Disposed
    <3> QED BY <1>2, <3>1, <3>2, SpawnedKept DEF Typed, Spawned, process
  <2> QED BY <2>4, <2>5, <2>6, <2>7, <2>8, <2>9, <2>10 DEF Typed
<1>4. CASE /\ Fault
           /\ leaked' = leaked \cup {i}
           /\ request' = [request EXCEPT ![h].at = "finish", ![h].ok = FALSE]
           /\ UNCHANGED <<remote, pi, record, rpc, child>>
  <2> DEFINE new == [request[h] EXCEPT !.at = "finish", !.ok = FALSE]
  <2>1. new \in Asked /\ new.on = i
      BY <1>1 DEF Asked, Places, Micro
  <2>2. request' = [request EXCEPT ![h] = new]
      BY <1>4 DEF Typed, RequestsTyped
  <2> HIDE DEF new, i
  <2>3. /\ request' \in [Handlers -> Asked] /\ request'[h].on = i
        /\ \A g \in Handlers \ {h} : request'[g] = request[g]
      BY <2>1, <2>2 DEF Typed, RequestsTyped
  <2>4. RequestsTyped' BY <1>2, <2>3 DEF Typed, RequestsTyped
  <2>5. CountsTyped' BY <1>1, <1>2, <1>4, FaultCounts DEF Typed, CountsTyped
  <2>6. ProcessTyped' /\ FilesTyped' /\ TablesTyped' /\ PresenceTyped'
      BY <1>2, <1>4 DEF Typed, ProcessTyped, FilesTyped, TablesTyped, PresenceTyped, process
  <2>7. Spawned'
    <3>1. \A g \in Handlers : Busy(g)' => request'[g].on \in 1..spawned /\ Busy(g)
        BY <1>0, <1>1, <2>3 DEF Busy, Typed, Spawned
    <3> QED BY <1>2, <1>4, <3>1, SpawnedKept DEF Typed, Spawned, process
  <2> QED BY <2>4, <2>5, <2>6, <2>7 DEF Typed
<1> QED BY <1>3, <1>4 DEF Disconnected

\* Radius grants i a registration.
LEMMA GrantEffects ==
  ASSUME Typed, NEW i \in Instances, StartHeartbeat(i), Granted(i)
  PROVE  /\ pis' = pis + 1 /\ pis' \in Pis /\ pis' \in 1..MaxPis
         /\ remote' \in SUBSET Pis
         /\ heartbeat' \in [Instances -> Pis]
         /\ misses' \in [Instances -> 0..NotFoundThreshold]
         /\ owner' \in [1..MaxPis -> Instances \cup {0}]
         /\ late' \in SUBSET Instances
<1>1. pis \in Nat /\ pis < MaxPis /\ pis' = pis + 1
    BY BoundsAreNat DEF Typed, PresenceTyped, Pis, StartHeartbeat
<1>2. pis + 1 \in Pis /\ pis + 1 \in 1..MaxPis BY <1>1, BoundsAreNat DEF Pis
<1>3. owner' = [owner EXCEPT ![pis + 1] = i] /\ late' \in {late, late \cup {i}} BY DEF Granted
<1>4. /\ remote' = remote \cup {pis + 1} /\ heartbeat' = [heartbeat EXCEPT ![i] = pis + 1]
      /\ misses' = [misses EXCEPT ![i] = 0]
    BY DEF StartHeartbeat
<1>5. 0 \in 0..NotFoundThreshold BY BoundsAreNat
<1> QED BY <1>1, <1>2, <1>3, <1>4, <1>5 DEF Typed, PresenceTyped, CountsTyped

LEMMA RegisteredTyped ==
  ASSUME Typed, NEW h \in Handlers, Registered(h)
  PROVE  Typed'
<1> DEFINE i == request[h].on
<1>0. Busy(h) BY DEF Registered, At, Busy
<1>1. i \in Instances BY <1>0, HandlerOf
<1>2. /\ StartHeartbeat(i) /\ Granted(i) /\ Done(h)
      /\ pi' = [pi EXCEPT ![i] = pis + 1]
      /\ Put(i, [status |-> "online", pi |-> pis + 1])
      /\ UNCHANGED <<process, live, rpc, bound, child, exits, beats, reregs,
                     machine, counts, leaked, lost>>
    BY DEF Registered
<1> HIDE DEF i
<1>3. pis + 1 \in Pis BY <1>1, <1>2, GrantEffects
<1>4. [status |-> "online", pi |-> pis + 1] \in Known BY <1>3 DEF Known, Records, Statuses
<1>5. FilesTyped' BY <1>1, <1>2, <1>4, PutEffects DEF Typed, FilesTyped, Known
<1>6. RequestsTyped' BY <1>2, DoneEffects DEF Typed, RequestsTyped
<1>7. TablesTyped' BY <1>1, <1>2, <1>3 DEF Typed, TablesTyped
<1>8. PresenceTyped' BY <1>1, <1>2, GrantEffects DEF Typed, PresenceTyped
<1>9. ProcessTyped' BY <1>2 DEF Typed, ProcessTyped, process
<1>10. CountsTyped' BY <1>1, <1>2, GrantEffects DEF Typed, CountsTyped, counts
<1>11. Spawned'
  <2>1. \A g \in Handlers : Busy(g)' => request'[g].on \in 1..spawned /\ Busy(g)
      BY <1>2, DoneEffects DEF Busy, Typed, Spawned
  <2> QED BY <1>2, <2>1, SpawnedKept DEF Typed, Spawned, process, counts
<1> QED BY <1>5, <1>6, <1>7, <1>8, <1>9, <1>10, <1>11 DEF Typed

LEMMA ExitDisconnectedTyped ==
  ASSUME Typed, NEW x \in exits, ExitDisconnected(x)
  PROVE  Typed'
<1>1. x \in Exits /\ x.on \in Instances BY DEF Typed, RequestsTyped, Exits
<1>2. /\ exits' = exits \ {x} /\ live' = live \ {x.on}
      /\ UNCHANGED <<process, rpc, bound, pi, child, request, heartbeat, misses,
                     beats, reregs, machine, pis, spawned, received, late, lost, owner>>
    BY DEF ExitDisconnected, Forget
<1>3. record[x.on] \in Records /\ (x.on \in live => record[x.on] \in Known)
    BY <1>1 DEF Typed, FilesTyped, Known
<1>4. [record[x.on] EXCEPT !.pi = 0] \in Records
      /\ (x.on \in live => [record[x.on] EXCEPT !.pi = 0] \in Known)
    BY <1>3, BoundsAreNat, RecordOps DEF Pis
<1>5. FilesTyped' /\ remote' \in SUBSET Pis /\ faults' \in 0..MaxFaults /\ leaked' \in SUBSET Instances
  <2>1. live \in SUBSET Instances BY DEF Typed, TablesTyped
  <2>2. CASE /\ remote' = remote \ {x.pi}
             /\ Put(x.on, [record[x.on] EXCEPT !.pi = 0])
             /\ UNCHANGED <<faults, leaked>>
    <3>1. FilesTyped' BY <1>1, <1>2, <1>4, <2>1, <2>2, PutEffects DEF FilesTyped
    <3> QED BY <2>2, <3>1, FaultCounts DEF Typed, PresenceTyped, CountsTyped
  <2>3. CASE /\ Fault /\ leaked' = leaked \cup {x.on}
             /\ UNCHANGED <<remote, file, record>>
      BY <1>1, <1>2, <2>3, FaultCounts DEF Typed, PresenceTyped, CountsTyped, FilesTyped
  <2> QED BY <2>2, <2>3 DEF ExitDisconnected
<1>6. RequestsTyped' BY <1>2 DEF Typed, RequestsTyped
<1>7. TablesTyped' BY <1>2 DEF Typed, TablesTyped
<1>8. PresenceTyped' BY <1>2, <1>5 DEF Typed, PresenceTyped
<1>9. ProcessTyped' BY <1>2 DEF Typed, ProcessTyped, process
<1>10. CountsTyped' BY <1>2, <1>5 DEF Typed, CountsTyped
<1>11. Spawned'
    BY <1>2 DEF Typed, Spawned, Busy, process
<1> QED BY <1>5, <1>6, <1>7, <1>8, <1>9, <1>10, <1>11 DEF Typed

\* Heartbeats change nothing but the presence's own state.
LEMMA ReRegisterTyped ==
  ASSUME Typed, NEW i, NEW by \in {"heartbeat", "machine"}, ReRegister(i, by)
  PROVE  /\ reregs' \in SUBSET Reregs /\ heartbeat' \in [Instances -> Pis]
         /\ \A r \in reregs' \ reregs : r.copy = record[r.on]
<1>1. CASE i \in live
  <2>1. i \in Instances /\ record[i] \in Known
      BY <1>1 DEF Typed, TablesTyped, FilesTyped, Known
  <2>2. reregs' = reregs \cup {[on |-> i, by |-> by, copy |-> record[i]]} /\ heartbeat' = heartbeat
      BY <1>1 DEF ReRegister
  <2> QED BY <2>1, <2>2 DEF Typed, PresenceTyped, Reregs
<1>2. CASE i \notin live
    BY <1>2, BoundsAreNat DEF ReRegister, Typed, PresenceTyped, Pis
<1> QED BY <1>1, <1>2

LEMMA ForgottenTyped ==
  ASSUME Typed, (\E i \in Instances : HeartbeatMissed(i)) \/ RadiusForgets
                \/ MachineForgotten \/ MachineNext
  PROVE  Typed'
<1> DEFINE Kept ==
      /\ heartbeat' \in [Instances -> Pis] /\ misses' \in [Instances -> 0..NotFoundThreshold]
      /\ beats' \in SUBSET Instances /\ machine' \in SUBSET Instances
      /\ reregs' \in SUBSET Reregs /\ remote' \in SUBSET Pis
      /\ faults' \in 0..MaxFaults
<1>1. UNCHANGED <<process, file, tables, request, exits, pis, spawned, received, history>>
    BY DEF HeartbeatMissed, RadiusForgets, MachineForgotten, MachineNext, counts
<1>2. Kept
  <2>1. ASSUME NEW i \in Instances, HeartbeatMissed(i) PROVE Kept
    <3>1. /\ beats' = beats \/ beats' = beats \ {i}
          /\ \/ /\ misses[i] + 1 < NotFoundThreshold
                /\ misses' = [misses EXCEPT ![i] = misses[i] + 1] /\ UNCHANGED <<reregs, heartbeat>>
             \/ ReRegister(i, "heartbeat") /\ UNCHANGED misses
          /\ UNCHANGED <<machine, remote, counts>>
        BY <2>1 DEF HeartbeatMissed, Typed, PresenceTyped
    <3>2. reregs' \in SUBSET Reregs /\ heartbeat' \in [Instances -> Pis]
        BY <3>1, ReRegisterTyped DEF Typed, PresenceTyped
    <3>3. misses' \in [Instances -> 0..NotFoundThreshold]
      <4>1. misses[i] \in 0..NotFoundThreshold BY DEF Typed, PresenceTyped
      <4>2. misses[i] + 1 < NotFoundThreshold => misses[i] + 1 \in 0..NotFoundThreshold
          BY <4>1, BoundsAreNat
      <4> QED BY <3>1, <4>2 DEF Typed, PresenceTyped
    <3> QED BY <3>1, <3>2, <3>3 DEF Typed, PresenceTyped, CountsTyped, counts
  <2>2. ASSUME RadiusForgets \/ MachineForgotten PROVE Kept
    <3>1. /\ Fault /\ UNCHANGED <<heartbeat, misses, beats, reregs>>
          /\ machine' = machine \/ machine' = live
          /\ remote' = {} \/ \E p \in remote : remote' = remote \ {p}
        BY <2>2 DEF RadiusForgets, MachineForgotten
    <3> QED BY <3>1, FaultCounts DEF Typed, PresenceTyped, TablesTyped
  <2>3. ASSUME MachineNext PROVE Kept
    <3>1. /\ machine' = machine \ {Least(machine)} /\ ReRegister(Least(machine), "machine")
          /\ UNCHANGED <<misses, beats, remote, counts>>
        BY <2>3 DEF MachineNext
    <3>2. reregs' \in SUBSET Reregs /\ heartbeat' \in [Instances -> Pis]
        BY <3>1, ReRegisterTyped
    <3> QED BY <3>1, <3>2 DEF Typed, PresenceTyped, CountsTyped, counts
  <2> QED BY <2>1, <2>2, <2>3
<1>3. PresenceTyped' BY <1>1, <1>2 DEF Typed, PresenceTyped
<1>4. CountsTyped' BY <1>1, <1>2 DEF Typed, CountsTyped, history
<1> QED BY <1>1, <1>3, <1>4 DEF Typed, ProcessTyped, FilesTyped, TablesTyped, RequestsTyped,
        Spawned, Busy, process, tables

LEMMA ReRegisteredTyped ==
  ASSUME Typed, NEW r \in reregs, ReRegistered(r)
  PROVE  Typed'
<1> DEFINE rec == [r.copy EXCEPT !.pi = pis + 1]
<1>1. r \in Reregs /\ r.on \in Instances /\ r.copy \in Known
    BY DEF Typed, PresenceTyped, Reregs
<1>2. /\ reregs' = reregs \ {r}
      /\ UNCHANGED <<process, live, rpc, bound, child, request, exits, beats,
                     machine, spawned, received, leaked, lost>>
    BY DEF ReRegistered
<1>3. CASE /\ StartHeartbeat(r.on) /\ Granted(r.on)
           /\ file' = [file EXCEPT ![r.on] = rec]
           /\ IF r.on \in live THEN record' = [record EXCEPT ![r.on] = rec]
                                    /\ pi' = [pi EXCEPT ![r.on] = rec.pi]
              ELSE UNCHANGED <<record, pi>>
           /\ UNCHANGED faults
  <2>1. pis + 1 \in Pis BY <1>1, <1>3, GrantEffects
  <2>2. rec \in Known /\ rec.pi = pis + 1
      BY <1>1, <2>1, RecordOps DEF Known
  <2> HIDE DEF rec
  <2>3. FilesTyped' BY <1>1, <1>2, <1>3, <2>2 DEF Typed, FilesTyped, TablesTyped, Known
  <2>4. TablesTyped' BY <1>1, <1>2, <1>3, <2>1, <2>2 DEF Typed, TablesTyped
  <2>5. PresenceTyped' BY <1>1, <1>2, <1>3, GrantEffects DEF Typed, PresenceTyped
  <2>6. CountsTyped' BY <1>1, <1>2, <1>3, GrantEffects DEF Typed, CountsTyped
  <2> QED BY <1>2, <2>3, <2>4, <2>5, <2>6 DEF Typed, ProcessTyped, RequestsTyped, Spawned, Busy, process
<1>4. CASE /\ Refused
           /\ UNCHANGED <<file, record, pi, heartbeat, misses, remote, pis, late, lost, owner>>
  <2>1. CountsTyped' BY <1>2, <1>4, FaultCounts DEF Typed, CountsTyped
  <2> QED BY <1>2, <1>4, <2>1 DEF Typed, ProcessTyped, FilesTyped, TablesTyped, RequestsTyped,
        PresenceTyped, Spawned, Busy, process
<1> QED BY <1>3, <1>4 DEF ReRegistered

LEMMA TypedStep == Typed /\ [Next]_vars => Typed'
<1> SUFFICES ASSUME Typed, [Next]_vars PROVE Typed'
    OBVIOUS
<1>1. ASSUME NEW h \in Handlers, SpawnLost(h) PROVE Typed'
    BY <1>1, FailSpawnTyped, FaultCounts DEF SpawnLost, Busy, At
<1>2. ASSUME NEW h \in Handlers, RegisterFails(h) PROVE Typed'
    BY <1>2, FailSpawnTyped, FaultCounts DEF RegisterFails, Busy, At
<1>3. ASSUME NEW h \in Handlers, Continue(h) PROVE Typed'
    BY <1>1, <1>3, GotStateTyped, ContinueTyped, FinishTyped DEF Continue
<1>4. ASSUME Radius PROVE Typed'
    BY <1>2, <1>4, DisconnectedTyped, RegisteredTyped, ExitDisconnectedTyped, ForgottenTyped,
       ReRegisteredTyped DEF Radius
<1>5. ASSUME UNCHANGED vars PROVE Typed'
    BY <1>5 DEF Typed, ProcessTyped, FilesTyped, TablesTyped, RequestsTyped, PresenceTyped,
        CountsTyped, Spawned, Busy, vars, process, tables, presence, counts, history
<1> QED BY <1>3, <1>4, <1>5, SpawnTyped, StopTyped, HandleRpcTyped, ChildExitsTyped,
        ChildAnswersTyped, SignalTyped, ShutdownNextTyped, ShutdownEndsTyped, CrashTyped,
        RecoverTyped, ForgottenTyped DEF Next

\* The types of the daemon's state hold whatever its clients, its children and
\* Radius do (TypeOK is preserved together with Spawned: what is about an
\* instance is about one that was spawned).
THEOREM TypeCorrect == Spec => []TypeOK
<1>1. Spec => []Typed BY TypedInit, TypedStep, PTL DEF Spec
<1> QED BY <1>1, TypedImpliesTypeOK, PTL

-----------------------------------------------------------------------------
(* Children.                                                               *)

Asking == OnChild \cup {"got_state", "got_rpc", "got_sync"}
Leaving == {"disconnect", "dispose", "finish"}

UpOwned == \A i \in Instances : child[i] = "up" => i \in (live \cap rpc) \cup leaked
TermAwaited ==
    \A i \in Instances : child[i] = "term" => \E h \in Handlers : request[h].on = i /\ At(h, "dispose")
\* What a handler's place says of the child it deals with.
PlaceOfChild(h) ==
    LET i == request[h].on IN
    /\ At(h, "disconnect") /\ ~request[h].held => i \notin rpc
    /\ At(h, "dispose") => child[i] # "up"
    /\ At(h, "finish") => child[i] # "up" \/ i \in leaked
    /\ request[h].at \in Asking => child[i] # "exited"
Children ==
    /\ UpOwned /\ TermAwaited
    /\ \A h \in Handlers : PlaceOfChild(h)
    /\ \A x \in exits : child[x.on] = "exited"

LEMMA ChildrenAnswer == Typed /\ Children => NoOrphan /\ NoWaitOnDead
<1> SUFFICES ASSUME Typed, Children PROVE NoOrphan /\ NoWaitOnDead
    OBVIOUS
<1>1. NoOrphan BY DEF Children, UpOwned, TermAwaited, NoOrphan
<1>2. NoWaitOnDead BY DEF Children, PlaceOfChild, NoWaitOnDead, Asking
<1> QED BY <1>1, <1>2

LEMMA ChildrenInit == Init => Children
<1> SUFFICES ASSUME Init PROVE Children
    OBVIOUS
<1>1. \A h \in Handlers : request[h].at = "idle" BY DEF Init, Idle
<1>2. \A h \in Handlers : PlaceOfChild(h)
    BY <1>1 DEF PlaceOfChild, At, Asking, OnChild
<1> QED BY <1>2 DEF Init, Children, UpOwned, TermAwaited

\* A request that is not disposing of a child may go where it asks nothing of a
\* child that has exited and does not leave.
Harmless(g) ==
    \/ request'[g] = request[g]
    \/ /\ ~At(g, "dispose") /\ request'[g].at \notin Leaving
       /\ request'[g].at \in Asking => child[request'[g].on] # "exited"

LEMMA ChildrenStay ==
  ASSUME Typed, Children, UNCHANGED <<rpc, child>>, leaked \subseteq leaked',
         \A i \in live \ live' : child[i] # "up" \/ i \in leaked,
         exits' \subseteq exits, \A g \in Handlers : Harmless(g)
  PROVE  Children'
<1>1. UpOwned' BY DEF Children, UpOwned, Typed, TablesTyped
<1>2. TermAwaited'
  <2> SUFFICES ASSUME NEW i \in Instances, child[i] = "term"
               PROVE  \E h \in Handlers : request'[h].on = i /\ At(h, "dispose")'
      BY DEF TermAwaited
  <2>1. PICK h \in Handlers : request[h].on = i /\ At(h, "dispose")
      BY DEF Children, TermAwaited
  <2>2. request'[h] = request[h] BY <2>1 DEF Harmless
  <2> QED BY <2>1, <2>2 DEF At
<1>3. ASSUME NEW g \in Handlers PROVE PlaceOfChild(g)'
  <2>1. PlaceOfChild(g) BY DEF Children
  <2>2. CASE request'[g] = request[g] BY <2>1, <2>2 DEF PlaceOfChild, At
  <2>3. CASE /\ ~At(g, "dispose") /\ request'[g].at \notin Leaving
             /\ request'[g].at \in Asking => child[request'[g].on] # "exited"
      BY <2>3 DEF PlaceOfChild, At, Leaving
  <2> QED BY <2>2, <2>3 DEF Harmless
<1> QED BY <1>1, <1>2, <1>3 DEF Children

LEMMA ChildrenDisposed ==
  ASSUME Typed, Children, NEW h \in Handlers, NEW i \in Instances, NEW held \in BOOLEAN,
         Disposed(h, i, held), ~held => i \notin rpc, ~At(h, "dispose"),
         live' = live, exits' = exits, leaked' = leaked
  PROVE  Children'
<1>1. /\ rpc' \subseteq rpc /\ rpc \ {i} \subseteq rpc'
      /\ \A j \in Instances \ {i} : child'[j] = child[j]
      /\ held => child'[i] = IF child[i] = "up" THEN "term" ELSE child[i]
      /\ held => request'[h].at = IF child[i] = "exited" THEN "finish" ELSE "dispose"
      /\ ~held => child' = child /\ request'[h].at = "finish"
      /\ request'[h].on = i
    BY DEF Disposed
<1>2. \A g \in Handlers \ {h} :
         request'[g] = request[g] \/ (At(g, "lost")' /\ request[g].at \in OnChild)
  <2>1. \A g \in Handlers \ {h} : request'[g] = request[g] \/ Rejected(g, i)
      BY DEF Disposed, OthersKept
  <2>2. ASSUME NEW g \in Handlers \ {h}, Rejected(g, i)
        PROVE  At(g, "lost")' /\ request[g].at \in OnChild
    <3>1. request[g] \in Asked /\ "lost" \in Places BY DEF Typed, RequestsTyped, Places, Micro
    <3> QED BY <2>2, <3>1, RequestOps DEF Rejected, At
  <2> QED BY <2>1, <2>2 DEF At
<1>3. UpOwned'
  <2> SUFFICES ASSUME NEW j \in Instances, child'[j] = "up" PROVE j \in (live' \cap rpc') \cup leaked'
      BY DEF UpOwned
  <2>1. child[j] = "up" /\ (j = i => ~held) BY <1>1
  <2>2. j \in (live \cap rpc) \cup leaked BY <2>1 DEF Children, UpOwned
  <2> QED BY <1>1, <2>1, <2>2
<1>4. TermAwaited'
  <2> SUFFICES ASSUME NEW j \in Instances, child'[j] = "term"
               PROVE  \E g \in Handlers : request'[g].on = j /\ At(g, "dispose")'
      BY DEF TermAwaited
  <2>1. CASE child[j] = "term"
    <3>1. PICK g \in Handlers : request[g].on = j /\ At(g, "dispose")
        BY <2>1 DEF Children, TermAwaited
    <3>2. request'[g] = request[g] BY <1>2, <3>1 DEF At, OnChild
    <3> QED BY <3>1, <3>2 DEF At
  <2>2. CASE child[j] # "term"
    <3>1. j = i /\ held /\ child[i] = "up" BY <1>1, <2>2
    <3> QED BY <1>1, <3>1 DEF At
  <2> QED BY <2>1, <2>2
<1>5. ASSUME NEW g \in Handlers PROVE PlaceOfChild(g)'
  <2>1. PlaceOfChild(g) BY DEF Children
  <2>2. CASE g # h /\ request'[g] = request[g]
    <3>1. request[g].at # "idle" => request[g].on \in Instances
        BY HandlerOf DEF Busy
    <3>2. request[g].on \in Instances =>
            /\ child'[request[g].on] = "up" => child[request[g].on] = "up"
            /\ child'[request[g].on] = "exited" => child[request[g].on] = "exited"
        BY <1>1
    <3> QED BY <1>1, <2>1, <2>2, <3>1, <3>2 DEF PlaceOfChild, At, Asking, OnChild
  <2>3. CASE g # h /\ At(g, "lost")'
      BY <2>3 DEF PlaceOfChild, At, Asking, OnChild
  <2>4. CASE g = h
    <3>1. child[i] = "up" /\ ~held => i \in leaked BY DEF Children, UpOwned
    <3>2. CASE held BY <1>1, <2>4, <3>2 DEF PlaceOfChild, At, Asking, OnChild
    <3>3. CASE ~held BY <1>1, <2>4, <3>1, <3>3 DEF PlaceOfChild, At, Asking, OnChild
    <3> QED BY <3>2, <3>3
  <2> QED BY <1>2, <2>2, <2>3, <2>4
<1>6. \A x \in exits' : child'[x.on] = "exited"
  <2> SUFFICES ASSUME NEW x \in exits PROVE child'[x.on] = "exited"
      OBVIOUS
  <2>1. child[x.on] = "exited" /\ x.on \in Instances
      BY DEF Children, Typed, RequestsTyped, Exits
  <2> QED BY <1>1, <2>1
<1> QED BY <1>3, <1>4, <1>5, <1>6 DEF Children

LEMMA ChildrenCleaned ==
  ASSUME Typed, Children, NEW h \in Handlers, NEW i \in Instances, NEW op,
         CleaningUp(h, i, op), ~At(h, "dispose"),
         live' = live, exits' = exits, leaked' = leaked
  PROVE  Children'
<1>1. CASE pi[i] = 0
  <2>1. Disposed(h, i, i \in rpc) BY <1>1 DEF CleaningUp
  <2>2. CASE i \in rpc
    <3>1. Disposed(h, i, TRUE) BY <2>1, <2>2 DEF Disposed
    <3> QED BY <3>1, ChildrenDisposed
  <2>3. CASE i \notin rpc
    <3>1. Disposed(h, i, FALSE) BY <2>1, <2>3 DEF Disposed
    <3> QED BY <2>3, <3>1, ChildrenDisposed
  <2> QED BY <2>2, <2>3
<1>2. CASE pi[i] # 0
  <2>1. /\ rpc' = rpc /\ child' = child /\ request'[h].at = "disconnect" /\ request'[h].on = i
        /\ request'[h].held = (i \in rpc)
        /\ \A g \in Handlers \ {h} : request'[g] = request[g]
      BY <1>2 DEF CleaningUp
  <2>2. UpOwned' BY <2>1 DEF Children, UpOwned
  <2>3. TermAwaited'
    <3> SUFFICES ASSUME NEW j \in Instances, child[j] = "term"
                 PROVE  \E g \in Handlers : request'[g].on = j /\ At(g, "dispose")'
        BY <2>1 DEF TermAwaited
    <3>1. PICK g \in Handlers : request[g].on = j /\ At(g, "dispose")
        BY DEF Children, TermAwaited
    <3> QED BY <2>1, <3>1 DEF At
  <2>4. ASSUME NEW g \in Handlers PROVE PlaceOfChild(g)'
    <3>1. CASE g # h BY <2>1, <3>1 DEF Children, PlaceOfChild, At
    <3>2. CASE g = h BY <2>1, <3>2 DEF PlaceOfChild, At, Asking, OnChild
    <3> QED BY <3>1, <3>2
  <2> QED BY <2>1, <2>2, <2>3, <2>4 DEF Children
<1> QED BY <1>1, <1>2

LEMMA SpawnChildren ==
  ASSUME Typed, Children, NEW h \in Requests, Spawn(h)
  PROVE  Children'
<1> DEFINE i == spawned + 1
<1>1. /\ received' = received + 1 /\ h = received + 1
      /\ live' = live \cup {i} /\ rpc' = rpc \cup {i}
      /\ child' = [child EXCEPT ![i] = "up"]
      /\ request' = [request EXCEPT ![h] = Asks("spawn", i, "get_state")]
      /\ exits' = exits /\ leaked' = leaked /\ spawned < MaxSpawns
    BY DEF Spawn, Receive, history
<1>2. /\ i \in Instances /\ i \notin 1..spawned /\ spawned \in Nat /\ received \in Nat
    BY <1>1, BoundsAreNat DEF Typed, CountsTyped, Instances
<1> HIDE DEF i
<1>3. h \in Handlers /\ ~Busy(h) BY <1>1, <1>2, HandlerSets DEF Typed, Spawned
<1>4. Asks("spawn", i, "get_state").on = i /\ Asks("spawn", i, "get_state").at = "get_state"
    BY <1>2, AskedNew DEF Ops, Places, OnChild
<1>5. /\ request'[h].on = i /\ request'[h].at = "get_state"
      /\ \A g \in Handlers \ {h} : request'[g] = request[g]
    BY <1>1, <1>3, <1>4 DEF Typed, RequestsTyped
<1>6. child'[i] = "up" /\ \A j \in Instances \ {i} : child'[j] = child[j]
    BY <1>1, <1>2 DEF Typed, TablesTyped
<1>7. child[i] = "none" BY <1>2 DEF Typed, Spawned
<1>8. UpOwned' BY <1>1, <1>6 DEF Children, UpOwned
<1>9. TermAwaited'
  <2> SUFFICES ASSUME NEW j \in Instances, child'[j] = "term"
               PROVE  \E g \in Handlers : request'[g].on = j /\ At(g, "dispose")'
      BY DEF TermAwaited
  <2>1. child[j] = "term" BY <1>6
  <2>2. PICK g \in Handlers : request[g].on = j /\ At(g, "dispose")
      BY <2>1 DEF Children, TermAwaited
  <2>3. request'[g] = request[g] BY <1>3, <1>5, <2>2 DEF At, Busy
  <2> QED BY <2>2, <2>3 DEF At
<1>10. ASSUME NEW g \in Handlers PROVE PlaceOfChild(g)'
  <2>1. CASE g = h BY <1>5, <1>6, <2>1 DEF PlaceOfChild, At, Asking, OnChild
  <2>2. CASE g # h /\ Busy(g)
    <3>1. request[g].on \in Instances \ {i} BY <1>2, <2>2, HandlerOf
    <3> QED BY <1>1, <1>5, <1>6, <2>2, <3>1 DEF Children, PlaceOfChild, At
  <2>3. CASE g # h /\ ~Busy(g)
      BY <1>5, <2>3 DEF PlaceOfChild, At, Busy, Asking, OnChild
  <2> QED BY <2>1, <2>2, <2>3
<1>11. \A x \in exits' : child'[x.on] = "exited"
  <2> SUFFICES ASSUME NEW x \in exits PROVE child'[x.on] = "exited"
      BY <1>1
  <2>1. child[x.on] = "exited" /\ x.on \in Instances
      BY DEF Children, Typed, RequestsTyped, Exits
  <2> QED BY <1>6, <1>7, <2>1
<1> QED BY <1>8, <1>9, <1>10, <1>11 DEF Children

LEMMA ExitsChildren ==
  ASSUME Typed, Children, NEW i \in Instances, ChildExits(i)
  PROVE  Children'
<1>1. /\ child' = [child EXCEPT ![i] = "exited"] /\ leaked' = leaked /\ Quiet
      /\ rpc' \subseteq rpc /\ rpc \ {i} \subseteq rpc' /\ live \ {i} \subseteq live'
      /\ exits' = exits \/ exits' = exits \cup {[on |-> i, pi |-> record[i].pi]}
    BY DEF ChildExits, Forget, history
<1>2. child'[i] = "exited" /\ \A j \in Instances \ {i} : child'[j] = child[j]
    BY <1>1 DEF Typed, TablesTyped
<1>3. \A g \in Handlers : request[g] \in Asked BY DEF Typed, RequestsTyped
<1>4. ASSUME NEW g \in Handlers
      PROVE  \/ request[g].on = i /\ request'[g].on = i /\ request'[g].at = "finish"
             \/ request'[g].at = "lost"
             \/ /\ request'[g] = request[g]
                /\ ~(request[g].on = i /\ request[g].at \in OnChild \cup {"dispose"})
  <2>1. "finish" \in Places /\ "lost" \in Places BY DEF Places, Micro
  <2>2. CASE /\ request[g].on = i /\ At(g, "dispose")
             /\ request'[g] = [request[g] EXCEPT !.at = "finish"]
      BY <1>3, <2>1, <2>2, RequestOps
  <2>3. CASE Rejected(g, i) BY <1>3, <2>1, <2>3, RequestOps DEF Rejected
  <2> QED BY <2>2, <2>3, ExitEffects
<1>5. UpOwned' BY <1>1, <1>2 DEF Children, UpOwned
<1>6. TermAwaited'
  <2> SUFFICES ASSUME NEW j \in Instances, child'[j] = "term"
               PROVE  \E g \in Handlers : request'[g].on = j /\ At(g, "dispose")'
      BY DEF TermAwaited
  <2>1. j # i /\ child[j] = "term" BY <1>2
  <2>2. PICK g \in Handlers : request[g].on = j /\ At(g, "dispose")
      BY <2>1 DEF Children, TermAwaited
  <2>3. request'[g] = request[g]
    <3>1. ~Rejected(g, i) /\ ~(request[g].on = i) BY <2>1, <2>2 DEF Rejected
    <3> QED BY <3>1, ExitEffects
  <2> QED BY <2>2, <2>3 DEF At
<1>7. ASSUME NEW g \in Handlers PROVE PlaceOfChild(g)'
  <2>0. PlaceOfChild(g) /\ request[g].at \notin Micro BY <1>1 DEF Children, Quiet
  <2>1. CASE request[g].on = i /\ request'[g].on = i /\ request'[g].at = "finish"
      BY <1>2, <2>1 DEF PlaceOfChild, At, Asking, OnChild
  <2>2. CASE request'[g].at = "lost"
      BY <2>2 DEF PlaceOfChild, At, Asking, OnChild
  <2>3. CASE /\ request'[g] = request[g]
             /\ ~(request[g].on = i /\ request[g].at \in OnChild \cup {"dispose"})
    <3>1. CASE request[g].on = i
      <4>1. request[g].at \notin Asking \cup {"dispose", "finish"}
          BY <2>0, <2>3, <3>1 DEF Asking, Micro
      <4> QED BY <1>1, <2>0, <2>3, <4>1 DEF PlaceOfChild, At
    <3>2. CASE request[g].on # i /\ Busy(g)
      <4>1. request[g].on \in Instances \ {i} BY <3>2, HandlerOf
      <4> QED BY <1>1, <1>2, <2>0, <2>3, <4>1 DEF PlaceOfChild, At
    <3>3. CASE ~Busy(g) BY <2>3, <3>3 DEF PlaceOfChild, At, Busy, Asking, OnChild
    <3> QED BY <3>1, <3>2, <3>3
  <2> QED BY <1>4, <2>1, <2>2, <2>3
<1>8. \A x \in exits' : child'[x.on] = "exited"
  <2>1. ASSUME NEW x \in exits PROVE child'[x.on] = "exited"
    <3>1. child[x.on] = "exited" /\ x.on \in Instances
        BY DEF Children, Typed, RequestsTyped, Exits
    <3> QED BY <1>2, <3>1
  <2> QED BY <1>1, <1>2, <2>1
<1> QED BY <1>5, <1>6, <1>7, <1>8 DEF Children

LEMMA DisconnectedChildren ==
  ASSUME Typed, Children, NEW h \in Handlers, Disconnected(h)
  PROVE  Children'
<1> DEFINE i == request[h].on
<1>0. Busy(h) /\ At(h, "disconnect") BY DEF Disconnected, At, Busy
<1>1. i \in Instances /\ request[h] \in Asked BY <1>0, HandlerOf
<1>2. live' = live /\ exits' = exits BY DEF Disconnected
<1>3. CASE Dispose(h, request[h]) /\ leaked' = leaked
  <2>1. Disposed(h, i, request[h].held) BY <1>1, <1>3, DisposeEffects
  <2>2. request[h].held \in BOOLEAN BY <1>1, RequestOps
  <2>3. ~request[h].held => i \notin rpc BY <1>0 DEF Children, PlaceOfChild
  <2>4. ~At(h, "dispose") BY <1>0 DEF At
  <2> QED BY <1>1, <1>2, <1>3, <2>1, <2>2, <2>3, <2>4, ChildrenDisposed
<1>4. CASE /\ leaked' = leaked \cup {i}
           /\ request' = [request EXCEPT ![h].at = "finish", ![h].ok = FALSE]
           /\ UNCHANGED <<rpc, child>>
  <2> DEFINE new == [request[h] EXCEPT !.at = "finish", !.ok = FALSE]
  <2>1. new \in Asked /\ new.on = i /\ new.at = "finish"
      BY <1>1 DEF Asked, Places, Micro
  <2>2. request' = [request EXCEPT ![h] = new]
      BY <1>4 DEF Typed, RequestsTyped
  <2> HIDE DEF new
  <2>3. /\ request'[h].on = i /\ request'[h].at = "finish"
        /\ \A g \in Handlers \ {h} : request'[g] = request[g]
      BY <2>1, <2>2 DEF Typed, RequestsTyped
  <2>4. UpOwned' BY <1>2, <1>4 DEF Children, UpOwned
  <2>5. TermAwaited'
    <3> SUFFICES ASSUME NEW j \in Instances, child[j] = "term"
                 PROVE  \E g \in Handlers : request'[g].on = j /\ At(g, "dispose")'
        BY <1>4 DEF TermAwaited
    <3>1. PICK g \in Handlers : request[g].on = j /\ At(g, "dispose")
        BY DEF Children, TermAwaited
    <3> QED BY <1>0, <2>3, <3>1 DEF At
  <2>6. ASSUME NEW g \in Handlers PROVE PlaceOfChild(g)'
    <3>1. CASE g # h
      <4>1. PlaceOfChild(g) BY DEF Children
      <4>2. request'[g] = request[g] /\ rpc' = rpc /\ child' = child /\ leaked \subseteq leaked'
          BY <1>4, <2>3, <3>1
      <4> QED BY <4>1, <4>2 DEF PlaceOfChild, At
    <3>2. CASE g = h BY <1>4, <2>3, <3>2 DEF PlaceOfChild, At, Asking, OnChild
    <3> QED BY <3>1, <3>2
  <2> QED BY <1>2, <1>4, <2>4, <2>5, <2>6 DEF Children
<1> QED BY <1>3, <1>4 DEF Disconnected

LEMMA ResetChildren ==
  ASSUME Typed, Reset
  PROVE  Children'
<1>1. \A g \in Handlers : request'[g].at = "idle" BY DEF Reset, Idle
<1>2. \A g \in Handlers : PlaceOfChild(g)' BY <1>1 DEF PlaceOfChild, At, Asking, OnChild
<1> QED BY <1>2 DEF Reset, Children, UpOwned, TermAwaited

LEMMA HarmlessSteps ==
  ASSUME Typed, Children,
         \/ \E h \in Handlers : GotState(h) \/ GotResponse(h) \/ Synced(h) \/ RpcLost(h) \/ Finish(h)
         \/ \E h \in Handlers : Registered(h) \/ ChildAnswers(h)
         \/ \E h \in Requests, i \in Instances, meta \in BOOLEAN : HandleRpc(h, i, meta)
         \/ \E x \in exits : ExitDisconnected(x)
  PROVE  Children'
<1>1. ASSUME NEW h \in Handlers, GotState(h) PROVE Children'
  <2>1. /\ Goto(h, "register") /\ UNCHANGED <<live, rpc, child, exits, leaked>> /\ At(h, "got_state")
      BY <1>1 DEF GotState, history
  <2>2. \A g \in Handlers : Harmless(g)
      BY <2>1, GotoEffects DEF Harmless, At, Places, Asking, Leaving, OnChild
  <2> QED BY <2>1, <2>2, ChildrenStay
<1>2. ASSUME NEW h \in Handlers, GotResponse(h) \/ Synced(h) \/ RpcLost(h) PROVE Children'
  <2>1. /\ UNCHANGED <<live, rpc, child, exits, leaked>>
        /\ Done(h) \/ (At(h, "got_rpc") /\ Goto(h, "sync"))
        /\ ~At(h, "dispose")
      BY <1>2 DEF GotResponse, Synced, RpcLost, tables, history, At
  <2>2. \A g \in Handlers : Harmless(g)
    <3>1. CASE Done(h) BY <2>1, <3>1, DoneEffects DEF Harmless, Asking, Leaving, OnChild
    <3>2. CASE At(h, "got_rpc") /\ Goto(h, "sync")
      <4>1. child[request[h].on] # "exited"
          BY <3>2 DEF Children, PlaceOfChild, Asking, At
      <4> QED BY <2>1, <3>2, <4>1, GotoEffects DEF Harmless, At, Places, Asking, Leaving, OnChild
    <3> QED BY <2>1, <3>1, <3>2
  <2> QED BY <2>1, <2>2, ChildrenStay
<1>3. ASSUME NEW h \in Handlers, Finish(h) PROVE Children'
  <2>1. /\ Done(h) /\ At(h, "finish") /\ live' = live \ {request[h].on}
        /\ UNCHANGED <<rpc, child, exits, leaked>>
      BY <1>3 DEF Finish, Finally, Forget, history
  <2>2. \A g \in Handlers : Harmless(g)
      BY <2>1, DoneEffects DEF Harmless, Asking, Leaving, OnChild, At
  <2>3. \A i \in live \ live' : child[i] # "up" \/ i \in leaked
      BY <2>1 DEF Children, PlaceOfChild
  <2> QED BY <2>1, <2>2, <2>3, ChildrenStay
<1>4. ASSUME NEW h \in Handlers, Registered(h) PROVE Children'
  <2>1. /\ Done(h) /\ At(h, "register") /\ UNCHANGED <<live, rpc, child, exits, leaked>>
      BY <1>4 DEF Registered
  <2>2. \A g \in Handlers : Harmless(g)
      BY <2>1, DoneEffects DEF Harmless, Asking, Leaving, OnChild, At
  <2> QED BY <2>1, <2>2, ChildrenStay
<1>5. ASSUME NEW h \in Handlers, ChildAnswers(h) PROVE Children'
  <2>1. /\ request[h].at \in OnChild /\ child[request[h].on] \in {"up", "term"}
        /\ UNCHANGED <<live, rpc, child, exits, leaked>>
        /\ \E a \in {"got_state", "got_rpc", "got_sync"} : Goto(h, a)
      BY <1>5 DEF ChildAnswers, OnChild, tables, history
  <2>2. PICK a \in {"got_state", "got_rpc", "got_sync"} : Goto(h, a) BY <2>1
  <2>3. a \in Places BY DEF Places, Micro
  <2>4. \A g \in Handlers : Harmless(g)
      BY <2>1, <2>2, <2>3, GotoEffects DEF Harmless, At, Asking, Leaving, OnChild
  <2> QED BY <2>1, <2>4, ChildrenStay
<1>6. ASSUME NEW h \in Requests, NEW i \in Instances, NEW meta \in BOOLEAN, HandleRpc(h, i, meta)
      PROVE  Children'
  <2>1. /\ received' = received + 1 /\ h = received + 1 /\ child[i] \in {"up", "term"}
        /\ request' = [request EXCEPT ![h] = [Asks("rpc", i, "rpc") EXCEPT !.meta = meta]]
        /\ UNCHANGED <<live, rpc, child, exits, leaked>>
      BY <1>6 DEF HandleRpc, Receive, tables, history
  <2>2. received \in Nat BY BoundsAreNat DEF Typed, CountsTyped
  <2>3. h \in Handlers /\ ~Busy(h) BY <2>1, <2>2, HandlerSets DEF Typed, Spawned
  <2>4. /\ [Asks("rpc", i, "rpc") EXCEPT !.meta = meta].on = i
        /\ [Asks("rpc", i, "rpc") EXCEPT !.meta = meta].at = "rpc"
      BY AskedNew DEF Ops, Places, OnChild
  <2>5. /\ request'[h].on = i /\ request'[h].at = "rpc"
        /\ \A g \in Handlers \ {h} : request'[g] = request[g]
      BY <2>1, <2>3, <2>4 DEF Typed, RequestsTyped
  <2>6. \A g \in Handlers : Harmless(g)
      BY <2>1, <2>3, <2>5 DEF Harmless, At, Busy, Asking, Leaving, OnChild
  <2> QED BY <2>1, <2>6, ChildrenStay
<1>7. ASSUME NEW x \in exits, ExitDisconnected(x) PROVE Children'
  <2>1. /\ live' = live \ {x.on} /\ exits' = exits \ {x} /\ leaked \subseteq leaked'
        /\ UNCHANGED <<rpc, child, request>>
      BY <1>7 DEF ExitDisconnected, Forget
  <2>2. child[x.on] = "exited" BY DEF Children
  <2> QED BY <2>1, <2>2, ChildrenStay DEF Harmless
<1> QED BY <1>1, <1>2, <1>3, <1>4, <1>5, <1>6, <1>7

LEMMA StopChildren ==
  ASSUME Typed, Children, NEW h \in Handlers, NEW i, StopInstance(h, i), ~Busy(h)
  PROVE  Children'
<1>1. /\ i \in live /\ CleanUp(h, i, "stop") /\ UNCHANGED <<live, exits, leaked>>
    BY DEF StopInstance, history
<1>2. i \in Instances BY <1>1 DEF Typed, TablesTyped
<1>3. CleaningUp(h, i, "stop") BY <1>1, <1>2, CleanUpEffects DEF Ops
<1>4. ~At(h, "dispose") BY DEF At, Busy
<1> QED BY <1>1, <1>2, <1>3, <1>4, ChildrenCleaned

LEMMA FailChildren ==
  ASSUME Typed, Children, NEW h \in Handlers, FailSpawn(h), Busy(h), ~At(h, "dispose")
  PROVE  Children'
<1> DEFINE i == request[h].on
<1>1. CleanUp(h, i, "spawn") /\ UNCHANGED <<live, exits, leaked>>
    BY DEF FailSpawn, history
<1>2. i \in Instances BY HandlerOf
<1>3. CleaningUp(h, i, "spawn") BY <1>1, <1>2, CleanUpEffects DEF Ops
<1> QED BY <1>1, <1>2, <1>3, ChildrenCleaned

LEMMA ChildrenStep == Typed /\ Children /\ [Next]_vars => Children'
<1> SUFFICES ASSUME Typed, Children, [Next]_vars PROVE Children'
    OBVIOUS
<1>1. ASSUME NEW h \in Handlers, Continue(h) PROVE Children'
  <2>1. ASSUME SpawnLost(h) PROVE Children' BY <2>1, FailChildren DEF SpawnLost, Busy, At
  <2> QED BY <1>1, <2>1, HarmlessSteps DEF Continue
<1>2. ASSUME NEW h \in Requests, NEW i \in Instances, Stop(h, i) PROVE Children'
  <2>1. StopInstance(h, i) /\ h = received + 1 BY <1>2 DEF Stop, Receive
  <2>2. received \in Nat BY BoundsAreNat DEF Typed, CountsTyped
  <2>3. ~Busy(h) BY <2>1, <2>2 DEF Typed, Spawned
  <2> QED BY <2>1, <2>3, HandlerSets, StopChildren
<1>3. ASSUME UNCHANGED <<tables, request, exits, leaked>> PROVE Children'
    BY <1>3, ChildrenStay DEF Harmless, tables
<1>4. ASSUME ShutdownNext PROVE Children'
  <2>1. ASSUME StopInstance(Shutdown, Least(closing)), At(Shutdown, "idle") PROVE Children'
      BY <2>1, HandlerSets, StopChildren DEF Busy, At
  <2> QED BY <1>3, <1>4, <2>1 DEF ShutdownNext, history
<1>5. ASSUME ShutdownEnds PROVE Children'
    BY <1>3, <1>5, ResetChildren DEF ShutdownEnds, history
<1>6. ASSUME Signal \/ RecoverAfterRestart \/ RecoverNext \/ RadiusForgets \/ MachineForgotten
             \/ MachineNext \/ (\E i \in Instances : HeartbeatMissed(i)) \/ UNCHANGED vars
      PROVE  Children'
    BY <1>3, <1>6 DEF Signal, RecoverAfterRestart, RecoverNext, RadiusForgets, MachineForgotten,
        MachineNext, HeartbeatMissed, vars, history
<1>7. ASSUME Radius PROVE Children'
  <2>1. ASSUME NEW h \in Handlers, RegisterFails(h) PROVE Children'
      BY <2>1, FailChildren DEF RegisterFails, Busy, At
  <2>2. ASSUME NEW r \in reregs, ReRegistered(r) PROVE Children'
    <3>1. UNCHANGED <<live, rpc, child, request, exits, leaked>> BY <2>2 DEF ReRegistered
    <3> QED BY <3>1, ChildrenStay DEF Harmless
  <2> QED BY <1>6, <1>7, <2>1, <2>2, HarmlessSteps, DisconnectedChildren DEF Radius
<1>8. ASSUME Crash PROVE Children' BY <1>8, ResetChildren DEF Crash
<1> QED BY <1>1, <1>2, <1>4, <1>5, <1>6, <1>7, <1>8, SpawnChildren, ExitsChildren, HarmlessSteps
        DEF Next

\* Every child has someone to end it, unless an error of disconnectPi() made the
\* clean-up skip dispose(): what runs is a live instance's, what was sent
\* SIGTERM has a handler that waits to send SIGKILL.
THEOREM ChildrenHaveOwners == Spec => []NoOrphan
<1>1. Spec => []Typed BY TypedInit, TypedStep, PTL DEF Spec
<1>2. Spec => []Children BY <1>1, ChildrenInit, ChildrenStep, PTL DEF Spec
<1> QED BY <1>1, <1>2, ChildrenAnswer, PTL

\* No request is left waiting for a child that has exited: whoever exits or is
\* disposed of rejects what is pending, and nothing asks a dead child again.
THEOREM NobodyWaitsForTheDead == Spec => []NoWaitOnDead
<1>1. Spec => []Typed BY TypedInit, TypedStep, PTL DEF Spec
<1>2. Spec => []Children BY <1>1, ChildrenInit, ChildrenStep, PTL DEF Spec
<1> QED BY <1>1, <1>2, ChildrenAnswer, PTL

-----------------------------------------------------------------------------
(* Statuses, in memory and in the file.                                    *)

Active == {"starting", "online"}
Running == {"up", "stopping", "spinning"}

\* What list and status report is the same.
Same == \A i \in live \ lost : file[i].status = record[i].status
\* A record says that an instance is there only if its child runs and is watched.
Alive ==
    \A i \in Instances \ late :
        record[i].status \in Active => i \in live \cap bound /\ child[i] = "up"
\* Who lets go of an instance has recorded it.
Left ==
    \A h \in Handlers : request[h].at \in Leaving =>
        request[h].on \in late \/ record[request[h].on].status \notin Active
\* The file never says more than memory, once what a crash left is recovered.
Written ==
    daemon \in Running => \A i \in Instances \ late :
        file[i].status \in Active => record[i].status \in Active
Listed == daemon = "recovering" => \A i \in Instances : recovery.list[i].status \notin Active
ShutdownStops == Busy(Shutdown) => daemon = "stopping"
StatusesHold == Same /\ Alive /\ Left /\ Written /\ Listed /\ ShutdownStops

LEMMA StatusesAnswer == Typed /\ StatusesHold => FileAgrees /\ NoGhost
<1> SUFFICES ASSUME Typed, StatusesHold PROVE FileAgrees /\ NoGhost
    OBVIOUS
<1>1. FileAgrees BY DEF StatusesHold, Same, FileAgrees
<1>2. NoGhost BY DEF StatusesHold, Alive, Written, NoGhost, Active, Running
<1> QED BY <1>1, <1>2

LEMMA StatusesInit == Init => StatusesHold
<1> SUFFICES ASSUME Init PROVE StatusesHold
    OBVIOUS
<1>1. NoRecord.status = "none" /\ Idle.at = "idle" BY DEF NoRecord, Idle
<1> QED BY <1>1, HandlerSets DEF Init, StatusesHold, Same, Alive, Left, Written, Listed, ShutdownStops,
        Active, Leaving, Busy

\* Steps that grant no registration, spawn nothing and keep the process: each
\* record keeps its status and the file its own or the record's, or both say
\* that the instance is gone.
Kept(j) ==
    \/ /\ record'[j].status = record[j].status
       /\ file'[j].status \in {file[j].status, record[j].status}
    \/ /\ record'[j].status \notin Active /\ file'[j].status \notin Active
       /\ j \in live' => file'[j].status = record'[j].status

LEMMA StatusesKept ==
  ASSUME Typed, StatusesHold, \A j \in Instances : Kept(j),
         late \subseteq late', lost \subseteq lost', live' \subseteq live,
         \A j \in Instances \ late' :
            record'[j].status \in Active /\ j \in live \cap bound /\ child[j] = "up"
              => j \in live' \cap bound' /\ child'[j] = "up",
         \A g \in Handlers : request'[g].at \in Leaving =>
            /\ request'[g].on \in Instances
            /\ \/ request[g].at \in Leaving /\ request[g].on = request'[g].on
               \/ request'[g].on \in late'
               \/ record'[request'[g].on].status \notin Active,
         daemon' = daemon \/ {daemon, daemon'} \subseteq Running,
         daemon' = "recovering" => recovery' = recovery,
         ShutdownStops'
  PROVE  StatusesHold'
<1>0. live \subseteq Instances BY DEF Typed, TablesTyped
<1>1. Same'
  <2> SUFFICES ASSUME NEW i \in live' \ lost' PROVE file'[i].status = record'[i].status
      BY DEF Same
  <2>1. file[i].status = record[i].status /\ Kept(i) BY <1>0 DEF StatusesHold, Same
  <2> QED BY <2>1 DEF Kept
<1>2. Alive'
  <2> SUFFICES ASSUME NEW i \in Instances \ late', record'[i].status \in Active
               PROVE  i \in live' \cap bound' /\ child'[i] = "up"
      BY DEF Alive
  <2>1. record[i].status \in Active BY DEF Kept
  <2> QED BY <2>1 DEF StatusesHold, Alive
<1>3. Left'
  <2> SUFFICES ASSUME NEW h \in Handlers, request'[h].at \in Leaving
               PROVE  request'[h].on \in late' \/ record'[request'[h].on].status \notin Active
      BY DEF Left
  <2>1. CASE request[h].at \in Leaving /\ request[h].on = request'[h].on
    <3>1. Kept(request[h].on) BY <2>1
    <3> QED BY <2>1, <3>1 DEF StatusesHold, Left, Kept
  <2> QED BY <2>1
<1>4. Written'
  <2> SUFFICES ASSUME daemon' \in Running, NEW i \in Instances \ late', file'[i].status \in Active
               PROVE  record'[i].status \in Active
      BY DEF Written
  <2>1. daemon \in Running OBVIOUS
  <2>2. file[i].status \in Active => record[i].status \in Active
      BY <2>1 DEF StatusesHold, Written
  <2>3. Kept(i) OBVIOUS
  <2> QED BY <2>2, <2>3 DEF Kept
<1>5. Listed' BY DEF StatusesHold, Listed, Running
<1> QED BY <1>1, <1>2, <1>3, <1>4, <1>5 DEF StatusesHold

LEMMA CleaningStatuses ==
  ASSUME Typed, StatusesHold, NEW h \in Handlers, NEW i \in 1..spawned, NEW op,
         NEW s \in Statuses \ Active,
         SetStatus(i, s), CleaningUp(h, i, op),
         UNCHANGED <<live, late, lost, daemon, recovery>>,
         h = Shutdown => Busy(h) \/ daemon = "stopping"
  PROVE  StatusesHold'
<1>1. i \in Instances BY BoundsAreNat DEF Typed, CountsTyped, Instances
<1>2. /\ record'[i].status = s /\ file'[i].status = s
      /\ \A j \in Instances \ {i} : record'[j] = record[j] /\ file'[j] = file[j]
    BY <1>1, StatusEffects
<1>3. \A j \in Instances : Kept(j) BY <1>2 DEF Kept
<1>4. /\ bound' = bound \ {i} /\ \A j \in Instances \ {i} : child'[j] = child[j]
      /\ request'[h].on = i
      /\ \A g \in Handlers \ {h} : request'[g] = request[g] \/ Rejected(g, i)
    BY DEF CleaningUp, Disposed, OthersKept
<1>5. ASSUME NEW g \in Handlers, request'[g].at \in Leaving
      PROVE  /\ request'[g].on \in Instances
             /\ \/ request[g].at \in Leaving /\ request[g].on = request'[g].on
                \/ record'[request'[g].on].status \notin Active
  <2>1. CASE g = h BY <1>1, <1>2, <1>4, <2>1
  <2>2. CASE request'[g] = request[g]
    <3>1. Busy(g) BY <1>5, <2>2 DEF Busy, Leaving
    <3> QED BY <1>5, <2>2, <3>1, HandlerOf
  <2>3. CASE Rejected(g, i)
    <3>1. request[g] \in Asked /\ "lost" \in Places BY DEF Typed, RequestsTyped, Places, Micro
    <3>2. request'[g].at = "lost" BY <2>3, <3>1, RequestOps DEF Rejected
    <3> QED BY <1>5, <3>2 DEF Leaving
  <2> QED BY <1>4, <2>1, <2>2, <2>3
<1>6. ShutdownStops'
  <2>1. Busy(Shutdown)' => Busy(Shutdown) \/ Shutdown = h
      BY <1>1, CleaningSpawned, HandlerSets
  <2> QED BY <2>1 DEF StatusesHold, ShutdownStops
<1>7. ASSUME NEW j \in Instances \ late', record'[j].status \in Active,
             j \in live \cap bound, child[j] = "up"
      PROVE  j \in live' \cap bound' /\ child'[j] = "up"
    BY <1>2, <1>4, <1>7
<1> QED BY <1>3, <1>5, <1>6, <1>7, StatusesKept

LEMMA FailStatuses ==
  ASSUME Typed, StatusesHold, NEW h \in Handlers, FailSpawn(h), Busy(h)
  PROVE  StatusesHold'
<1> DEFINE i == request[h].on
<1>1. i \in Instances /\ i \in 1..spawned BY HandlerOf
<1>2. /\ SetStatus(i, "error") /\ CleanUp(h, i, "spawn")
      /\ UNCHANGED <<live, late, lost, daemon, recovery>>
    BY DEF FailSpawn, process, history
<1> HIDE DEF i
<1>3. CleaningUp(h, i, "spawn") BY <1>1, <1>2, CleanUpEffects DEF Ops
<1>4. "error" \in Statuses \ Active BY DEF Statuses, Active
<1> QED BY <1>1, <1>2, <1>3, <1>4, CleaningStatuses

LEMMA StopStatuses ==
  ASSUME Typed, StatusesHold, NEW h \in Handlers, NEW i, StopInstance(h, i),
         h = Shutdown => daemon = "stopping"
  PROVE  StatusesHold'
<1>1. /\ i \in live /\ SetStatus(i, "stopping") /\ CleanUp(h, i, "stop")
      /\ UNCHANGED <<live, late, lost, daemon, recovery>>
    BY DEF StopInstance, history
<1>2. i \in Instances /\ i \in 1..spawned BY <1>1 DEF Typed, TablesTyped, Spawned
<1>3. CleaningUp(h, i, "stop") BY <1>1, <1>2, CleanUpEffects DEF Ops
<1>4. "stopping" \in Statuses \ Active BY DEF Statuses, Active
<1> QED BY <1>1, <1>2, <1>3, <1>4, CleaningStatuses

\* Steps that change no status: requests move, none begins to leave.
LEMMA StatusesCalm ==
  ASSUME Typed, StatusesHold,
         \A j \in Instances : /\ record'[j].status = record[j].status
                              /\ file'[j].status \in {file[j].status, record[j].status},
         UNCHANGED <<live, bound, child, late, lost>>,
         \A g \in Handlers : request'[g].at \in Leaving =>
            request[g].at \in Leaving /\ request[g].on = request'[g].on,
         daemon' = daemon \/ {daemon, daemon'} \subseteq Running,
         daemon' = "recovering" => recovery' = recovery,
         ShutdownStops'
  PROVE  StatusesHold'
<1>1. \A j \in Instances : Kept(j) BY DEF Kept
<1>2. \A g \in Handlers : request'[g].at \in Leaving => request'[g].on \in Instances
  <2> SUFFICES ASSUME NEW g \in Handlers, request'[g].at \in Leaving PROVE request'[g].on \in Instances
      OBVIOUS
  <2>1. Busy(g) BY DEF Busy, Leaving
  <2> QED BY <2>1, HandlerOf
<1> QED BY <1>1, <1>2, StatusesKept

LEMMA ContinueStatuses ==
  ASSUME Typed, StatusesHold, NEW h \in Handlers,
         GotState(h) \/ GotResponse(h) \/ Synced(h) \/ RpcLost(h)
  PROVE  StatusesHold'
<1> DEFINE i == request[h].on
<1>1. Busy(h) BY DEF GotState, GotResponse, Synced, RpcLost, At, Busy
<1>2. i \in Instances BY <1>1, HandlerOf
<1>3. record[i] \in Records /\ (i \in live => record[i] \in Known)
    BY <1>2 DEF Typed, FilesTyped, Known
<1>4. /\ Put(i, record[i]) \/ UNCHANGED <<file, record>>
      /\ (\E a \in {"sync", "register"} : Goto(h, a)) \/ Done(h)
      /\ UNCHANGED <<process, live, bound, child, late, lost>>
    BY DEF GotState, GotResponse, Synced, RpcLost, tables, history
<1>5. \A j \in Instances : /\ record'[j].status = record[j].status
                           /\ file'[j].status \in {file[j].status, record[j].status}
  <2>1. CASE UNCHANGED <<file, record>> BY <2>1
  <2>2. CASE Put(i, record[i]) 
    <3> HIDE DEF i
    <3> QED BY <1>2, <1>3, <2>2, PutEffects
  <2> QED BY <1>4, <2>1, <2>2
<1> DEFINE Went ==
      /\ request'[h].at \in {"sync", "register", "idle"}
      /\ \A g \in Handlers \ {h} : request'[g] = request[g]
<1>6. Went
  <2>1. {"sync", "register"} \subseteq Places BY DEF Places, OnChild
  <2>2. ASSUME NEW a \in {"sync", "register"}, Goto(h, a) PROVE Went
      BY <2>1, <2>2, GotoEffects
  <2>3. CASE Done(h) BY <2>3, DoneEffects
  <2> QED BY <1>4, <2>2, <2>3
<1>7. ShutdownStops'
    BY <1>1, <1>4, <1>6, HandlerSets DEF StatusesHold, ShutdownStops, Busy, process
<1>8. \A g \in Handlers : request'[g].at \in Leaving =>
            request[g].at \in Leaving /\ request[g].on = request'[g].on
    BY <1>6 DEF Leaving
<1> QED BY <1>4, <1>5, <1>7, <1>8, StatusesCalm DEF process

LEMMA CalmStatuses ==
  ASSUME Typed, StatusesHold,
         \/ \E h \in Handlers : ChildAnswers(h)
         \/ \E h \in Requests, i \in Instances, meta \in BOOLEAN : HandleRpc(h, i, meta)
         \/ Signal
         \/ daemon' = "spinning" /\ ShutdownEnds
         \/ UNCHANGED <<file, record, live, bound, child, late, lost, request, daemon, recovery>>
  PROVE  StatusesHold'
<1>1. ASSUME NEW h \in Handlers, ChildAnswers(h) PROVE StatusesHold'
  <2>1. /\ request[h].at \in OnChild /\ UNCHANGED <<process, file, record, live, bound, child, late, lost>>
        /\ \E a \in {"got_state", "got_rpc", "got_sync"} : Goto(h, a)
      BY <1>1 DEF ChildAnswers, OnChild, tables, history
  <2>2. PICK a \in {"got_state", "got_rpc", "got_sync"} : Goto(h, a) BY <2>1
  <2>3. a \in Places BY DEF Places, Micro
  <2>4. /\ request'[h].at = a /\ \A g \in Handlers \ {h} : request'[g] = request[g]
      BY <2>2, <2>3, GotoEffects
  <2>5. ShutdownStops'
      BY <2>1, <2>4, HandlerSets DEF StatusesHold, ShutdownStops, Busy, OnChild, process
  <2> QED BY <2>1, <2>4, <2>5, StatusesCalm DEF Leaving, process
<1>2. ASSUME NEW h \in Requests, NEW i \in Instances, NEW meta \in BOOLEAN, HandleRpc(h, i, meta)
      PROVE  StatusesHold'
  <2>1. /\ request' = [request EXCEPT ![h] = [Asks("rpc", i, "rpc") EXCEPT !.meta = meta]]
        /\ UNCHANGED <<process, file, record, live, bound, child, late, lost>>
      BY <1>2 DEF HandleRpc, tables, history
  <2>2. [Asks("rpc", i, "rpc") EXCEPT !.meta = meta].at = "rpc"
      BY AskedNew DEF Ops, Places, OnChild
  <2>3. /\ request'[h].at = "rpc" /\ \A g \in Handlers \ {h} : request'[g] = request[g]
        /\ h # Shutdown
      BY <2>1, <2>2, HandlerSets DEF Typed, RequestsTyped
  <2>4. ShutdownStops'
      BY <2>1, <2>3, HandlerSets DEF StatusesHold, ShutdownStops, Busy, process
  <2> QED BY <2>1, <2>3, <2>4, StatusesCalm DEF Leaving, process
<1>3. ASSUME Signal PROVE StatusesHold'
  <2>1. /\ daemon = "up" /\ daemon' = "stopping"
        /\ UNCHANGED <<recovery, file, record, live, bound, child, late, lost, request>>
      BY <1>3 DEF Signal, tables, history
  <2>2. ShutdownStops' BY <2>1 DEF ShutdownStops
  <2> QED BY <2>1, <2>2, StatusesCalm DEF Running
<1>4. ASSUME daemon' = "spinning", ShutdownEnds PROVE StatusesHold'
  <2>1. /\ daemon = "stopping" /\ At(Shutdown, "idle")
        /\ UNCHANGED <<recovery, file, record, live, bound, child, late, lost, request>>
      BY <1>4 DEF ShutdownEnds, tables, history
  <2>2. ShutdownStops' BY <2>1 DEF ShutdownStops, Busy, At
  <2> QED BY <1>4, <2>1, <2>2, StatusesCalm DEF Running
<1>5. ASSUME UNCHANGED <<file, record, live, bound, child, late, lost, request, daemon, recovery>>
      PROVE  StatusesHold'
  <2>1. ShutdownStops' BY <1>5 DEF StatusesHold, ShutdownStops, Busy
  <2> QED BY <1>5, <2>1, StatusesCalm
<1> QED BY <1>1, <1>2, <1>3, <1>4, <1>5

LEMMA FinishStatuses ==
  ASSUME Typed, StatusesHold, NEW h \in Handlers, Finish(h)
  PROVE  StatusesHold'
<1> DEFINE i == request[h].on
<1>1. Busy(h) BY DEF Finish, At, Busy
<1>2. i \in Instances BY <1>1, HandlerOf
<1>3. /\ Finally(h) /\ Done(h)
      /\ daemon' = IF h = Shutdown /\ ~request[h].ok THEN "spinning" ELSE daemon
      /\ UNCHANGED <<recovery, bound, child, late, lost>>
    BY DEF Finish, history
<1>4. /\ record'[i].status = "stopped" /\ file'[i].status \in {"stopped", "none"}
      /\ \A j \in Instances \ {i} : record'[j] = record[j] /\ file'[j] = file[j]
      /\ live' = live \ {i}
    BY <1>1, <1>3, FinallyEffects
<1> HIDE DEF i
<1>5. \A j \in Instances : Kept(j) BY <1>4 DEF Kept, Active
<1>6. /\ request'[h].at = "idle" /\ \A g \in Handlers \ {h} : request'[g] = request[g]
    BY <1>3, DoneEffects
<1>7. \A g \in Handlers : request'[g].at \in Leaving =>
            /\ request'[g].on \in Instances
            /\ request[g].at \in Leaving /\ request[g].on = request'[g].on
  <2> SUFFICES ASSUME NEW g \in Handlers, request'[g].at \in Leaving
               PROVE  request'[g] = request[g] /\ Busy(g)
      BY HandlerOf
  <2> QED BY <1>6 DEF Busy, Leaving
<1>8. ShutdownStops'
    BY <1>1, <1>3, <1>6, HandlerSets DEF StatusesHold, ShutdownStops, Busy
<1>9. daemon' = daemon \/ {daemon, daemon'} \subseteq Running
    BY <1>1, <1>3 DEF StatusesHold, ShutdownStops, Running
<1>10. ASSUME NEW j \in Instances, record'[j].status \in Active, j \in live \cap bound, child[j] = "up"
       PROVE  j \in live' \cap bound' /\ child'[j] = "up"
    BY <1>3, <1>4, <1>10 DEF Active
<1>11. live' \subseteq live BY <1>4
<1> QED BY <1>3, <1>5, <1>7, <1>8, <1>9, <1>10, <1>11, StatusesKept

LEMMA DisconnectedStatuses ==
  ASSUME Typed, StatusesHold, NEW h \in Handlers, Disconnected(h)
  PROVE  StatusesHold'
<1> DEFINE i == request[h].on
<1>1. Busy(h) /\ request[h].at \in Leaving BY DEF Disconnected, At, Busy, Leaving
<1>2. i \in Instances /\ request[h] \in Asked BY <1>1, HandlerOf
<1>3. UNCHANGED <<process, file, live, bound, late, lost>> BY DEF Disconnected
<1>4. /\ \A j \in Instances : record'[j].status = record[j].status
      /\ \A j \in Instances \ {i} : child'[j] = child[j]
      /\ request'[h].on = i
      /\ \A g \in Handlers \ {h} : request'[g] = request[g] \/ Rejected(g, i)
  <2>1. CASE record' = [record EXCEPT ![i].pi = 0] /\ Dispose(h, request[h])
    <3>1. Disposed(h, i, request[h].held) BY <1>2, <2>1, DisposeEffects
    <3>2. record' = [record EXCEPT ![i] = [record[i] EXCEPT !.pi = 0]] /\ record[i] \in Records
        BY <1>2, <2>1 DEF Typed, FilesTyped
    <3> HIDE DEF i
    <3>3. \A j \in Instances : record'[j].status = record[j].status
        BY <1>2, <3>2, RecordOps DEF Typed, FilesTyped
    <3> QED BY <3>1, <3>3 DEF Disposed, OthersKept
  <2>2. CASE /\ request' = [request EXCEPT ![h].at = "finish", ![h].ok = FALSE]
             /\ UNCHANGED <<record, child>>
    <3>1. request' = [request EXCEPT ![h] = [request[h] EXCEPT !.at = "finish", !.ok = FALSE]]
        BY <2>2 DEF Typed, RequestsTyped
    <3>2. [request[h] EXCEPT !.at = "finish", !.ok = FALSE].on = i BY <1>2 DEF Asked
    <3> HIDE DEF i
    <3> QED BY <2>2, <3>1, <3>2 DEF Typed, RequestsTyped
  <2> QED BY <2>1, <2>2 DEF Disconnected
<1> HIDE DEF i
<1>5. \A j \in Instances : Kept(j) BY <1>3, <1>4 DEF Kept
<1>6. ASSUME NEW g \in Handlers, request'[g].at \in Leaving
      PROVE  /\ request'[g].on \in Instances
             /\ request[g].at \in Leaving /\ request[g].on = request'[g].on
  <2>1. CASE g = h BY <1>1, <1>2, <1>4, <2>1 DEF i
  <2>2. CASE request'[g] = request[g]
    <3>1. Busy(g) BY <1>6, <2>2 DEF Busy, Leaving
    <3> QED BY <1>6, <2>2, <3>1, HandlerOf
  <2>3. CASE Rejected(g, i)
    <3>1. request[g] \in Asked /\ "lost" \in Places BY DEF Typed, RequestsTyped, Places, Micro
    <3>2. request'[g].at = "lost" BY <2>3, <3>1, RequestOps DEF Rejected
    <3> QED BY <1>6, <3>2 DEF Leaving
  <2> QED BY <1>4, <2>1, <2>2, <2>3
<1>7. ShutdownStops'
  <2>1. Busy(Shutdown)' => Busy(Shutdown)
    <3>1. CASE Shutdown = h BY <1>1, <3>1
    <3>2. CASE Rejected(Shutdown, i) BY <3>2 DEF Rejected, Busy, OnChild
    <3>3. CASE request'[Shutdown] = request[Shutdown] BY <3>3 DEF Busy
    <3> QED BY <1>4, <3>1, <3>2, <3>3, HandlerSets
  <2> QED BY <1>3, <2>1 DEF StatusesHold, ShutdownStops, process
<1>8. ASSUME NEW j \in Instances \ late', record'[j].status \in Active,
             j \in live \cap bound, child[j] = "up"
      PROVE  j \in live' \cap bound' /\ child'[j] = "up"
  <2>1. j # i BY <1>1, <1>3, <1>4, <1>8 DEF StatusesHold, Left, i
  <2> QED BY <1>3, <1>4, <1>8, <2>1
<1> QED BY <1>3, <1>5, <1>6, <1>7, <1>8, StatusesKept DEF process

LEMMA ExitsStatuses ==
  ASSUME Typed, StatusesHold, NEW i \in Instances, ChildExits(i)
  PROVE  StatusesHold'
<1>1. /\ child' = [child EXCEPT ![i] = "exited"] /\ UNCHANGED <<process, late, lost>>
    BY DEF ChildExits, history
<1>2. \A j \in Instances \ {i} : child'[j] = child[j]
    BY <1>1 DEF Typed, TablesTyped
<1>3. /\ \A j \in Instances : Kept(j)
      /\ live' \subseteq live /\ live \ {i} \subseteq live' /\ bound \ {i} \subseteq bound'
      /\ i \in live \cap bound => record'[i].status \notin Active
  <2>1. CASE Unexpected(i)
    <3>1. /\ SetStatus(i, "error") /\ bound' = bound \ {i} /\ (live' = live \/ live' = live \ {i})
        BY <2>1 DEF ChildExits, Forget
    <3>2. /\ record'[i].status = "error" /\ file'[i].status = "error"
          /\ \A j \in Instances \ {i} : record'[j] = record[j] /\ file'[j] = file[j]
        BY <3>1, StatusEffects DEF Statuses
    <3> QED BY <3>1, <3>2 DEF Kept, Active
  <2>2. CASE ~Unexpected(i)
    <3>1. UNCHANGED <<file, live, record, bound>> BY <2>2 DEF ChildExits
    <3> QED BY <2>2, <3>1 DEF Kept, Unexpected, Active
  <2> QED BY <2>1, <2>2
<1>4. ASSUME NEW g \in Handlers, request'[g].at \in Leaving
      PROVE  /\ request'[g].on \in Instances
             /\ request[g].at \in Leaving /\ request[g].on = request'[g].on
  <2>1. request[g].at \in Leaving
    <3>1. request[g] \in Asked /\ "lost" \in Places BY DEF Typed, RequestsTyped, Places, Micro
    <3>2. CASE Rejected(g, i)
      <4>1. request'[g].at = "lost" BY <3>1, <3>2, RequestOps DEF Rejected
      <4> QED BY <1>4, <4>1 DEF Leaving
    <3>3. CASE At(g, "dispose") BY <3>3 DEF At, Leaving
    <3>4. CASE request'[g] = request[g] BY <1>4, <3>4
    <3> QED BY <3>2, <3>3, <3>4, ExitEffects
  <2>2. Busy(g) BY <2>1 DEF Busy, Leaving
  <2> QED BY <2>1, <2>2, HandlerOf, ExitEffects
<1>5. ShutdownStops'
    BY <1>1, HandlerSets, ExitEffects DEF StatusesHold, ShutdownStops, process
<1>6. ASSUME NEW j \in Instances \ late', record'[j].status \in Active,
             j \in live \cap bound, child[j] = "up"
      PROVE  j \in live' \cap bound' /\ child'[j] = "up"
    BY <1>2, <1>3, <1>6
<1> QED BY <1>1, <1>3, <1>4, <1>5, <1>6, StatusesKept DEF process

LEMMA ExitDisconnectedStatuses ==
  ASSUME Typed, Children, StatusesHold, NEW x \in exits, ExitDisconnected(x)
  PROVE  StatusesHold'
<1> DEFINE i == x.on
<1>1. i \in Instances /\ child[i] = "exited" BY DEF Typed, RequestsTyped, Exits, Children
<1>2. /\ live' = live \ {i} /\ UNCHANGED <<process, bound, child, request, late, lost>>
      /\ Put(i, [record[i] EXCEPT !.pi = 0]) \/ UNCHANGED <<file, record>>
    BY DEF ExitDisconnected, Forget
<1> HIDE DEF i
<1>3. /\ [record[i] EXCEPT !.pi = 0] \in Records
      /\ [record[i] EXCEPT !.pi = 0].status = record[i].status
      /\ i \in live => [record[i] EXCEPT !.pi = 0] \in Known
  <2>1. record[i] \in Records /\ (i \in live => record[i].status # "none")
      BY <1>1 DEF Typed, FilesTyped
  <2> QED BY <2>1, RecordOps DEF Known
<1>4. \A j \in Instances : Kept(j)
  <2>1. CASE UNCHANGED <<file, record>> BY <2>1 DEF Kept
  <2>2. CASE Put(i, [record[i] EXCEPT !.pi = 0])
      BY <1>1, <1>3, <2>2, PutEffects DEF Kept
  <2> QED BY <1>2, <2>1, <2>2
<1>5. ASSUME NEW g \in Handlers, request'[g].at \in Leaving
      PROVE  /\ request'[g].on \in Instances
             /\ request[g].at \in Leaving /\ request[g].on = request'[g].on
  <2>1. request[g].at \in Leaving BY <1>2, <1>5
  <2>2. Busy(g) BY <2>1 DEF Busy, Leaving
  <2> QED BY <1>2, <2>1, <2>2, HandlerOf
<1>6. ShutdownStops' BY <1>2 DEF StatusesHold, ShutdownStops, Busy, process
<1>7. ASSUME NEW j \in Instances \ late', record'[j].status \in Active,
             j \in live \cap bound, child[j] = "up"
      PROVE  j \in live' \cap bound' /\ child'[j] = "up"
    BY <1>1, <1>2, <1>7
<1>8. live' \subseteq live BY <1>2
<1> QED BY <1>2, <1>4, <1>5, <1>6, <1>7, <1>8, StatusesKept DEF process

\* A registration is granted to i: its record may come back to life, and then
\* i is late.
LEMMA GrantStatuses ==
  ASSUME Typed, StatusesHold, NEW i \in Instances, Granted(i),
         \A j \in Instances \ {i} : /\ record'[j].status = record[j].status
                                    /\ file'[j].status = file[j].status,
         i \in live => file'[i].status = record'[i].status,
         UNCHANGED <<live, bound, child, lost, daemon, recovery>>,
         \A g \in Handlers : request'[g].at # "idle" => request'[g] = request[g]
  PROVE  StatusesHold'
<1>1. /\ late' = late \/ late' = late \cup {i}
      /\ i \notin late' => i \in live /\ record[i].status \in Active
    BY DEF Granted, Active
<1>2. Same' BY <1>1 DEF StatusesHold, Same, Typed, TablesTyped
<1>3. Alive' BY <1>1 DEF StatusesHold, Alive
<1>4. Left'
  <2> SUFFICES ASSUME NEW g \in Handlers, request'[g].at \in Leaving
               PROVE  request'[g].on \in late' \/ record'[request'[g].on].status \notin Active
      BY DEF Left
  <2>1. request'[g] = request[g] BY DEF Leaving
  <2>2. request[g].on \in Instances BY <2>1, HandlerOf DEF Busy, Leaving
  <2>3. request[g].on \in late \/ record[request[g].on].status \notin Active
      BY <2>1 DEF StatusesHold, Left
  <2> QED BY <1>1, <2>1, <2>2, <2>3
<1>5. Written'
  <2> SUFFICES ASSUME daemon \in Running, NEW j \in Instances \ late', file'[j].status \in Active
               PROVE  record'[j].status \in Active
      BY DEF Written
  <2>1. CASE j = i BY <1>1, <2>1
  <2>2. CASE j # i BY <1>1, <2>2 DEF StatusesHold, Written
  <2> QED BY <2>1, <2>2
<1>6. Listed' BY DEF StatusesHold, Listed
<1>7. ShutdownStops' BY HandlerSets DEF StatusesHold, ShutdownStops, Busy
<1> QED BY <1>2, <1>3, <1>4, <1>5, <1>6, <1>7 DEF StatusesHold

LEMMA RegisteredStatuses ==
  ASSUME Typed, StatusesHold, NEW h \in Handlers, Registered(h)
  PROVE  StatusesHold'
<1> DEFINE i == request[h].on
<1>1. i \in Instances
  <2>1. Busy(h) BY DEF Registered, At, Busy
  <2> QED BY <2>1, HandlerOf
<1>2. /\ StartHeartbeat(i) /\ Granted(i) /\ Done(h)
      /\ Put(i, [status |-> "online", pi |-> pis + 1])
      /\ UNCHANGED <<live, bound, child, lost, daemon, recovery>>
    BY DEF Registered, process
<1> HIDE DEF i
<1>3. pis + 1 \in Pis BY <1>1, <1>2, GrantEffects
<1>4. [status |-> "online", pi |-> pis + 1] \in Known BY <1>3 DEF Known, Records, Statuses
<1>5. /\ record'[i] = file'[i]
      /\ \A j \in Instances \ {i} : record'[j] = record[j] /\ file'[j] = file[j]
    BY <1>1, <1>2, <1>4, PutEffects DEF Known
<1>6. \A g \in Handlers : request'[g].at # "idle" => request'[g] = request[g]
    BY <1>2, DoneEffects
<1> QED BY <1>1, <1>2, <1>5, <1>6, GrantStatuses

LEMMA ReRegisteredStatuses ==
  ASSUME Typed, StatusesHold, NEW r \in reregs, ReRegistered(r)
  PROVE  StatusesHold'
<1> DEFINE rec == [r.copy EXCEPT !.pi = pis + 1]
           i == r.on
<1>1. i \in Instances BY DEF Typed, PresenceTyped, Reregs
<1>2. UNCHANGED <<process, live, bound, child, request, lost>>
    BY DEF ReRegistered
<1>3. CASE /\ Granted(i)
           /\ file' = [file EXCEPT ![i] = rec]
           /\ IF i \in live THEN record' = [record EXCEPT ![i] = rec] ELSE record' = record
  <2> HIDE DEF rec, i
  <2>1. /\ \A j \in Instances \ {i} : record'[j] = record[j] /\ file'[j] = file[j]
        /\ i \in live => record'[i] = file'[i]
      BY <1>1, <1>3 DEF Typed, FilesTyped
  <2> QED BY <1>1, <1>2, <1>3, <2>1, GrantStatuses DEF process
<1>4. CASE UNCHANGED <<file, record, late>>
    BY <1>2, <1>4, CalmStatuses DEF process
<1> QED BY <1>3, <1>4 DEF ReRegistered

LEMMA SpawnStatuses ==
  ASSUME Typed, StatusesHold, NEW h \in Requests, Spawn(h)
  PROVE  StatusesHold'
<1> DEFINE i == spawned + 1
<1>1. /\ spawned < MaxSpawns
      /\ live' = live \cup {i} /\ bound' = bound \cup {i}
      /\ child' = [child EXCEPT ![i] = "up"]
      /\ Put(i, [status |-> "starting", pi |-> 0])
      /\ request' = [request EXCEPT ![h] = Asks("spawn", i, "get_state")]
      /\ UNCHANGED <<process, late, lost>>
    BY DEF Spawn, history
<1>2. /\ i \in Instances /\ i \notin 1..spawned
    BY <1>1, BoundsAreNat DEF Typed, CountsTyped, Instances
<1> HIDE DEF i
<1>3. [status |-> "starting", pi |-> 0] \in Known
    BY BoundsAreNat DEF Known, Records, Statuses, Pis
<1>4. /\ record'[i].status = "starting" /\ file'[i].status = "starting"
      /\ \A j \in Instances \ {i} : record'[j] = record[j] /\ file'[j] = file[j]
    BY <1>1, <1>2, <1>3, PutEffects DEF Known
<1>5. Asks("spawn", i, "get_state").at = "get_state"
    BY <1>2, AskedNew DEF Ops, Places, OnChild
<1>6. /\ request'[h].at = "get_state" /\ \A g \in Handlers \ {h} : request'[g] = request[g]
      /\ h # Shutdown
    BY <1>1, <1>5, HandlerSets DEF Typed, RequestsTyped
<1>7. child'[i] = "up" /\ \A j \in Instances \ {i} : child'[j] = child[j]
    BY <1>1, <1>2 DEF Typed, TablesTyped
<1>8. Same' BY <1>1, <1>2, <1>4 DEF StatusesHold, Same, Typed, TablesTyped
<1>9. Alive'
  <2> SUFFICES ASSUME NEW j \in Instances \ late, record'[j].status \in Active
               PROVE  j \in live' \cap bound' /\ child'[j] = "up"
      BY <1>1 DEF Alive
  <2>1. CASE j = i BY <1>1, <1>7, <2>1
  <2>2. CASE j # i BY <1>1, <1>4, <1>7, <2>2 DEF StatusesHold, Alive
  <2> QED BY <2>1, <2>2
<1>10. Left'
  <2> SUFFICES ASSUME NEW g \in Handlers, request'[g].at \in Leaving
               PROVE  request'[g].on \in late \/ record'[request'[g].on].status \notin Active
      BY <1>1 DEF Left
  <2>1. request'[g] = request[g] BY <1>6 DEF Leaving
  <2>2. request[g].on \in Instances \ {i} BY <1>2, <2>1, HandlerOf DEF Busy, Leaving
  <2>3. request[g].on \in late \/ record[request[g].on].status \notin Active
      BY <2>1 DEF StatusesHold, Left
  <2> QED BY <1>4, <2>1, <2>2, <2>3
<1>11. Written' BY <1>1, <1>4 DEF StatusesHold, Written, process, Active
<1>12. Listed' BY <1>1 DEF StatusesHold, Listed, process
<1>13. ShutdownStops' BY <1>1, <1>6, HandlerSets DEF StatusesHold, ShutdownStops, Busy, process
<1> QED BY <1>8, <1>9, <1>10, <1>11, <1>12, <1>13 DEF StatusesHold

LEMMA ResetStatuses ==
  ASSUME Typed, Reset, daemon' = "down"
  PROVE  StatusesHold'
<1>1. NoRecord.status = "none" /\ Idle.at = "idle" BY DEF NoRecord, Idle
<1>2. \A h \in Handlers : request'[h].at = "idle" BY <1>1 DEF Reset
<1>3. live' = {} /\ \A i \in Instances : record'[i].status \notin Active
    BY <1>1 DEF Reset, Active
<1>4. Left' BY <1>2 DEF Left, Leaving
<1>5. ShutdownStops' BY <1>2, HandlerSets DEF ShutdownStops, Busy
<1> QED BY <1>3, <1>4, <1>5 DEF StatusesHold, Same, Alive, Written, Listed, Running

LEMMA RecoverStatuses ==
  ASSUME Typed, StatusesHold, RecoverAfterRestart \/ RecoverNext
  PROVE  StatusesHold'
<1>1. ASSUME RecoverAfterRestart PROVE StatusesHold'
  <2> DEFINE list == [i \in Instances |-> Recovered(file[i])]
  <2>1. \A i \in Instances : list[i].status \notin Active
      BY RecoveredEffects DEF Typed, FilesTyped, Active
  <2>2. /\ daemon = "down"
        /\ \/ daemon' = "up" /\ file' = list
           \/ daemon' = "recovering" /\ recovery'.list = list /\ file' = file
        /\ UNCHANGED <<live, bound, child, record, request, late, lost>>
      BY <1>1 DEF RecoverAfterRestart, tables, history
  <2> HIDE DEF list
  <2>3. live = {} BY <2>2 DEF Typed, Spawned
  <2>4. Same' BY <2>2, <2>3 DEF Same
  <2>5. Alive' BY <2>2 DEF StatusesHold, Alive
  <2>6. Left' BY <2>2 DEF StatusesHold, Left
  <2>7. Written' BY <2>1, <2>2 DEF Written, Running
  <2>8. Listed' BY <2>1, <2>2 DEF Listed
  <2>9. ShutdownStops' BY <2>2 DEF StatusesHold, ShutdownStops, Busy
  <2> QED BY <2>4, <2>5, <2>6, <2>7, <2>8, <2>9 DEF StatusesHold
<1>2. ASSUME RecoverNext PROVE StatusesHold'
  <2>1. /\ daemon = "recovering"
        /\ \/ daemon' = "up" /\ file' = recovery.list /\ lost' = lost \cup live
           \/ daemon' = daemon /\ file' = file /\ lost' = lost /\ recovery'.list = recovery.list
        /\ UNCHANGED <<live, bound, child, record, request, late>>
      BY <1>2 DEF RecoverNext, tables, Typed, ProcessTyped
  <2>2. \A i \in Instances : recovery.list[i].status \notin Active
      BY <2>1 DEF StatusesHold, Listed
  <2>3. Same' BY <2>1 DEF StatusesHold, Same
  <2>4. Alive' BY <2>1 DEF StatusesHold, Alive
  <2>5. Left' BY <2>1 DEF StatusesHold, Left
  <2>6. Written' BY <2>1, <2>2 DEF Written, Running
  <2>7. Listed' BY <2>1, <2>2 DEF Listed
  <2>8. ShutdownStops' BY <2>1 DEF StatusesHold, ShutdownStops, Busy
  <2> QED BY <2>3, <2>4, <2>5, <2>6, <2>7, <2>8 DEF StatusesHold
<1> QED BY <1>1, <1>2

LEMMA StatusesStep == Typed /\ Children /\ StatusesHold /\ [Next]_vars => StatusesHold'
<1> SUFFICES ASSUME Typed, Children, StatusesHold, [Next]_vars PROVE StatusesHold'
    OBVIOUS
<1>1. ASSUME NEW h \in Handlers, Continue(h) PROVE StatusesHold'
  <2>1. ASSUME SpawnLost(h) PROVE StatusesHold' BY <2>1, FailStatuses DEF SpawnLost, Busy, At
  <2> QED BY <1>1, <2>1, ContinueStatuses, FinishStatuses DEF Continue
<1>2. ASSUME NEW h \in Requests, NEW i \in Instances, Stop(h, i) PROVE StatusesHold'
    BY <1>2, HandlerSets, StopStatuses DEF Stop
<1>3. ASSUME UNCHANGED <<file, record, live, bound, child, late, lost, request, daemon, recovery>>
      PROVE  StatusesHold'
    BY <1>3, CalmStatuses
<1>4. ASSUME ShutdownNext PROVE StatusesHold'
  <2>1. ASSUME StopInstance(Shutdown, Least(closing)), daemon = "stopping" PROVE StatusesHold'
      BY <2>1, HandlerSets, StopStatuses
  <2> QED BY <1>3, <1>4, <2>1 DEF ShutdownNext, tables, history
<1>5. ASSUME ShutdownEnds PROVE StatusesHold'
    BY <1>5, ResetStatuses, CalmStatuses DEF ShutdownEnds
<1>6. ASSUME RadiusForgets \/ MachineForgotten \/ MachineNext
             \/ (\E i \in Instances : HeartbeatMissed(i)) \/ UNCHANGED vars
      PROVE  StatusesHold'
    BY <1>3, <1>6 DEF RadiusForgets, MachineForgotten, MachineNext, HeartbeatMissed, vars, process,
        tables, history
<1>7. ASSUME Radius PROVE StatusesHold'
  <2>1. ASSUME NEW h \in Handlers, RegisterFails(h) PROVE StatusesHold'
      BY <2>1, FailStatuses DEF RegisterFails, Busy, At
  <2> QED BY <1>6, <1>7, <2>1, DisconnectedStatuses, RegisteredStatuses,
          ExitDisconnectedStatuses, ReRegisteredStatuses DEF Radius
<1>8. ASSUME Crash PROVE StatusesHold' BY <1>8, ResetStatuses DEF Crash
<1> QED BY <1>1, <1>2, <1>4, <1>5, <1>6, <1>7, <1>8, SpawnStatuses, ExitsStatuses, CalmStatuses,
        RecoverStatuses DEF Next

LEMMA SpecStatuses == Spec => [](Typed /\ Children /\ StatusesHold)
<1>1. Spec => []Typed BY TypedInit, TypedStep, PTL DEF Spec
<1>2. Spec => []Children BY <1>1, ChildrenInit, ChildrenStep, PTL DEF Spec
<1> QED BY <1>1, <1>2, StatusesInit, StatusesStep, PTL DEF Spec

\* What the daemon lists from the file and what it answers to a status request
\* from memory agree on every live instance whose record the file did not lose.
THEOREM FileFollowsMemory == Spec => []FileAgrees
<1>1. Typed /\ Children /\ StatusesHold => FileAgrees BY StatusesAnswer
<1> QED BY <1>1, SpecStatuses, PTL

\* The file names nobody as starting or online whose child does not run, but for
\* the instances that Radius registered when they were stopping or gone.
THEOREM NobodyHaunts == Spec => []NoGhost
<1>1. Typed /\ Children /\ StatusesHold => NoGhost BY StatusesAnswer
<1> QED BY <1>1, SpecStatuses, PTL

-----------------------------------------------------------------------------
(* Registrations at Radius.                                                *)

Newest(p) == p \in remote /\ \A later \in (p + 1)..pis : owner[later] # owner[p]
Excused(i) == i \in late \cup leaked \cup lost
On(h, i) == Busy(h) /\ request[h].on = i

\* An instance of an earlier life of the daemon: only the file speaks of it.
Remembered(i, p) ==
    /\ i \notin live /\ child[i] \notin {"up", "term"}
    /\ \A h \in Handlers : ~On(h, i)
    /\ \A x \in exits : x.on # i
    /\ daemon = "recovering" => recovery.list[i].pi = p
\* Who holds the Pi p of i: the file, and memory too while i is live; who lets
\* go of i disconnects p first.
Held(i, p) ==
    /\ file[i].pi = p
    /\ (i \in live /\ record[i].pi = p /\ pi[i] = p) \/ Remembered(i, p)
    /\ \A h \in Handlers : On(h, i) =>
        /\ request[h].at \notin {"dispose", "finish"}
        /\ request[h].at = "disconnect" => request[h].pi = p
    /\ \A x \in exits : x.on = i => x.pi = p
Registrations ==
    /\ remote \subseteq 1..pis
    /\ \A p \in 1..pis : owner[p] \in 1..spawned
    /\ \A r \in reregs : r.on \in 1..spawned
    /\ \A p \in remote : Newest(p) /\ ~Excused(owner[p]) => Held(owner[p], p)

LEMMA RegistrationsAnswer == Typed /\ Registrations => NoLeakedPi
BY DEF Registrations, Newest, Excused, Held, NoLeakedPi

LEMMA RegistrationsInit == Init => Registrations
BY DEF Init, Registrations

\* A step that grants nothing keeps the invariant if it keeps what is held.
LEMMA RegistrationsKept ==
  ASSUME Typed, Registrations, remote' \subseteq remote, UNCHANGED <<pis, owner>>,
         spawned' \in Nat, spawned <= spawned',
         late \subseteq late', leaked \subseteq leaked', lost \subseteq lost',
         \A r \in reregs' : r \in reregs \/ r.on \in live,
         \A i \in 1..spawned, p \in remote' :
            p \in 1..pis /\ ~Excused(i)' /\ Held(i, p) => Held(i, p)'
  PROVE  Registrations'
<1>1. spawned \in Nat /\ pis \in Nat
    BY BoundsAreNat DEF Typed, CountsTyped, PresenceTyped, Pis
<1>2. /\ remote' \subseteq 1..pis' /\ \A p \in 1..pis' : owner'[p] \in 1..spawned'
      /\ \A r \in reregs' : r.on \in 1..spawned'
  <2>1. 1..spawned \subseteq 1..spawned' BY <1>1
  <2>2. \A r \in reregs' : r.on \in 1..spawned BY DEF Registrations, Typed, Spawned
  <2> QED BY <2>1, <2>2 DEF Registrations
<1>3. ASSUME NEW p \in remote', Newest(p)', ~(owner'[p] \in late' \cup leaked' \cup lost')
      PROVE  \A i : i = owner'[p] => Held(i, p)'
  <2>1. PICK i : i = owner[p] OBVIOUS
  <2>2. Newest(p) BY <1>3 DEF Newest
  <2>3. ~Excused(i) /\ ~Excused(i)' BY <1>3, <2>1 DEF Excused
  <2>4. Held(i, p) BY <2>1, <2>2, <2>3 DEF Registrations
  <2>5. i \in 1..spawned /\ p \in 1..pis BY <2>1 DEF Registrations
  <2>6. Held(i, p)' BY <2>3, <2>4, <2>5
  <2> QED BY <2>1, <2>6
<1> QED BY <1>2, <1>3 DEF Registrations, Excused

\* What is held is held after a step that leaves i's records, child and
\* registration as they are.
Undisturbed(i, p) ==
    /\ file'[i].pi = p
    /\ (i \in live) = (i \in live')
    /\ record'[i].pi = record[i].pi /\ pi'[i] = pi[i]
    /\ child'[i] \in {"up", "term"} => child[i] \in {"up", "term"}
    /\ \A h \in Handlers : request'[h].at # "idle" /\ request'[h].on = i =>
        /\ On(h, i) \/ i \in live
        /\ \/ request'[h] = request[h]
           \/ request'[h].at \notin {"disconnect", "dispose", "finish"}
           \/ request'[h].at = "disconnect" /\ request'[h].pi = p
    /\ \A x \in exits' : x.on = i => x \in exits \/ (x.pi = p /\ i \in live)
    /\ daemon' = "recovering" => daemon = "recovering" /\ recovery'.list = recovery.list

LEMMA HeldUndisturbed ==
  ASSUME NEW i, NEW p, Held(i, p), Undisturbed(i, p)
  PROVE  Held(i, p)'
<1>1. CASE i \in live /\ record[i].pi = p /\ pi[i] = p
  <2>1. i \in live' /\ record'[i].pi = p /\ pi'[i] = p BY <1>1 DEF Undisturbed
  <2>2. \A h \in Handlers : On(h, i)' =>
            /\ request'[h].at \notin {"dispose", "finish"}
            /\ request'[h].at = "disconnect" => request'[h].pi = p
      BY DEF Undisturbed, Held, On, Busy
  <2>3. \A x \in exits' : x.on = i => x.pi = p BY DEF Undisturbed, Held
  <2> QED BY <2>1, <2>2, <2>3 DEF Held, Undisturbed
<1>2. CASE Remembered(i, p)
  <2>1. i \notin live /\ i \notin live' BY <1>2 DEF Remembered, Undisturbed
  <2>2. \A h \in Handlers : ~On(h, i)'
      BY <1>2, <2>1 DEF Undisturbed, Remembered, On, Busy
  <2>3. \A x \in exits' : x.on # i BY <1>2, <2>1 DEF Undisturbed, Remembered
  <2>4. Remembered(i, p)'
      BY <1>2, <2>1, <2>2, <2>3 DEF Undisturbed, Remembered
  <2> QED BY <2>2, <2>3, <2>4 DEF Held, Undisturbed
<1> QED BY <1>1, <1>2 DEF Held

\* What each step does to what i holds.
LEMMA ContinueHeld ==
  ASSUME Typed, NEW h \in Handlers,
         GotState(h) \/ GotResponse(h) \/ Synced(h) \/ RpcLost(h),
         NEW i \in 1..spawned, NEW p, Held(i, p)
  PROVE  Held(i, p)'
<1> DEFINE k == request[h].on
<1>1. Busy(h) BY DEF GotState, GotResponse, Synced, RpcLost, At, Busy
<1>2. k \in Instances /\ i \in Instances
    BY <1>1, HandlerOf, BoundsAreNat DEF Typed, CountsTyped, Instances
<1>3. /\ \/ UNCHANGED <<record, file>>
         \/ Put(k, record[k])
      /\ UNCHANGED <<live, pi, child, exits, daemon, recovery>>
    BY DEF GotState, GotResponse, Synced, RpcLost, tables, process
<1>4. /\ \A g \in Handlers \ {h} : request'[g] = request[g]
      /\ \/ request'[h].at = "idle"
         \/ request'[h].at \in {"register", "sync"} /\ request'[h].on = k
  <2>1. CASE Done(h) BY <2>1, DoneEffects
  <2>2. CASE Goto(h, "register")
      BY <2>2, GotoEffects DEF Places
  <2>3. CASE Goto(h, "sync")
      BY <2>3, GotoEffects DEF Places, OnChild
  <2> QED BY <2>1, <2>2, <2>3 DEF GotState, GotResponse, Synced, RpcLost
<1>5. /\ record'[i].pi = record[i].pi
      /\ file'[i].pi \in {file[i].pi} \cup (IF i = k THEN {record[i].pi} ELSE {})
  <2>1. ASSUME Put(k, record[k])
        PROVE  record'[i] = record[i] /\ file'[i] = IF i = k THEN record[i] ELSE file[i]
      BY <1>2, <2>1 DEF Put, Typed, FilesTyped
  <2> QED BY <1>3, <2>1
<1>6. i = k => On(h, i) BY <1>1 DEF On
<1>7. file'[i].pi = p BY <1>5, <1>6 DEF Held, Remembered
<1>8. Undisturbed(i, p)
    BY <1>1, <1>3, <1>4, <1>5, <1>6, <1>7 DEF Undisturbed, On, Busy
<1> QED BY <1>8, HeldUndisturbed

\* Steps that touch neither the records nor the process: requests may come, of
\* children that run, and go on.
LEMMA CalmHeld ==
  ASSUME Typed,
         \/ \E h \in Handlers : ChildAnswers(h)
         \/ \E h \in Requests, k \in Instances, meta \in BOOLEAN : HandleRpc(h, k, meta)
         \/ UNCHANGED <<file, record, live, pi, child, request, exits>>
            /\ (daemon' = "recovering" => UNCHANGED <<daemon, recovery>>),
         NEW i \in 1..spawned, NEW p, Held(i, p)
  PROVE  Held(i, p)'
<1>1. ASSUME NEW h \in Handlers, ChildAnswers(h) PROVE Undisturbed(i, p)
  <2>1. UNCHANGED <<file, record, live, pi, child, exits, daemon, recovery>> /\ Busy(h)
      BY <1>1 DEF ChildAnswers, process, tables, OnChild, Busy
  <2>2. /\ \A g \in Handlers \ {h} : request'[g] = request[g]
        /\ request'[h].at \in {"got_state", "got_rpc", "got_sync"}
        /\ request'[h].on = request[h].on
      BY <1>1, GotoEffects DEF ChildAnswers, OnChild, Places, Micro
  <2> QED BY <2>1, <2>2 DEF Undisturbed, Held, On, Busy
<1>2. ASSUME NEW h \in Requests, NEW k \in Instances, NEW meta \in BOOLEAN, HandleRpc(h, k, meta)
      PROVE  Undisturbed(i, p)
  <2>1. UNCHANGED <<file, record, live, pi, child, exits, daemon, recovery>> /\ h \in Handlers
        /\ child[k] \in {"up", "term"}
      BY <1>2, HandlerSets DEF HandleRpc, process, tables
  <2>2. /\ \A g \in Handlers \ {h} : request'[g] = request[g]
        /\ request'[h].at = "rpc" /\ request'[h].on = k
    <3>1. "rpc" \in Places /\ "rpc" \in Ops BY DEF Places, OnChild, Ops
    <3>2. request' = [request EXCEPT ![h] = [Asks("rpc", k, "rpc") EXCEPT !.meta = meta]]
        BY <1>2 DEF HandleRpc
    <3>3. /\ [Asks("rpc", k, "rpc") EXCEPT !.meta = meta].on = k
          /\ [Asks("rpc", k, "rpc") EXCEPT !.meta = meta].at = "rpc"
        BY <3>1, AskedNew
    <3> HIDE DEF Asks
    <3> QED BY <2>1, <3>2, <3>3 DEF Typed, RequestsTyped
  <2>3. k = i => i \in live BY <2>1 DEF Held, Remembered
  <2> QED BY <2>1, <2>2, <2>3 DEF Undisturbed, Held, On, Busy
<1>3. ASSUME UNCHANGED <<file, record, live, pi, child, request, exits>>,
             daemon' = "recovering" => UNCHANGED <<daemon, recovery>>
      PROVE  Undisturbed(i, p)
    BY <1>3 DEF Undisturbed, Held, On, Busy
<1> QED BY <1>1, <1>2, <1>3, HeldUndisturbed

\* Who leaves a live instance disconnects the Pi that it holds.
LEMMA CleaningHeld ==
  ASSUME Typed, NEW h \in Handlers, NEW k \in 1..spawned, NEW op, NEW s \in Statuses,
         SetStatus(k, s), CleaningUp(h, k, op), k \in live \/ On(h, k), ~At(h, "disconnect"),
         UNCHANGED <<live, pi, exits, daemon, recovery>>,
         NEW i \in 1..spawned, NEW p \in 1..pis, Held(i, p)
  PROVE  Held(i, p)'
<1>1. k \in Instances /\ i \in Instances
    BY BoundsAreNat DEF Typed, CountsTyped, Instances
<1>2. /\ record'[i].pi = record[i].pi
      /\ file'[i].pi = IF i = k THEN record[i].pi ELSE file[i].pi
    BY <1>1, StatusEffects
<1>3. CASE i = k
  <2>1. i \in live /\ record[i].pi = p /\ pi[i] = p
      BY <1>3 DEF Held, Remembered
  <2>2. p # 0 BY BoundsAreNat DEF Typed, PresenceTyped, Pis
  <2>3. /\ child' = child
        /\ request'[h].at = "disconnect" /\ request'[h].pi = p
        /\ \A g \in Handlers \ {h} : request'[g] = request[g]
      BY <1>3, <2>1, <2>2 DEF CleaningUp
  <2>4. Undisturbed(i, p)
      BY <1>2, <1>3, <2>1, <2>3 DEF Undisturbed, On, Busy
  <2> QED BY <2>4, HeldUndisturbed
<1>4. CASE i # k
  <2>1. child'[i] = child[i] BY <1>1, <1>4 DEF CleaningUp, Disposed
  <2>2. request'[h].on = k BY DEF CleaningUp
  <2>3. ASSUME NEW g \in Handlers \ {h}, request'[g].on = i
        PROVE  request'[g] = request[g]
    <3>1. request[g] \in Asked BY DEF Typed, RequestsTyped
    <3>2. CASE Rejected(g, k) BY <1>4, <2>3, <3>1, <3>2 DEF Rejected, Asked
    <3> QED BY <3>2 DEF CleaningUp, Disposed, OthersKept
  <2>4. file'[i].pi = p BY <1>2, <1>4 DEF Held
  <2>5. Undisturbed(i, p)
      BY <1>2, <1>4, <2>1, <2>2, <2>3, <2>4 DEF Undisturbed, On, Busy
  <2> QED BY <2>5, HeldUndisturbed
<1> QED BY <1>3, <1>4

LEMMA FinishHeld ==
  ASSUME Typed, NEW h \in Handlers, Finish(h), NEW i \in 1..spawned, NEW p, Held(i, p)
  PROVE  Held(i, p)'
<1> DEFINE k == request[h].on
<1>1. Busy(h) BY DEF Finish, At, Busy
<1>2. k \in Instances /\ i \in Instances
    BY <1>1, HandlerOf, BoundsAreNat DEF Typed, CountsTyped, Instances
<1>3. i # k BY <1>1 DEF Held, On, Finish, At
<1>4. /\ record'[i] = record[i] /\ file'[i] = file[i]
      /\ live' = live \ {k}
    BY <1>1, <1>2, <1>3, FinallyEffects DEF Finish
<1>5. request'[h].at = "idle" /\ \A g \in Handlers \ {h} : request'[g] = request[g]
    BY DoneEffects DEF Finish
<1>6. UNCHANGED <<pi, child, exits, recovery>>
      /\ (daemon' = "recovering" => daemon' = daemon)
    BY DEF Finish
<1>7. Undisturbed(i, p)
    BY <1>3, <1>4, <1>5, <1>6 DEF Undisturbed, Held, On, Busy
<1> QED BY <1>7, HeldUndisturbed

LEMMA SpawnHeld ==
  ASSUME Typed, NEW h \in Requests, Spawn(h), NEW i \in 1..spawned, NEW p, Held(i, p)
  PROVE  Held(i, p)'
<1> DEFINE k == spawned + 1
<1>1. k \in Instances /\ i \in Instances /\ i # k /\ h \in Handlers
    BY HandlerSets, BoundsAreNat DEF Spawn, Typed, CountsTyped, Instances
<1>2. /\ live' = live \cup {k} /\ child' = [child EXCEPT ![k] = "up"]
      /\ Put(k, [status |-> "starting", pi |-> 0])
      /\ request' = [request EXCEPT ![h] = Asks("spawn", k, "get_state")]
      /\ UNCHANGED <<pi, exits, daemon, recovery>>
    BY DEF Spawn, process
<1>3. Asks("spawn", k, "get_state").on = k
    BY <1>1, AskedNew DEF Ops, Places, OnChild
<1>4. record'[i] = record[i] /\ file'[i] = file[i]
    BY <1>1, <1>2 DEF Put, Typed, FilesTyped
<1>5. child'[i] = child[i] BY <1>1, <1>2 DEF Typed, TablesTyped
<1> HIDE DEF Asks
<1>6. request'[h].on = k /\ \A g \in Handlers \ {h} : request'[g] = request[g]
    BY <1>1, <1>2, <1>3 DEF Typed, RequestsTyped
<1>7. Undisturbed(i, p)
    BY <1>1, <1>2, <1>4, <1>5, <1>6 DEF Undisturbed, Held, On, Busy
<1> QED BY <1>7, HeldUndisturbed

LEMMA ExitsHeld ==
  ASSUME Typed, NEW k \in Instances, ChildExits(k),
         NEW i \in 1..spawned, NEW p \in 1..pis, Held(i, p)
  PROVE  Held(i, p)'
<1>1. i \in Instances /\ p # 0
    BY BoundsAreNat DEF Typed, CountsTyped, PresenceTyped, Pis, Instances
<1>2. /\ UNCHANGED <<pi, daemon, recovery>>
      /\ child' = [child EXCEPT ![k] = "exited"] /\ child[k] \in {"up", "term"}
    BY DEF ChildExits, process
<1>3. child'[i] \in {"up", "term"} => child[i] \in {"up", "term"}
    BY <1>1, <1>2 DEF Typed, TablesTyped
<1>4. ASSUME NEW g \in Handlers, request'[g].at # "idle", request'[g].on = i
      PROVE  /\ On(g, i)
             /\ request'[g] = request[g] \/ request'[g].at = "lost"
  <2>1. Busy(g) /\ request[g].on = i BY <1>4, ExitEffects DEF Busy
  <2>2. request[g] \in Asked BY DEF Typed, RequestsTyped
  <2>3. ~At(g, "dispose") BY <2>1 DEF Held, On, At
  <2>4. CASE Rejected(g, k)
      BY <2>1, <2>2, <2>4, RequestOps DEF Rejected, On, Places, Micro
  <2> QED BY <2>1, <2>3, <2>4, ExitEffects DEF On
<1>5. i = k => i \in live /\ record[i].pi = p /\ pi[i] = p
    BY <1>2 DEF Held, Remembered
<1>6. CASE Unexpected(k)
  <2>1. SetStatus(k, "error") BY <1>6 DEF ChildExits
  <2>2. /\ record'[i].pi = record[i].pi
        /\ file'[i].pi = IF i = k THEN record[i].pi ELSE file[i].pi
      BY <1>1, <2>1, StatusEffects DEF Statuses
  <2>3. /\ i \in live <=> i \in live'
        /\ \A x \in exits' : x.on = i => x \in exits \/ (x.pi = p /\ i \in live)
    <3>1. CASE pi[k] # 0
        BY <1>5, <1>6, <3>1 DEF ChildExits
    <3>2. CASE pi[k] = 0
        BY <1>1, <1>5, <1>6, <3>2 DEF ChildExits, Forget
    <3> QED BY <3>1, <3>2
  <2>4. file'[i].pi = p BY <1>5, <2>2 DEF Held
  <2>5. Undisturbed(i, p)
      BY <1>2, <1>3, <1>4, <2>2, <2>3, <2>4 DEF Undisturbed
  <2> QED BY <2>5, HeldUndisturbed
<1>7. CASE ~Unexpected(k)
  <2>1. UNCHANGED <<file, record, live, exits>> BY <1>7 DEF ChildExits
  <2>2. Undisturbed(i, p)
      BY <1>2, <1>3, <1>4, <2>1 DEF Undisturbed, Held
  <2> QED BY <2>2, HeldUndisturbed
<1> QED BY <1>6, <1>7

\* The answer to a disconnect takes the Pi from Radius; an error leaks it.
LEMMA DisconnectedHeld ==
  ASSUME Typed, NEW h \in Handlers, Disconnected(h),
         NEW i \in 1..spawned, NEW p \in remote', ~Excused(i)', Held(i, p)
  PROVE  Held(i, p)'
<1> DEFINE k == request[h].on
<1>1. Busy(h) /\ At(h, "disconnect") BY DEF Disconnected, At, Busy
<1>2. k \in Instances /\ i \in Instances /\ request[h] \in Asked
    BY <1>1, HandlerOf, BoundsAreNat DEF Typed, CountsTyped, Instances
<1>3. i # k
  <2>1. ASSUME i = k PROVE FALSE
    <3>1. request[h].pi = p BY <1>1, <2>1 DEF Held, On, At
    <3> QED BY <2>1, <3>1 DEF Disconnected, Excused
  <2> QED BY <2>1
<1>4. UNCHANGED <<file, live, exits, daemon, recovery>> BY DEF Disconnected, process
<1>5. CASE Dispose(h, request[h]) /\ pi' = [pi EXCEPT ![k] = 0]
           /\ record' = [record EXCEPT ![k].pi = 0]
  <2>1. Disposed(h, k, request[h].held) BY <1>2, <1>5, DisposeEffects
  <2>2. child'[i] = child[i] /\ request'[h].on = k /\ OthersKept(h, k)
      BY <1>2, <1>3, <2>1 DEF Disposed
  <2>3. pi'[i] = pi[i] /\ record'[i] = record[i]
      BY <1>2, <1>3, <1>5 DEF Typed, TablesTyped, FilesTyped
  <2>4. ASSUME NEW g \in Handlers \ {h}, request'[g].on = i
        PROVE  request'[g] = request[g]
    <3>1. request[g] \in Asked BY DEF Typed, RequestsTyped
    <3>2. CASE Rejected(g, k) BY <1>3, <2>4, <3>1, <3>2 DEF Rejected, Asked
    <3> QED BY <2>2, <3>2 DEF OthersKept
  <2>5. Undisturbed(i, p)
      BY <1>3, <1>4, <2>2, <2>3, <2>4 DEF Undisturbed, Held, On, Busy
  <2> QED BY <2>5, HeldUndisturbed
<1>6. CASE request' = [request EXCEPT ![h].at = "finish", ![h].ok = FALSE]
           /\ UNCHANGED <<pi, record, child>>
  <2>1. request'[h].on = k /\ \A g \in Handlers \ {h} : request'[g] = request[g]
      BY <1>6 DEF Typed, RequestsTyped, Asked
  <2>2. Undisturbed(i, p)
      BY <1>3, <1>4, <1>6, <2>1 DEF Undisturbed, Held, On, Busy
  <2> QED BY <2>2, HeldUndisturbed
<1> QED BY <1>5, <1>6 DEF Disconnected

LEMMA ExitDisconnectedHeld ==
  ASSUME Typed, NEW x \in exits, ExitDisconnected(x),
         NEW i \in 1..spawned, NEW p \in remote', ~Excused(i)', Held(i, p)
  PROVE  Held(i, p)'
<1>1. i \in Instances /\ x.on \in Instances
    BY BoundsAreNat DEF Typed, CountsTyped, RequestsTyped, Exits, Instances
<1>2. i # x.on
  <2>1. ASSUME i = x.on PROVE FALSE
    <3>1. x.pi = p BY <2>1 DEF Held
    <3> QED BY <2>1, <3>1 DEF ExitDisconnected, Excused
  <2> QED BY <2>1
<1>3. /\ live' = live \ {x.on} /\ exits' \subseteq exits
      /\ UNCHANGED <<pi, child, request, daemon, recovery>>
      /\ \/ Put(x.on, [record[x.on] EXCEPT !.pi = 0])
         \/ UNCHANGED <<file, record>>
    BY DEF ExitDisconnected, Forget, process
<1>4. record'[i] = record[i] /\ file'[i] = file[i]
    BY <1>1, <1>2, <1>3 DEF Put, Typed, FilesTyped
<1>5. Undisturbed(i, p)
    BY <1>2, <1>3, <1>4 DEF Undisturbed, Held, On, Busy
<1> QED BY <1>5, HeldUndisturbed

\* The end of the process leaves what is held to the file.
LEMMA ResetHeld ==
  ASSUME Typed, Reset, daemon' = "down", file' = file,
         NEW i \in 1..spawned, NEW p, Held(i, p)
  PROVE  Held(i, p)'
<1>1. i \in Instances BY BoundsAreNat DEF Typed, CountsTyped, Instances
<1>2. /\ live' = {} /\ exits' = {} /\ child'[i] \notin {"up", "term"}
    BY <1>1 DEF Reset
<1>3. \A h \in Handlers : request'[h].at = "idle" BY DEF Reset, Idle
<1>4. Remembered(i, p)' BY <1>2, <1>3 DEF Remembered, On, Busy
<1> QED BY <1>2, <1>3, <1>4 DEF Held, On, Busy

LEMMA RecoverHeld ==
  ASSUME Typed, RecoverAfterRestart \/ RecoverNext,
         NEW i \in 1..spawned, NEW p, ~Excused(i)', Held(i, p)
  PROVE  Held(i, p)'
<1>1. i \in Instances BY BoundsAreNat DEF Typed, CountsTyped, Instances
<1>2. ASSUME RecoverAfterRestart PROVE Held(i, p)'
  <2> DEFINE list == [j \in Instances |-> Recovered(file[j])]
  <2>1. list[i].pi = file[i].pi BY <1>1, RecoveredEffects DEF Typed, FilesTyped
  <2>2. /\ daemon = "down"
        /\ \/ daemon' = "up" /\ file' = list
           \/ daemon' = "recovering" /\ recovery'.list = list /\ file' = file
        /\ UNCHANGED <<live, record, pi, child, request, exits>>
      BY <1>2 DEF RecoverAfterRestart, tables
  <2> HIDE DEF list
  <2>3. live = {} BY <2>2 DEF Typed, Spawned
  <2>4. Remembered(i, p) BY <2>3 DEF Held
  <2>5. file'[i].pi = p BY <2>1, <2>2 DEF Held
  <2>6. Remembered(i, p)'
      BY <2>1, <2>2, <2>4 DEF Remembered, On, Busy, Held
  <2> QED BY <2>2, <2>5, <2>6 DEF Held, On, Busy
<1>3. ASSUME RecoverNext PROVE Held(i, p)'
  <2>1. /\ daemon = "recovering"
        /\ \/ daemon' = "up" /\ file' = recovery.list /\ lost' = lost \cup live
           \/ daemon' = daemon /\ file' = file /\ recovery'.list = recovery.list
        /\ UNCHANGED <<live, record, pi, child, request, exits>>
      BY <1>3 DEF RecoverNext, tables, Typed, ProcessTyped
  <2>2. CASE daemon' = "up" /\ file' = recovery.list /\ lost' = lost \cup live
    <3>1. i \notin live BY <2>2 DEF Excused
    <3>2. Remembered(i, p) BY <3>1 DEF Held
    <3>3. file'[i].pi = p BY <2>1, <2>2, <3>2 DEF Remembered
    <3>4. Remembered(i, p)'
        BY <2>1, <2>2, <3>2 DEF Remembered, On, Busy
    <3> QED BY <2>1, <3>3, <3>4 DEF Held, On, Busy
  <2>3. CASE daemon' = daemon /\ file' = file /\ recovery'.list = recovery.list
    <3>1. Undisturbed(i, p) BY <2>1, <2>3 DEF Undisturbed, Held, On, Busy
    <3> QED BY <3>1, HeldUndisturbed
  <2> QED BY <2>1, <2>2, <2>3
<1> QED BY <1>2, <1>3

\* A registration granted to k in time is k's, and its newest.
LEMMA GrantRegistrations ==
  ASSUME Typed, Children, StatusesHold, Registrations,
         NEW k \in 1..spawned, StartHeartbeat(k), Granted(k),
         file'[k].pi = pis + 1,
         k \in live => record'[k].pi = pis + 1 /\ pi'[k] = pis + 1,
         \A j \in Instances \ {k} :
            record'[j] = record[j] /\ file'[j] = file[j] /\ pi'[j] = pi[j],
         UNCHANGED <<live, child, exits, leaked, lost, spawned, daemon, recovery>>,
         \A g \in Handlers : request'[g].at # "idle" => request'[g] = request[g],
         reregs' \subseteq reregs
  PROVE  Registrations'
<1>0. PICK q : q = pis + 1 OBVIOUS
<1>1. /\ k \in Instances /\ 1..spawned \subseteq Instances
      /\ q \in 1..MaxPis /\ pis \in Nat /\ pis < q /\ pis' = q
      /\ remote' = remote \cup {q}
      /\ late' \in {late, late \cup {k}}
      /\ k \notin late' => k \in live /\ record[k].status \in Active
    BY <1>0, BoundsAreNat DEF Typed, CountsTyped, PresenceTyped, Pis, Instances, StartHeartbeat,
        Granted, Active
<1>2. owner'[q] = k /\ \A p \in 1..pis : owner'[p] = owner[p]
    BY <1>0, <1>1 DEF Granted, Typed, CountsTyped
<1>3. /\ remote' \subseteq 1..pis' /\ \A p \in 1..pis' : owner'[p] \in 1..spawned'
      /\ \A r \in reregs' : r.on \in 1..spawned'
  <2>1. 1..pis' = 1..pis \cup {q} BY <1>0, <1>1
  <2> QED BY <1>1, <1>2, <2>1 DEF Registrations
<1>4. ASSUME k \notin late' PROVE Held(k, q)'
  <2>1. k \in live /\ record[k].status \in Active /\ k \notin late BY <1>1, <1>4
  <2>2. child[k] = "up" BY <1>1, <2>1 DEF StatusesHold, Alive
  <2>3. \A x \in exits : x.on # k BY <2>2 DEF Children
  <2>4. \A g \in Handlers : On(g, k)' => request'[g].at \notin Leaving
      BY <2>1 DEF On, Busy, StatusesHold, Left
  <2>5. k \in live' /\ record'[k].pi = q /\ pi'[k] = q /\ file'[k].pi = q
      BY <1>0, <2>1
  <2> QED BY <2>3, <2>4, <2>5 DEF Held, Leaving
<1>5. ASSUME NEW p \in remote', Newest(p)', ~(owner'[p] \in late' \cup leaked' \cup lost')
      PROVE  \A i : i = owner'[p] => Held(i, p)'
  <2>1. CASE p = q BY <1>2, <1>4, <1>5, <2>1
  <2>2. CASE p # q
    <3>1. p \in remote /\ p \in 1..pis BY <1>1, <2>2 DEF Registrations
    <3>2. PICK i : i = owner[p] OBVIOUS
    <3>3. owner'[p] = i /\ i \in 1..spawned BY <1>2, <3>1, <3>2 DEF Registrations
    <3>4. i # k
      <4>1. q \in (p + 1)..pis' BY <1>0, <1>1, <3>1
      <4> QED BY <1>2, <1>5, <3>3, <4>1 DEF Newest
    <3>5. \A later \in (p + 1)..pis : owner[later] # i
      <4>1. ASSUME NEW later \in (p + 1)..pis PROVE owner[later] # i
        <5>1. later \in 1..pis /\ later \in (p + 1)..pis' BY <1>0, <1>1, <3>1
        <5> QED BY <1>2, <1>5, <3>3, <5>1 DEF Newest
      <4> QED BY <4>1
    <3>6. Newest(p) /\ ~Excused(owner[p])
        BY <1>1, <1>5, <3>1, <3>2, <3>3, <3>5 DEF Newest, Excused
    <3>7. Held(i, p) BY <3>1, <3>2, <3>6 DEF Registrations
    <3>8. i \in Instances \ {k} BY <1>1, <3>3, <3>4
    <3>9. Undisturbed(i, p)
        BY <3>7, <3>8 DEF Undisturbed, Held, On, Busy
    <3> QED BY <3>3, <3>7, <3>9, HeldUndisturbed
  <2> QED BY <2>1, <2>2
<1> QED BY <1>3, <1>5 DEF Registrations, Excused

LEMMA RegisteredRegistrations ==
  ASSUME Typed, Children, StatusesHold, Registrations, NEW h \in Handlers, Registered(h)
  PROVE  Registrations'
<1> DEFINE k == request[h].on
           rec == [status |-> "online", pi |-> pis + 1]
<1>1. Busy(h) BY DEF Registered, At, Busy
<1>2. k \in Instances /\ k \in 1..spawned BY <1>1, HandlerOf
<1>3. /\ StartHeartbeat(k) /\ Granted(k) /\ Put(k, rec) /\ pi' = [pi EXCEPT ![k] = pis + 1]
      /\ UNCHANGED <<live, child, exits, leaked, lost, spawned, daemon, recovery, reregs>>
    BY DEF Registered, process, counts
<1>4. /\ record'[k] = rec /\ file'[k] = rec /\ pi'[k] = pis + 1
      /\ \A j \in Instances \ {k} : record'[j] = record[j] /\ file'[j] = file[j] /\ pi'[j] = pi[j]
    BY <1>2, <1>3 DEF Put, Typed, FilesTyped, TablesTyped
<1>5. \A g \in Handlers : request'[g].at # "idle" => request'[g] = request[g]
    BY DoneEffects DEF Registered
<1> QED BY <1>2, <1>3, <1>4, <1>5, GrantRegistrations

LEMMA ReRegisteredRegistrations ==
  ASSUME Typed, Children, StatusesHold, Registrations, NEW r \in reregs, ReRegistered(r)
  PROVE  Registrations'
<1> DEFINE k == r.on
           rec == [r.copy EXCEPT !.pi = pis + 1]
<1>1. k \in 1..spawned /\ k \in Instances /\ r.copy \in Known /\ r.copy \in Records
    BY DEF Registrations, Typed, PresenceTyped, Reregs, Known
<1>2. /\ UNCHANGED <<live, child, exits, leaked, lost, spawned, daemon, recovery, request>>
      /\ reregs' \subseteq reregs
    BY DEF ReRegistered, process
<1>3. CASE /\ StartHeartbeat(k) /\ Granted(k)
           /\ file' = [file EXCEPT ![k] = rec]
           /\ IF k \in live THEN record' = [record EXCEPT ![k] = rec]
                                 /\ pi' = [pi EXCEPT ![k] = rec.pi]
              ELSE UNCHANGED <<record, pi>>
  <2>1. rec.pi = pis + 1
    <3>1. pis + 1 \in Pis BY <1>3, BoundsAreNat DEF StartHeartbeat, Typed, PresenceTyped, Pis
    <3> QED BY <1>1, <3>1, RecordOps
  <2> HIDE DEF rec
  <2>2. /\ file'[k].pi = pis + 1
        /\ k \in live => record'[k].pi = pis + 1 /\ pi'[k] = pis + 1
        /\ \A j \in Instances \ {k} :
              record'[j] = record[j] /\ file'[j] = file[j] /\ pi'[j] = pi[j]
      BY <1>1, <1>3, <2>1 DEF Typed, FilesTyped, TablesTyped
  <2> QED BY <1>1, <1>2, <1>3, <2>2, GrantRegistrations
<1>4. CASE UNCHANGED <<file, record, pi, pis, remote, late, owner>>
  <2>1. \A i \in 1..spawned, p \in remote' : p \in 1..pis /\ ~Excused(i)' /\ Held(i, p) => Held(i, p)'
      BY <1>2, <1>4, CalmHeld
  <2>2. spawned \in Nat BY BoundsAreNat DEF Typed, CountsTyped
  <2> QED BY <1>2, <1>4, <2>1, <2>2, RegistrationsKept
<1> QED BY <1>3, <1>4 DEF ReRegistered

LEMMA StopHeld ==
  ASSUME Typed, NEW h \in Handlers, NEW k, StopInstance(h, k), ~Busy(h),
         NEW i \in 1..spawned, NEW p \in 1..pis, Held(i, p)
  PROVE  Held(i, p)'
<1>1. k \in live /\ k \in 1..spawned /\ k \in Instances
    BY DEF StopInstance, Typed, Spawned, TablesTyped
<1>2. CleaningUp(h, k, "stop")
    BY <1>1, CleanUpEffects DEF StopInstance, Ops
<1>3. /\ SetStatus(k, "stopping") /\ ~At(h, "disconnect")
      /\ UNCHANGED <<live, pi, exits, daemon, recovery>>
    BY DEF StopInstance, Busy, At
<1> QED BY <1>1, <1>2, <1>3, CleaningHeld DEF Statuses

LEMMA FailHeld ==
  ASSUME Typed, NEW h \in Handlers, FailSpawn(h), Busy(h), ~At(h, "disconnect"),
         NEW i \in 1..spawned, NEW p \in 1..pis, Held(i, p)
  PROVE  Held(i, p)'
<1> DEFINE k == request[h].on
<1>1. k \in 1..spawned /\ k \in Instances /\ On(h, k) BY HandlerOf DEF On
<1>2. CleaningUp(h, k, "spawn")
    BY <1>1, CleanUpEffects DEF FailSpawn, Ops
<1>3. SetStatus(k, "error") /\ UNCHANGED <<live, pi, exits, daemon, recovery>>
    BY DEF FailSpawn, process
<1> QED BY <1>1, <1>2, <1>3, CleaningHeld DEF Statuses

\* Steps of the presence: who registers again is live.
LEMMA PresenceRegistrations ==
  ASSUME Typed, Registrations,
         (\E i \in Instances : HeartbeatMissed(i)) \/ RadiusForgets
         \/ MachineForgotten \/ MachineNext
  PROVE  Registrations'
<1>1. /\ UNCHANGED <<file, record, live, pi, child, request, exits, daemon, recovery,
                     pis, owner, spawned, late, leaked, lost>>
      /\ remote' \subseteq remote
    BY DEF HeartbeatMissed, RadiusForgets, MachineForgotten, MachineNext, process, tables,
        counts, history
<1>2. \A r \in reregs' : r \in reregs \/ r.on \in live
  <2>1. ASSUME NEW i, NEW by, ReRegister(i, by)
        PROVE  \A r \in reregs' : r \in reregs \/ r.on \in live
      BY <2>1 DEF ReRegister
  <2> QED BY <2>1 DEF HeartbeatMissed, RadiusForgets, MachineForgotten, MachineNext
<1>3. spawned \in Nat BY BoundsAreNat DEF Typed, CountsTyped
<1>4. \A i \in 1..spawned, p \in remote' : p \in 1..pis /\ ~Excused(i)' /\ Held(i, p) => Held(i, p)'
    BY <1>1, CalmHeld
<1> QED BY <1>1, <1>2, <1>3, <1>4, RegistrationsKept

\* The steps that neither grant nor spawn.
LEMMA StepHeld ==
  ASSUME Typed, Registrations,
         \/ \E h \in Handlers : Continue(h) \/ ChildAnswers(h) \/ Disconnected(h) \/ RegisterFails(h)
         \/ \E h \in Requests, i \in Instances : Stop(h, i)
         \/ \E h \in Requests, i \in Instances, meta \in BOOLEAN : HandleRpc(h, i, meta)
         \/ \E i \in Instances : ChildExits(i)
         \/ Signal \/ ShutdownNext \/ ShutdownEnds \/ Crash \/ RecoverAfterRestart \/ RecoverNext
         \/ \E x \in exits : ExitDisconnected(x)
         \/ UNCHANGED vars,
         NEW i \in 1..spawned, NEW p \in remote', p \in 1..pis, ~Excused(i)', Held(i, p)
  PROVE  Held(i, p)'
<1>1. ASSUME NEW h \in Handlers, Continue(h) PROVE Held(i, p)'
  <2>1. ASSUME SpawnLost(h) PROVE Held(i, p)'
      BY <2>1, FailHeld DEF SpawnLost, At, Busy
  <2> QED BY <1>1, <2>1, ContinueHeld, FinishHeld DEF Continue
<1>2. ASSUME NEW h \in Handlers, RegisterFails(h) PROVE Held(i, p)'
    BY <1>2, FailHeld DEF RegisterFails, At, Busy
<1>3. ASSUME NEW h \in Requests, NEW k \in Instances, Stop(h, k) PROVE Held(i, p)'
  <2>1. h \in Handlers /\ ~Busy(h)
    <3>1. received \in Nat BY BoundsAreNat DEF Typed, CountsTyped
    <3>2. h > received BY <1>3, <3>1 DEF Stop, Receive
    <3> QED BY <3>2, HandlerSets DEF Typed, Spawned
  <2> QED BY <1>3, <2>1, StopHeld DEF Stop
<1>4. ASSUME ShutdownNext PROVE Held(i, p)'
  <2>1. ASSUME StopInstance(Shutdown, Least(closing)) PROVE Held(i, p)'
      BY <1>4, <2>1, HandlerSets, StopHeld DEF ShutdownNext, Busy, At
  <2> QED BY <1>4, <2>1, CalmHeld DEF ShutdownNext, tables
<1>5. ASSUME Crash \/ ShutdownEnds PROVE Held(i, p)'
  <2>1. CASE Reset /\ daemon' = "down" /\ file' = file BY <2>1, ResetHeld
  <2>2. ASSUME Crash, lost' = 1..spawned PROVE FALSE BY <2>2 DEF Excused
  <2>3. CASE daemon' = "spinning" /\ UNCHANGED <<file, tables, request, exits>>
      BY <2>3, CalmHeld DEF tables
  <2> QED BY <1>5, <2>1, <2>2, <2>3 DEF Crash, ShutdownEnds
<1>6. ASSUME Signal \/ UNCHANGED vars PROVE Held(i, p)'
    BY <1>6, CalmHeld DEF Signal, vars, process, tables
<1> QED BY <1>1, <1>2, <1>3, <1>4, <1>5, <1>6, CalmHeld, DisconnectedHeld, ExitsHeld,
        RecoverHeld, ExitDisconnectedHeld

LEMMA RegistrationsStep ==
  Typed /\ Children /\ StatusesHold /\ Registrations /\ [Next]_vars => Registrations'
<1> SUFFICES ASSUME Typed, Children, StatusesHold, Registrations, [Next]_vars
             PROVE  Registrations'
    OBVIOUS
<1> DEFINE Plain ==
      /\ remote' \subseteq remote /\ UNCHANGED <<pis, owner>> /\ spawned' = spawned
      /\ late \subseteq late' /\ leaked \subseteq leaked' /\ lost \subseteq lost'
      /\ reregs' \subseteq reregs
<1>1. spawned \in Nat BY BoundsAreNat DEF Typed, CountsTyped
<1>2. ASSUME NEW h \in Requests, Spawn(h) PROVE Registrations'
  <2>1. /\ UNCHANGED <<remote, pis, owner, late, leaked, lost, reregs>>
        /\ spawned' \in Nat /\ spawned <= spawned'
      BY <1>1, <1>2 DEF Spawn, presence, history
  <2> QED BY <1>2, <2>1, SpawnHeld, RegistrationsKept
<1>3. ASSUME NEW h \in Handlers, Continue(h) PROVE Plain
    BY <1>3 DEF Continue, GotState, SpawnLost, FailSpawn, GotResponse, Synced, RpcLost, Finish,
        presence, counts, history
<1>4. ASSUME \/ \E h \in Handlers : ChildAnswers(h) \/ Disconnected(h) \/ RegisterFails(h)
             \/ \E h \in Requests, i \in Instances : Stop(h, i)
             \/ \E h \in Requests, i \in Instances, meta \in BOOLEAN : HandleRpc(h, i, meta)
             \/ \E i \in Instances : ChildExits(i)
             \/ Signal \/ ShutdownNext \/ \E x \in exits : ExitDisconnected(x)
             \/ UNCHANGED vars
      PROVE  Plain
    BY <1>4 DEF ChildAnswers, Disconnected, RegisterFails, FailSpawn, Stop, StopInstance,
        HandleRpc, ChildExits, Signal, ShutdownNext, ExitDisconnected, vars, presence,
        counts, history
<1>5. ASSUME ShutdownEnds \/ (Crash /\ lost' = lost) \/ RecoverAfterRestart \/ RecoverNext
      PROVE  Plain
    BY <1>5 DEF ShutdownEnds, Crash, Reset, RecoverAfterRestart, RecoverNext, presence,
        counts, history
<1>6. ASSUME Crash, lost' = 1..spawned PROVE Registrations'
  <2>1. UNCHANGED <<remote, pis, owner, spawned>> /\ reregs' = {}
      BY <1>6 DEF Crash, Reset
  <2> QED BY <1>6, <2>1 DEF Registrations, Excused
<1>7. Crash => lost' = lost \/ lost' = 1..spawned BY DEF Crash
<1> HIDE DEF Plain
<1>8. ASSUME Plain,
             \A i \in 1..spawned, p \in remote' :
                p \in 1..pis /\ ~Excused(i)' /\ Held(i, p) => Held(i, p)'
      PROVE  Registrations'
    BY <1>1, <1>8, RegistrationsKept DEF Plain
<1> QED BY <1>2, <1>3, <1>4, <1>5, <1>6, <1>7, <1>8, StepHeld, PresenceRegistrations,
        RegisteredRegistrations, ReRegisteredRegistrations DEF Next, Radius

\* A Pi that Radius knows can be disconnected some day, whatever crashes: the
\* newest registration of an instance is in the file, unless it was granted when
\* the instance was stopping or gone, its disconnect failed, or the file lost
\* the record.
THEOREM RegistrationsAreFound == Spec => []NoLeakedPi
<1>1. Typed /\ Registrations => NoLeakedPi BY RegistrationsAnswer
<1>2. Spec => [](Typed /\ Children /\ StatusesHold) BY SpecStatuses
<1>3. Spec => []Registrations
    BY <1>2, RegistrationsInit, RegistrationsStep, PTL DEF Spec
<1> QED BY <1>1, <1>2, <1>3, PTL
=============================================================================
