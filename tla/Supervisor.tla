---------------------------- MODULE Supervisor ----------------------------
(***************************************************************************)
(* The orchestrator daemon: it spawns one child process per instance,      *)
(* keeps their records in instances.json, registers each with the Radius   *)
(* presence service, and answers spawn, stop and rpc requests that arrive  *)
(* concurrently on its socket.                                             *)
(*                                                                         *)
(* The code runs on one JavaScript thread: an action is what runs between  *)
(* two awaits.  What a settled promise runs (its continuation) comes       *)
(* before the next I/O event: while a request is at a place of Micro, only *)
(* continuations may run (Quiet).                                          *)
(***************************************************************************)
EXTENDS Naturals, FiniteSets

CONSTANTS
    MaxSpawns,          \* bound: instances spawned, over all lives of the daemon
    MaxRequests,        \* bound: requests that reach the socket
    MaxLive,            \* bound: instances live at once
    MaxPis,             \* bound: registrations Radius grants
    MaxFaults,          \* bound: crashes, Radius errors, registrations Radius forgets
    NotFoundThreshold   \* NOT_FOUND_RETRY_THRESHOLD: missed heartbeats before registering again

ASSUME SupervisorAssumption ==
    /\ {MaxSpawns, MaxRequests, MaxLive, MaxPis, MaxFaults} \subseteq Nat
    /\ NotFoundThreshold \in Nat \ {0}

Instances == 1..MaxSpawns
Requests  == 1..MaxRequests
Shutdown  == 0                      \* the stops that shutdown() awaits one by one
Handlers  == Requests \cup {Shutdown}

VARIABLES
    daemon,     \* "recovering", "up", "stopping" (a signal came), "spinning", "down"
    recovery,   \* recoverAfterRestart(): the list it read, the Pis it still disconnects
    closing,    \* the instances shutdown() has yet to stop
    file,       \* instances.json: the record of each instance
    live,       \* liveInstances: its keys
    record,     \* live.record; a handler keeps it after the entry is deleted
    rpc,        \* instances whose resources.rpcProcess is set
    bound,      \* instances whose exit listener is subscribed
    pi,         \* resources.radiusPiId, 0 when unset
    child,      \* the child process: "none", "up", "term" (SIGTERM sent), "exited"
    request,    \* where each request waits
    exits,      \* handleUnexpectedRpcExit() calls that await disconnectPi()
    heartbeat,  \* piHeartbeatStates: the Pi each instance beats for, 0 without a state
    misses,     \* consecutiveNotFoundCount
    beats,      \* instances whose heartbeat was unanswered when disconnectPi() deleted its state
    reregs,     \* reRegisterPi() calls that await Radius
    machine,    \* the instances reRegisterMachineAndPis() has yet to register again
    remote,     \* the Pis Radius knows
    spawned, received, pis, faults,  \* how many instances, requests, Pis and faults so far
    late,       \* history: instances registered when they were stopping, or gone
    leaked,     \* history: instances whose disconnectPi() failed
    lost,       \* history: instances whose record the file lost: torn, or saved by a
                \* recovery that had read it before they were spawned
    owner       \* history: the instance each Pi was granted to

process  == <<daemon, recovery, closing>>
tables   == <<live, record, rpc, bound, pi, child>>
presence == <<heartbeat, misses, beats, reregs, machine, remote, pis>>
counts   == <<spawned, received, faults>>
history  == <<late, leaked, lost, owner>>
vars == <<process, file, tables, request, exits, presence, counts, history>>

Statuses == {"starting", "online", "stopping", "stopped", "error"}
NoRecord == [status |-> "none", pi |-> 0]
Pis == 0..MaxPis

(* Waits for the child's answer; the continuations that run before any other event. *)
OnChild == {"get_state", "rpc", "sync"}
Micro   == {"got_state", "got_rpc", "got_sync", "lost", "finish"}
Places  == OnChild \cup Micro \cup {"idle", "register", "disconnect", "dispose"}

(* on: the instance.  meta: the command may change session metadata.       *)
(* held: the child it disposes of.  pi: the Pi it disconnects.  ok: no     *)
(* error so far.                                                           *)
Idle == [op |-> "none", on |-> 0, at |-> "idle", meta |-> FALSE, held |-> FALSE,
         pi |-> 0, ok |-> TRUE]
Asks(op, i, place) == [Idle EXCEPT !.op = op, !.on = i, !.at = place]

NoRecovery == [list |-> [i \in Instances |-> NoRecord], todo |-> {}]

At(h, place) == request[h].at = place
Quiet   == \A h \in Handlers : request[h].at \notin Micro
Serving == daemon \in {"recovering", "up", "stopping"}
Least(S) == CHOOSE i \in S : \A j \in S : i <= j

Init ==
    /\ daemon = "up" /\ recovery = NoRecovery /\ closing = {}
    /\ file = [i \in Instances |-> NoRecord]
    /\ live = {} /\ rpc = {} /\ bound = {}
    /\ record = [i \in Instances |-> NoRecord]
    /\ pi = [i \in Instances |-> 0]
    /\ child = [i \in Instances |-> "none"]
    /\ request = [h \in Handlers |-> Idle]
    /\ exits = {}
    /\ heartbeat = [i \in Instances |-> 0]
    /\ misses = [i \in Instances |-> 0]
    /\ beats = {}
    /\ reregs = {} /\ machine = {} /\ remote = {} /\ pis = 0
    /\ spawned = 0 /\ received = 0 /\ faults = 0
    /\ late = {} /\ leaked = {} /\ lost = {} /\ owner = [p \in 1..MaxPis |-> 0]

Receive ==
    /\ daemon \in {"recovering", "up"} /\ Quiet
    /\ received < MaxRequests /\ received' = received + 1
Fault == faults < MaxFaults /\ faults' = faults + 1
Refused == Fault \/ (pis = MaxPis /\ UNCHANGED faults)   \* Radius grants no registration

-----------------------------------------------------------------------------
(* Records: every write goes to live.record and, through upsertInstance(), *)
(* to the file, whether or not the instance is still live.                 *)

(* Mutant: only the record in memory changes. *)
PutInMemory(i, rec) ==
    /\ record' = [record EXCEPT ![i] = rec]
    /\ UNCHANGED file

Put(i, rec) ==
    /\ record' = [record EXCEPT ![i] = rec]
    /\ file' = [file EXCEPT ![i] = rec]

SetStatus(i, status) == Put(i, [record[i] EXCEPT !.status = status])

Goto(h, place) == request' = [request EXCEPT ![h].at = place]
Done(h) == request' = [request EXCEPT ![h] = Idle]

(* The requests that wait for i's child are rejected. *)
RejectNothing(i) == request     \* mutant: they are left waiting

RejectPending(i) ==
    [h \in Handlers |-> IF request[h].on = i /\ request[h].at \in OnChild
                        THEN [request[h] EXCEPT !.at = "lost"] ELSE request[h]]

(* liveInstances.delete(). *)
Forget(i) == live' = live \ {i}

(* Radius granted i a registration. *)
Granted(i) ==
    /\ owner' = [owner EXCEPT ![pis + 1] = i]
    /\ late' = IF i \in live /\ record[i].status \in {"starting", "online"} THEN late
               ELSE late \cup {i}

-----------------------------------------------------------------------------
(* disconnectPi() deletes the heartbeat state; the last heartbeat may still *)
(* be on its way. *)
DropHeartbeat(i) ==
    /\ heartbeat' = [heartbeat EXCEPT ![i] = 0]
    /\ beats' \in {beats} \cup (IF heartbeat[i] = 0 THEN {} ELSE {beats \cup {i}})

(* cleanupAcquiredResources(), called by handler h whose request becomes q. *)

(* Mutants of Dispose: the child is let go of and not killed; the exit of a *)
(* child that has exited is awaited. *)
NotKilled(h, q) ==
    /\ rpc' = rpc \ {q.on}
    /\ request' = [request EXCEPT ![h] = [q EXCEPT !.at = "finish"]]
    /\ UNCHANGED child

ExitedAwaited(h, q) ==
    IF q.held
    THEN /\ rpc' = rpc \ {q.on}
         /\ child' = [child EXCEPT ![q.on] = IF @ = "up" THEN "term" ELSE @]
         /\ request' = [RejectPending(q.on) EXCEPT ![h] = [q EXCEPT !.at = "dispose"]]
    ELSE /\ request' = [request EXCEPT ![h] = [q EXCEPT !.at = "finish"]]
         /\ UNCHANGED <<rpc, child>>

(* From the disposal of the child on. *)
Dispose(h, q) ==
    IF q.held
    THEN /\ rpc' = rpc \ {q.on}
         /\ child' = [child EXCEPT ![q.on] = IF @ = "up" THEN "term" ELSE @]
         /\ request' = [RejectPending(q.on) EXCEPT ![h] =
               [q EXCEPT !.at = IF child[q.on] = "exited" THEN "finish" ELSE "dispose"]]
    ELSE /\ request' = [request EXCEPT ![h] = [q EXCEPT !.at = "finish"]]
         /\ UNCHANGED <<rpc, child>>

CleanUp(h, i, op) ==
    LET q == [Asks(op, i, "disconnect") EXCEPT !.held = i \in rpc, !.pi = record[i].pi] IN
    /\ bound' = bound \ {i}
    /\ IF pi[i] # 0
       THEN /\ DropHeartbeat(i)
            /\ request' = [request EXCEPT ![h] = q]
            /\ UNCHANGED <<rpc, child>>
       ELSE Dispose(h, q) /\ UNCHANGED <<heartbeat, beats>>

(* Radius answers disconnectPi(); an error leaves the child as it is. *)
Disconnected(h) ==
    LET q == request[h]
        i == q.on IN
    /\ Quiet /\ At(h, "disconnect")
    /\ \/ /\ remote' = remote \ {q.pi}
          /\ pi' = [pi EXCEPT ![i] = 0]
          /\ record' = [record EXCEPT ![i].pi = 0]
          /\ Dispose(h, q)
          /\ UNCHANGED <<faults, leaked>>
       \/ /\ Fault
          /\ leaked' = leaked \cup {i}
          /\ request' = [request EXCEPT ![h].at = "finish", ![h].ok = FALSE]
          /\ UNCHANGED <<remote, pi, record, rpc, child>>
    /\ UNCHANGED <<process, file, live, bound, exits, heartbeat, misses, beats,
                   reregs, machine, pis, spawned, received, late, lost, owner>>

(* The finally blocks of failSpawn() and stopInstance(). *)
Finally(h) ==
    LET i == request[h].on IN
    /\ IF request[h].op = "spawn" THEN SetStatus(i, "stopped")
       ELSE /\ record' = [record EXCEPT ![i].status = "stopped"]
            /\ file' = [file EXCEPT ![i] = NoRecord]
    /\ Forget(i)

Finish(h) ==
    /\ At(h, "finish")
    /\ Finally(h)
    /\ Done(h)
    /\ daemon' = IF h = Shutdown /\ ~request[h].ok THEN "spinning" ELSE daemon
    /\ UNCHANGED <<recovery, closing, rpc, bound, pi, child, exits, presence,
                   counts, history>>

-----------------------------------------------------------------------------
(* spawnInstance().                                                        *)

Spawn(h) ==
    LET i == spawned + 1 IN
    /\ spawned < MaxSpawns /\ spawned' = i
    /\ Cardinality(live) < MaxLive
    /\ Receive /\ h = received + 1
    /\ live' = live \cup {i} /\ rpc' = rpc \cup {i} /\ bound' = bound \cup {i}
    /\ child' = [child EXCEPT ![i] = "up"]
    /\ Put(i, [status |-> "starting", pi |-> 0])
    /\ request' = [request EXCEPT ![h] = Asks("spawn", i, "get_state")]
    /\ UNCHANGED <<process, pi, exits, presence, faults, history>>

(* syncInstanceRecord() ends: the record is written, registerPi() is called. *)
GotState(h) ==
    /\ At(h, "got_state")
    /\ Put(request[h].on, record[request[h].on])
    /\ Goto(h, "register")
    /\ UNCHANGED <<process, live, rpc, bound, pi, child, exits, presence,
                   counts, history>>

FailSpawn(h) ==
    LET i == request[h].on IN
    /\ SetStatus(i, "error")
    /\ CleanUp(h, i, "spawn")
    /\ UNCHANGED <<process, live, pi, exits, misses, reregs, machine,
                   remote, pis, spawned, received, history>>

(* The child's answer will not come: it exited, or was disposed of. *)
SpawnLost(h) ==
    /\ At(h, "lost") /\ request[h].op = "spawn"
    /\ FailSpawn(h)
    /\ UNCHANGED faults

(* startPiHeartbeat(). *)
StartHeartbeat(i) ==
    /\ pis < MaxPis
    /\ pis' = pis + 1
    /\ remote' = remote \cup {pis + 1}
    /\ heartbeat' = [heartbeat EXCEPT ![i] = pis + 1]
    /\ misses' = [misses EXCEPT ![i] = 0]

(* Radius answers registerPi(): the record goes online, live or not. *)
Registered(h) ==
    LET i == request[h].on IN
    /\ Quiet /\ At(h, "register")
    /\ StartHeartbeat(i)
    /\ pi' = [pi EXCEPT ![i] = pis + 1]
    /\ Put(i, [status |-> "online", pi |-> pis + 1])
    /\ Granted(i)
    /\ Done(h)
    /\ UNCHANGED <<process, live, rpc, bound, child, exits, beats, reregs,
                   machine, counts, leaked, lost>>

RegisterFails(h) ==
    /\ Quiet /\ At(h, "register")
    /\ Refused
    /\ FailSpawn(h)

-----------------------------------------------------------------------------
(* stopInstance(), and shutdown(), which stops every live instance in turn. *)

StopInstance(h, i) ==
    /\ i \in live
    /\ SetStatus(i, "stopping")
    /\ CleanUp(h, i, "stop")
    /\ UNCHANGED <<daemon, recovery, live, pi, exits, misses, reregs, machine,
                   remote, pis, faults, history>>

Stop(h, i) ==
    /\ UNCHANGED <<closing, spawned>>
    /\ Receive /\ h = received + 1
    /\ StopInstance(h, i)

Signal ==
    /\ daemon = "up" /\ Quiet
    /\ daemon' = "stopping" /\ closing' = live
    /\ UNCHANGED <<recovery, file, tables, request, exits, presence, counts, history>>

ShutdownNext ==
    /\ daemon = "stopping" /\ closing # {} /\ Quiet /\ At(Shutdown, "idle")
    /\ closing' = closing \ {Least(closing)}
    /\ \/ StopInstance(Shutdown, Least(closing)) /\ UNCHANGED <<received, spawned>>
       \/ /\ Least(closing) \notin live
          /\ UNCHANGED <<daemon, recovery, file, tables, request, exits, presence,
                         counts, history>>

(* What ends with the process: its children read end of file and exit. *)
Reset ==
    /\ live' = {} /\ rpc' = {} /\ bound' = {}
    /\ record' = [i \in Instances |-> NoRecord]
    /\ pi' = [i \in Instances |-> 0]
    /\ child' = [i \in Instances |-> IF child[i] = "none" THEN "none" ELSE "exited"]
    /\ request' = [h \in Handlers |-> Idle]
    /\ exits' = {}
    /\ heartbeat' = [i \in Instances |-> 0]
    /\ misses' = [i \in Instances |-> 0]
    /\ beats' = {}
    /\ reregs' = {} /\ machine' = {}
    /\ recovery' = NoRecovery /\ closing' = {}

(* radiusPresence.stop() and process.exit(); if Radius fails the shutdown  *)
(* promise rejects, and unhandledRejection awaits it again without end.    *)
ShutdownEnds ==
    /\ daemon = "stopping" /\ closing = {} /\ Quiet /\ At(Shutdown, "idle")
    /\ \/ /\ daemon' = "down" /\ Reset
          /\ UNCHANGED faults
       \/ /\ Fault /\ daemon' = "spinning"
          /\ heartbeat' = [i \in Instances |-> 0]
          /\ UNCHANGED <<recovery, closing, tables, request, exits, misses, beats, reregs,
                         machine>>
    /\ UNCHANGED <<file, remote, pis, spawned, received, history>>

(* The process dies, perhaps while it writes the file: a file that does not *)
(* parse is read as an empty one. *)
Crash ==
    /\ daemon # "down"
    /\ Fault
    /\ daemon' = "down" /\ Reset
    /\ \/ UNCHANGED <<file, lost>>
       \/ /\ live # {}
          /\ file' = [i \in Instances |-> NoRecord]
          /\ lost' = 1..spawned
    /\ UNCHANGED <<remote, pis, spawned, received, late, leaked, owner>>

-----------------------------------------------------------------------------
(* recoverAfterRestart(): the socket is open while it awaits Radius.       *)

(* Mutant: the Pi is cleared before it was disconnected. *)
PiCleared(rec) == IF rec = NoRecord THEN rec ELSE [status |-> "stopped", pi |-> 0]

Recovered(rec) ==
    [rec EXCEPT !.status = IF @ \in {"online", "starting"} THEN "stopped" ELSE @]

RecoverAfterRestart ==
    LET list == [i \in Instances |-> Recovered(file[i])]
        todo == {i \in Instances : file[i].pi # 0} IN
    /\ daemon = "down"
    /\ IF todo = {} THEN daemon' = "up" /\ file' = list /\ UNCHANGED recovery
       ELSE daemon' = "recovering" /\ recovery' = [list |-> list, todo |-> todo]
            /\ UNCHANGED file
    /\ UNCHANGED <<closing, tables, request, exits, presence, counts, history>>

(* One disconnectPi() is answered; after the last the list is saved. *)
RecoverNext ==
    LET i == Least(recovery.todo)
        rest == recovery.todo \ {i} IN
    /\ daemon = "recovering" /\ Quiet
    /\ remote' = remote \ {recovery.list[i].pi}
    /\ heartbeat' = [heartbeat EXCEPT ![i] = 0]
    /\ IF rest = {} THEN /\ daemon' = "up" /\ file' = recovery.list /\ recovery' = NoRecovery
                         /\ lost' = lost \cup live
       ELSE recovery' = [recovery EXCEPT !.todo = rest] /\ UNCHANGED <<daemon, file, lost>>
    /\ UNCHANGED <<closing, tables, request, exits, misses, beats, reregs, machine, pis,
                   counts, late, leaked, owner>>

-----------------------------------------------------------------------------
(* rpc requests.  A stream that was opened while the instance was live     *)
(* keeps its process, so a command reaches every child that has not exited *)
(* (else send() throws).                                                   *)

HandleRpc(h, i, meta) ==
    /\ UNCHANGED spawned
    /\ Receive /\ h = received + 1
    /\ child[i] \in {"up", "term"}
    /\ request' = [request EXCEPT ![h] = [Asks("rpc", i, "rpc") EXCEPT !.meta = meta]]
    /\ UNCHANGED <<process, file, tables, exits, presence, faults, history>>

GotResponse(h) ==
    LET i == request[h].on IN
    /\ At(h, "got_rpc")
    /\ IF request[h].meta
       THEN IF i \in rpc THEN Goto(h, "sync") /\ UNCHANGED <<file, record>>
            ELSE Done(h) /\ Put(i, record[i])
       ELSE Done(h) /\ UNCHANGED <<file, record>>
    /\ UNCHANGED <<process, live, rpc, bound, pi, child, exits, presence,
                   counts, history>>

Synced(h) ==
    LET i == request[h].on IN
    /\ At(h, "got_sync")
    /\ Put(i, record[i])
    /\ Done(h)
    /\ UNCHANGED <<process, live, rpc, bound, pi, child, exits, presence,
                   counts, history>>

RpcLost(h) ==
    /\ At(h, "lost") /\ request[h].op = "rpc"
    /\ Done(h)
    /\ UNCHANGED <<process, file, tables, exits, presence, counts, history>>

-----------------------------------------------------------------------------
(* The child process.                                                      *)

ChildAnswers(h) ==
    LET q == request[h] IN
    /\ Quiet /\ Serving /\ q.at \in OnChild
    /\ child[q.on] \in {"up", "term"}
    /\ Goto(h, CASE q.at = "get_state" -> "got_state" [] q.at = "rpc" -> "got_rpc"
                 [] OTHER -> "got_sync")
    /\ UNCHANGED <<process, file, tables, exits, presence, counts, history>>

(* Mutant: a child that exits while its record is "starting" is not handled. *)
StartingIgnored(i) ==
    i \in bound /\ i \in live /\ record[i].status \notin {"starting", "stopping", "stopped"}

(* handleUnexpectedRpcExit() goes past its early returns. *)
Unexpected(i) == i \in bound /\ i \in live /\ record[i].status \notin {"stopping", "stopped"}

ChildExits(i) ==
    /\ Quiet /\ Serving /\ child[i] \in {"up", "term"}
    /\ child' = [child EXCEPT ![i] = "exited"]
    /\ request' = [h \in Handlers |->
           IF request[h].on = i /\ At(h, "dispose") THEN [request[h] EXCEPT !.at = "finish"]
           ELSE RejectPending(i)[h]]
    /\ IF Unexpected(i)
       THEN /\ SetStatus(i, "error")
            /\ bound' = bound \ {i} /\ rpc' = rpc \ {i}
            /\ IF pi[i] # 0
               THEN /\ DropHeartbeat(i)
                    /\ exits' = exits \cup {[on |-> i, pi |-> record[i].pi]}
                    /\ UNCHANGED live
               ELSE Forget(i) /\ UNCHANGED <<heartbeat, beats, exits>>
       ELSE UNCHANGED <<file, live, record, rpc, bound, exits, heartbeat, beats>>
    /\ UNCHANGED <<process, pi, misses, reregs, machine, remote, pis,
                   counts, history>>

(* Radius answers the exit handler's disconnectPi(). *)
ExitDisconnected(x) ==
    /\ Quiet /\ x \in exits /\ exits' = exits \ {x}
    /\ Forget(x.on)
    /\ \/ /\ remote' = remote \ {x.pi}
          /\ Put(x.on, [record[x.on] EXCEPT !.pi = 0])
          /\ UNCHANGED <<faults, leaked>>
       \/ /\ Fault /\ leaked' = leaked \cup {x.on}
          /\ UNCHANGED <<remote, file, record>>
    /\ UNCHANGED <<process, rpc, bound, pi, child, request, heartbeat, misses,
                   beats, reregs, machine, pis, spawned, received, late, lost, owner>>

-----------------------------------------------------------------------------
(* Radius presence: heartbeats, and registering again what Radius forgot.  *)

(* reRegisterPi() up to its await: it copies the record. *)
ReRegister(i, by) ==
    IF i \in live THEN reregs' = reregs \cup {[on |-> i, by |-> by, copy |-> record[i]]}
                       /\ UNCHANGED heartbeat
    ELSE heartbeat' = [heartbeat EXCEPT ![i] = 0] /\ UNCHANGED reregs

(* Mutant: a missed heartbeat is counted and never acted upon. *)
OnlyCounted(i) ==
    /\ Quiet /\ Serving
    /\ heartbeat[i] \notin remote \cup {0}
    /\ misses' = [misses EXCEPT ![i] = @ + 1]
    /\ UNCHANGED <<process, file, tables, request, exits, heartbeat, beats, reregs, machine,
                   remote, pis, counts, history>>

(* Radius answers 404 to a heartbeat.  (Its other answers only set the next *)
(* one.)  The state it was posted for may have been deleted meanwhile.      *)
HeartbeatMissed(i) ==
    /\ Quiet /\ Serving
    /\ \/ /\ heartbeat[i] \notin remote \cup {0}
          /\ \A r \in reregs : ~(r.on = i /\ r.by = "heartbeat")
          /\ UNCHANGED beats
       \/ i \in beats /\ beats' = beats \ {i}
    /\ IF misses[i] + 1 < NotFoundThreshold
       THEN misses' = [misses EXCEPT ![i] = @ + 1] /\ UNCHANGED <<reregs, heartbeat>>
       ELSE ReRegister(i, "heartbeat") /\ UNCHANGED misses
    /\ UNCHANGED <<process, file, tables, request, exits, machine, remote, pis, counts, history>>

(* Radius answers reRegisterPi()'s request; updateInstance() puts the copy, *)
(* which may be stale, in place of the record. *)
ReRegistered(r) ==
    LET rec == [r.copy EXCEPT !.pi = pis + 1] IN
    /\ Quiet /\ r \in reregs /\ reregs' = reregs \ {r}
    /\ \/ /\ StartHeartbeat(r.on) /\ Granted(r.on)
          /\ file' = [file EXCEPT ![r.on] = rec]
          /\ IF r.on \in live THEN record' = [record EXCEPT ![r.on] = rec]
                                   /\ pi' = [pi EXCEPT ![r.on] = rec.pi]
             ELSE UNCHANGED <<record, pi>>
          /\ UNCHANGED faults
       \/ /\ Refused
          /\ UNCHANGED <<file, record, pi, heartbeat, misses, remote, pis, late, lost, owner>>
    /\ UNCHANGED <<process, live, rpc, bound, child, request, exits, beats,
                   machine, spawned, received, leaked, lost>>

(* Radius forgets one Pi, or every Pi and the machine, which is registered *)
(* again together with its live instances, one after the other.            *)
RadiusForgets ==
    /\ Quiet /\ Serving /\ Fault
    /\ \E p \in remote : remote' = remote \ {p}
    /\ UNCHANGED <<process, file, tables, request, exits, heartbeat, misses, beats, reregs,
                   machine, pis, spawned, received, history>>

MachineForgotten ==
    /\ Quiet /\ Serving /\ Fault
    /\ live # {} /\ machine = {}
    /\ remote' = {} /\ machine' = live
    /\ UNCHANGED <<process, file, tables, request, exits, heartbeat, misses, beats, reregs,
                   pis, spawned, received, history>>

MachineNext ==
    /\ Quiet /\ Serving /\ machine # {}
    /\ \A r \in reregs : r.by # "machine"
    /\ machine' = machine \ {Least(machine)}
    /\ ReRegister(Least(machine), "machine")
    /\ UNCHANGED <<process, file, tables, request, exits, misses, beats, remote, pis,
                   counts, history>>

-----------------------------------------------------------------------------
Continue(h) ==
    \/ GotState(h) \/ SpawnLost(h) \/ GotResponse(h) \/ Synced(h) \/ RpcLost(h) \/ Finish(h)

Radius ==
    \/ \E h \in Handlers : Disconnected(h) \/ Registered(h) \/ RegisterFails(h)
    \/ \E x \in exits : ExitDisconnected(x)
    \/ \E i \in Instances : HeartbeatMissed(i)
    \/ \E r \in reregs : ReRegistered(r)

Next ==
    \/ \E h \in Handlers : Continue(h)
    \/ \E h \in Requests : Spawn(h)
    \/ \E h \in Requests, i \in Instances : Stop(h, i)
    \/ \E h \in Requests, i \in Instances, meta \in BOOLEAN : HandleRpc(h, i, meta)
    \/ \E i \in Instances : ChildExits(i)
    \/ \E h \in Handlers : ChildAnswers(h)
    \/ Signal \/ ShutdownNext \/ ShutdownEnds
    \/ Crash \/ RecoverAfterRestart \/ RecoverNext
    \/ Radius
    \/ RadiusForgets \/ MachineForgotten \/ MachineNext

Spec == Init /\ [][Next]_vars

(* What is awaited is answered: Radius answers, the child answers or exits *)
(* (SIGKILL follows SIGTERM after 5 s), continuations run.                 *)
Fairness ==
    /\ \A h \in Handlers : WF_vars(Continue(h))
    /\ \A h \in Handlers : WF_vars(Disconnected(h))
    /\ \A h \in Handlers : WF_vars(Registered(h) \/ RegisterFails(h))
    /\ \A h \in Handlers : WF_vars(ChildAnswers(h))
    /\ \A i \in Instances : WF_vars(child[i] = "term" /\ ChildExits(i))
    /\ WF_vars(ShutdownNext) /\ WF_vars(ShutdownEnds)

FairSpec == Spec /\ Fairness

-----------------------------------------------------------------------------
(* Properties.                                                             *)

Records == [status : Statuses, pi : Pis] \cup {NoRecord}

TypeOK ==
    /\ daemon \in {"recovering", "up", "stopping", "spinning", "down"}
    /\ recovery.list \in [Instances -> Records] /\ recovery.todo \subseteq Instances
    /\ closing \subseteq Instances
    /\ file \in [Instances -> Records] /\ record \in [Instances -> Records]
    /\ {live, rpc, bound, beats, machine, late, leaked, lost} \subseteq SUBSET Instances
    /\ {pi, heartbeat} \subseteq [Instances -> Pis]
    /\ child \in [Instances -> {"none", "up", "term", "exited"}]
    /\ request \in [Handlers -> [op : {"none", "spawn", "stop", "rpc"},
           on : Instances \cup {0}, at : Places, meta : BOOLEAN, held : BOOLEAN,
           pi : Pis, ok : BOOLEAN]]
    /\ exits \subseteq [on : Instances, pi : Pis]
    /\ misses \in [Instances -> 0..NotFoundThreshold]
    /\ reregs \subseteq [on : Instances, by : {"heartbeat", "machine"}, copy : Records]
    /\ remote \subseteq Pis
    /\ spawned \in 0..MaxSpawns /\ received \in 0..MaxRequests /\ pis \in Pis
    /\ faults \in 0..MaxFaults

(* Every child has someone to end it: one that runs belongs to a live       *)
(* instance, so stop reaches it, and one that was sent SIGTERM has a handler *)
(* that waits, and sends SIGKILL.  The exception is the code's: an error of  *)
(* disconnectPi() skips dispose(). *)
NoOrphan ==
    \A i \in Instances :
        /\ child[i] = "up" => i \in (live \cap rpc) \cup leaked
        /\ child[i] = "term" => \E h \in Handlers : request[h].on = i /\ At(h, "dispose")

(* No request waits for the answer of a child that has exited. *)
NoWaitOnDead ==
    \A h \in Handlers : request[h].at \in OnChild => child[request[h].on] # "exited"

(* What `list' reads from the file and `status' from memory is the same: a  *)
(* live instance has on disk the status the supervisor holds, as long as    *)
(* the file did not lose its record.                                        *)
FileAgrees ==
    Quiet => \A i \in live \ lost : file[i].status = record[i].status

(* No ghosts: an instance recorded as starting or online is live and its    *)
(* child runs.  The one exception is an instance that Radius registered, or *)
(* registered again, while it was being stopped or was gone: the answer     *)
(* writes the record back.                                                  *)
NoGhost ==
    daemon \in {"up", "stopping"} =>
        \A i \in Instances \ late :
            file[i].status \in {"starting", "online"} => i \in live /\ child[i] = "up"

(* A Pi that Radius knows can be disconnected some day, whatever crashes:   *)
(* the newest one granted to an instance is in the file, where a restart    *)
(* finds it.  Exceptions: the late registrations above, a disconnect that   *)
(* failed, a file that lost the record.                                     *)
NoLeakedPi ==
    \A p \in remote :
        \/ \E later \in (p + 1)..pis : owner[later] = owner[p]
        \/ file[owner[p]].pi = p
        \/ owner[p] \in late \cup leaked \cup lost

(* Every request is answered, also when its child dies, is stopped, or      *)
(* ignores SIGTERM; unless the daemon spins. *)
Answered ==
    \A h \in Handlers : ~At(h, "idle") ~> At(h, "idle") \/ daemon = "spinning"

(* A signal ends the daemon ("until a signal or fatal error triggers         *)
(* shutdown").  It does not when Radius fails while an instance is stopped. *)
ShutdownExits == daemon = "stopping" ~> daemon = "down"
=============================================================================
