--------------------------- MODULE HeartbeatCache ---------------------------
(***************************************************************************)
(* The scheduler's in-memory heartbeat cache and its two writers           *)
(* (rust/scheduler/src/state/executor_manager.rs, scheduler_server/grpc.rs)*)
(*                                                                         *)
(* heart_beat_from_executor (and poll_work) stamp a heartbeat with the     *)
(* scheduler's clock and call save_executor_heartbeat, which puts it in    *)
(* the Heartbeats keyspace and then inserts it in the cache.  The          *)
(* ExecutorHeartbeatListener, started by init after a scan of the          *)
(* keyspace has filled the cache, inserts the value of every Put event of  *)
(* the watch, in order, on its own task.  An executor sends its heartbeats *)
(* one after another.  A scheduler restart drops the cache, the watch and  *)
(* the requests in flight and runs init again.                             *)
(***************************************************************************)
EXTENDS Naturals, Sequences

CONSTANTS
    Executor,
    MaxTime,       \* last second of the scheduler clock
    MaxRestarts    \* scheduler restarts

VARIABLES
    now,       \* the scheduler clock, in seconds
    store,     \* Heartbeats keyspace: timestamp per executor, 0 = absent
    events,    \* Put events of the watch not yet consumed by the listener
    cache,     \* executors_heartbeat: timestamp per executor, 0 = absent
    call,      \* each executor's heartbeat request: [pc, ts]
    sent,      \* the timestamp of each executor's last heartbeat request
    restarts

vars == <<now, store, events, cache, call, sent, restarts>>

Time == 0..MaxTime

-----------------------------------------------------------------------------

\* heart_beat_from_executor: a request arrives and is stamped with
\* SystemTime::now(); the executor sends at most one per second
HeartbeatRequest(e) ==
    /\ call[e].pc = "idle"
    /\ now > sent[e]
    /\ call' = [call EXCEPT ![e] = [pc |-> "stamped", ts |-> now]]
    /\ sent' = [sent EXCEPT ![e] = now]
    /\ UNCHANGED <<now, store, events, cache, restarts>>

\* save_executor_heartbeat: state.put(Heartbeats, ..).await? either writes
\* the key and emits a Put event, or fails and the request returns Err
SavePut(e) ==
    /\ call[e].pc = "stamped"
    /\ \/ /\ store' = [store EXCEPT ![e] = call[e].ts]
          /\ events' = Append(events, [id |-> e, ts |-> call[e].ts])
          /\ call' = [call EXCEPT ![e].pc = "put"]
       \/ /\ call' = [call EXCEPT ![e].pc = "idle"]
          /\ UNCHANGED <<store, events>>
    /\ UNCHANGED <<now, cache, sent, restarts>>

\* mutant: the cache is updated even when the put failed
SaveInsertOnError(e) ==
    /\ call[e].pc \in {"put", "stamped"}
    /\ cache' = [cache EXCEPT ![e] = call[e].ts]
    /\ call' = [call EXCEPT ![e].pc = "idle"]
    /\ UNCHANGED <<now, store, events, sent, restarts>>

\* save_executor_heartbeat: executors_heartbeat.write().insert(..)
SaveInsert(e) ==
    /\ call[e].pc = "put"
    /\ cache' = [cache EXCEPT ![e] = call[e].ts]
    /\ call' = [call EXCEPT ![e].pc = "idle"]
    /\ UNCHANGED <<now, store, events, sent, restarts>>

\* ExecutorHeartbeatListener: the next WatchEvent::Put is decoded and
\* inserted, whatever the cache holds for that executor
WatchPut ==
    /\ events # <<>>
    /\ cache' = [cache EXCEPT ![Head(events).id] = Head(events).ts]
    /\ events' = Tail(events)
    /\ UNCHANGED <<now, store, call, sent, restarts>>

\* mutant: init starts the watch without scanning the keyspace
RestartNoScan ==
    /\ restarts < MaxRestarts
    /\ cache' = [e \in Executor |-> 0]
    /\ events' = <<>>
    /\ call' = [e \in Executor |-> [pc |-> "idle", ts |-> 0]]
    /\ restarts' = restarts + 1
    /\ UNCHANGED <<now, store, sent>>

\* the scheduler restarts: ExecutorManager::init runs
\* init_executor_heartbeats (scan into a fresh cache), then starts a new
\* watch; requests in flight are lost
Restart ==
    /\ restarts < MaxRestarts
    /\ cache' = store
    /\ events' = <<>>
    /\ call' = [e \in Executor |-> [pc |-> "idle", ts |-> 0]]
    /\ restarts' = restarts + 1
    /\ UNCHANGED <<now, store, sent>>

Tick ==
    /\ now < MaxTime
    /\ now' = now + 1
    /\ UNCHANGED <<store, events, cache, call, sent, restarts>>

-----------------------------------------------------------------------------

Init ==
    /\ now = 1
    /\ store = [e \in Executor |-> 0]
    /\ events = <<>>
    /\ cache = [e \in Executor |-> 0]
    /\ call = [e \in Executor |-> [pc |-> "idle", ts |-> 0]]
    /\ sent = [e \in Executor |-> 0]
    /\ restarts = 0

\* the scheduler stops changing once the clock, the restarts and every
\* request are used up and the watch is drained
Quiescent ==
    /\ now = MaxTime
    /\ events = <<>>
    /\ \A e \in Executor : call[e].pc = "idle" /\ sent[e] = MaxTime

Next ==
    \/ \E e \in Executor :
          HeartbeatRequest(e) \/ SavePut(e) \/ SaveInsert(e)
    \/ WatchPut
    \/ Restart
    \/ Tick
    \/ Quiescent /\ UNCHANGED vars

\* the save path runs to completion once its request was accepted, and the
\* listener task consumes every event; clients and the clock are not fair
Fairness ==
    /\ \A e \in Executor : WF_vars(SavePut(e)) /\ WF_vars(SaveInsert(e))
    /\ WF_vars(WatchPut)

Spec == Init /\ [][Next]_vars /\ Fairness

-----------------------------------------------------------------------------
(* Properties                                                              *)

TypeOK ==
    /\ now \in Time
    /\ store \in [Executor -> Time]
    /\ cache \in [Executor -> Time]
    /\ events \in Seq([id : Executor, ts : Time])
    /\ call \in [Executor -> [pc : {"idle", "stamped", "put"}, ts : Time]]
    /\ sent \in [Executor -> Time]
    /\ restarts \in 0..MaxRestarts

\* The cache converges on the persisted heartbeats: once the requests stop,
\* every executor's cached timestamp is the one the Heartbeats keyspace
\* holds, whatever the order of saves, watch events, failed puts and
\* restarts before.
CacheConverges == <>[](cache = store)

=============================================================================
