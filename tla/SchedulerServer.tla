--------------------------- MODULE SchedulerServer ---------------------------
(***************************************************************************)
(* One job under pull scheduling: the scheduler's RPC handlers             *)
(* (rust/scheduler/src/scheduler_server/grpc.rs: execute_query, poll_work) *)
(* and the server's own tasks (scheduler/src/scheduler_server/mod.rs:      *)
(* update_task_status, the expiry loop of expire_dead_executors,           *)
(* remove_executor), around the query-stage event loop.                    *)
(*                                                                         *)
(* The event loop's handlers, the execution graph and the executor         *)
(* manager's dead-executor bookkeeping are not in this repository: they    *)
(* follow the design (JobQueued plans the job, TaskUpdating applies        *)
(* statuses, ExecutorLost returns the running tasks of the executor to     *)
(* the unscheduled state; remove_executor drops the executor's heartbeat   *)
(* and records it as dead).                                                *)
(*                                                                         *)
(* The job has one stage; a partition is Partition's element.  Every       *)
(* executor has one task slot.  An executor polls in a loop, reporting the *)
(* statuses of the tasks it finished since its last poll.                  *)
(***************************************************************************)
EXTENDS Naturals, Sequences, FiniteSets

CONSTANTS
    Executor,
    Partition,
    NoExecutor,        \* model value
    Buffer,            \* event_loop_buffer_size
    MaxTime,
    Timeout,           \* DEFAULT_EXECUTOR_TIMEOUT_SECONDS
    MaxCrashes,
    PromptExecutors,   \* TRUE: a running executor polls well within Timeout
    StopOutcomes,      \* whether a stop_executor RPC can reach its executor
    MaxPollErrors      \* bound on the backend and task-definition errors of poll_work

ASSUME Buffer \in Nat \ {0} /\ MaxTime \in Nat /\ Timeout \in Nat
       /\ MaxCrashes \in Nat /\ PromptExecutors \in BOOLEAN
       /\ StopOutcomes \subseteq BOOLEAN /\ StopOutcomes # {}
       /\ MaxPollErrors \in Nat

VARIABLES
    now,        \* SystemTime::now() in seconds
    hb,         \* heartbeat cache: executor -> timestamp, 0 = absent
    dead,       \* executors remove_executor has recorded as dead
    stopped,    \* executor processes that are no longer running
    crashes,
    job,        \* the job's status
    task,       \* the graph: partition -> [st, on]
    q,          \* the query-stage event loop's channel
    poll,       \* each executor's poll_work call in progress: [pc, st]
    running,    \* the partition each executor is running, or {}
    finished,   \* partitions an executor finished and has not reported yet
    expiring,   \* the executor the expiry loop is removing, or NoExecutor
    lost,       \* history: executors whose ExecutorLost has been handled
    staleApplied, \* history: a status update was applied after ExecutorLost
    pollErrors  \* errors poll_work has met so far

vars == <<now, hb, dead, stopped, crashes, job, task, q, poll, running,
          finished, expiring, lost, staleApplied, pollErrors>>

Terminal == {"successful", "failed"}

Idle == [pc |-> "idle", st |-> {}]

Unscheduled == [st |-> "pending", on |-> NoExecutor]

\* get_expired_executors (design): heartbeats older than the timeout
Threshold == IF now >= Timeout THEN now - Timeout ELSE 0
Expired(e) == hb[e] > 0 /\ hb[e] < Threshold

-----------------------------------------------------------------------------
(* RPC handlers                                                            *)

\* execute_query: parse config, create or update the session, decode the
\* plan, queue_job, post JobQueued (waiting while the channel is full)
ExecuteQuery ==
    /\ job = "none"
    /\ Len(q) < Buffer
    /\ job' = "queued"
    /\ q' = Append(q, [ev |-> "JobQueued", e |-> NoExecutor, st |-> {}])
    /\ UNCHANGED <<now, hb, dead, stopped, crashes, task, poll, running,
                   finished, expiring, lost, staleApplied, pollErrors>>

\* mutant: update_task_status returns before posting, dead executor or not
PollStartDropStatuses(e) ==
    /\ e \notin stopped
    /\ poll[e].pc = "idle"
    /\ hb' = [hb EXCEPT ![e] = now]
    /\ poll' = [poll EXCEPT ![e] = [pc |-> "fill", st |-> {}]]
    /\ finished' = [finished EXCEPT ![e] = {}]
    /\ UNCHANGED <<now, dead, stopped, crashes, job, task, q, running,
                   expiring, lost, staleApplied, pollErrors>>

\* poll_work: save metadata and heartbeat; update_task_status drops the
\* reported statuses of an executor recorded as dead, and otherwise goes
\* on to post them
PollStart(e) ==
    /\ e \notin stopped
    /\ poll[e].pc = "idle"
    /\ hb' = [hb EXCEPT ![e] = now]
    /\ poll' = [poll EXCEPT ![e] = IF e \in dead
                                    THEN [pc |-> "fill", st |-> {}]
                                    ELSE [pc |-> "post", st |-> finished[e]]]
    /\ finished' = [finished EXCEPT ![e] = {}]
    /\ UNCHANGED <<now, dead, stopped, crashes, job, task, q, running,
                   expiring, lost, staleApplied, pollErrors>>

\* poll_work: save_executor_metadata, or save_executor_heartbeat after its
\* put failed, returns a storage error; `?` returns Status::internal before
\* update_task_status, so the request's statuses are not applied and the
\* heartbeat is not cached.  Whether the executor sends them again is up to
\* its poll loop, which is not in this repository: both outcomes are taken.
PollStartError(e) ==
    /\ e \notin stopped
    /\ poll[e].pc = "idle"
    /\ pollErrors < MaxPollErrors
    /\ pollErrors' = pollErrors + 1
    /\ \E resent \in BOOLEAN :
          finished' = IF resent THEN finished ELSE [finished EXCEPT ![e] = {}]
    /\ UNCHANGED <<now, hb, dead, stopped, crashes, job, task, q, poll,
                   running, expiring, lost, staleApplied>>

\* update_task_status: post TaskUpdating(executor, statuses)
PollPost(e) ==
    /\ poll[e].pc = "post"
    /\ Len(q) < Buffer
    /\ q' = Append(q, [ev |-> "TaskUpdating", e |-> e, st |-> poll[e].st])
    /\ poll' = [poll EXCEPT ![e] = [pc |-> "fill", st |-> {}]]
    /\ UNCHANGED <<now, hb, dead, stopped, crashes, job, task, running,
                   finished, expiring, lost, staleApplied, pollErrors>>

\* if can_accept_task, fill_reservations with a free reservation on the
\* executor: a pending partition of the running job, if any, is bound to it
PollFill(e) ==
    /\ poll[e].pc = "fill"
    /\ poll' = [poll EXCEPT ![e] = Idle]
    /\ IF running[e] = {} /\ job = "running"
          /\ \E p \in Partition : task[p].st = "pending"
       THEN \E p \in {x \in Partition : task[x].st = "pending"} :
               /\ task' = [task EXCEPT ![p] = [st |-> "running", on |-> e]]
               /\ running' = [running EXCEPT ![e] = {p}]
       ELSE UNCHANGED <<task, running>>
    /\ UNCHANGED <<now, hb, dead, stopped, crashes, job, q, finished,
                   expiring, lost, staleApplied, pollErrors>>

\* fill_reservations binds a pending partition to the executor, then
\* prepare_task_definition fails: the error is logged and poll_work answers
\* with no task, leaving the partition running on an executor that never
\* received it
PollFillPrepareError(e) ==
    /\ poll[e].pc = "fill"
    /\ running[e] = {} /\ job = "running"
    /\ pollErrors < MaxPollErrors
    /\ \E p \in {x \in Partition : task[x].st = "pending"} :
          task' = [task EXCEPT ![p] = [st |-> "running", on |-> e]]
    /\ poll' = [poll EXCEPT ![e] = Idle]
    /\ pollErrors' = pollErrors + 1
    /\ UNCHANGED <<now, hb, dead, stopped, crashes, job, q, running, finished,
                   expiring, lost, staleApplied>>

-----------------------------------------------------------------------------
(* Executors                                                               *)

\* the executor's task finishes successfully
ExecutorRun(e) ==
    /\ e \notin stopped
    /\ running[e] # {}
    /\ finished' = [finished EXCEPT ![e] = @ \cup running[e]]
    /\ running' = [running EXCEPT ![e] = {}]
    /\ UNCHANGED <<now, hb, dead, stopped, crashes, job, task, q, poll,
                   expiring, lost, staleApplied, pollErrors>>

\* the executor process dies, with its task and unreported statuses; the
\* scheduler-side handling of a request it already sent goes on
Crash(e) ==
    /\ e \notin stopped
    /\ crashes < MaxCrashes
    /\ now + Timeout < MaxTime
    /\ stopped' = stopped \cup {e}
    /\ crashes' = crashes + 1
    /\ running' = [running EXCEPT ![e] = {}]
    /\ finished' = [finished EXCEPT ![e] = {}]
    /\ UNCHANGED <<now, hb, dead, job, task, q, poll, expiring, lost, staleApplied, pollErrors>>

-----------------------------------------------------------------------------
(* The expiry loop of expire_dead_executors                                *)

\* remove_executor: executor_manager.remove_executor(..)
ExpireBegin(e) ==
    /\ expiring = NoExecutor
    /\ Expired(e)
    /\ dead' = dead \cup {e}
    /\ hb' = [hb EXCEPT ![e] = 0]
    /\ expiring' = e
    /\ UNCHANGED <<now, stopped, crashes, job, task, q, poll, running,
                   finished, lost, staleApplied, pollErrors>>

\* mutant: remove_executor's post_event fails and only the error is logged
ExpirePostDropped ==
    /\ expiring # NoExecutor
    /\ expiring' = NoExecutor
    /\ UNCHANGED <<now, hb, dead, stopped, crashes, job, task, q, poll,
                   running, finished, lost, staleApplied, pollErrors>>

\* remove_executor: post ExecutorLost; then the best-effort stop_executor
\* RPC, which stops the executor if it reaches it
ExpirePost ==
    /\ expiring # NoExecutor
    /\ Len(q) < Buffer
    /\ q' = Append(q, [ev |-> "ExecutorLost", e |-> expiring, st |-> {}])
    /\ \E reached \in StopOutcomes :
          /\ stopped' = IF reached THEN stopped \cup {expiring} ELSE stopped
          /\ running' = IF reached THEN [running EXCEPT ![expiring] = {}] ELSE running
          /\ finished' = IF reached THEN [finished EXCEPT ![expiring] = {}] ELSE finished
    /\ expiring' = NoExecutor
    /\ UNCHANGED <<now, hb, dead, crashes, job, task, poll, lost, staleApplied, pollErrors>>

-----------------------------------------------------------------------------
(* The query-stage event loop (design)                                     *)

\* JobQueued: plan the stages and submit the graph, or fail planning
HandleJobQueued ==
    /\ q # <<>> /\ Head(q).ev = "JobQueued"
    /\ job' \in {"running", "failed"}
    /\ q' = Tail(q)
    /\ UNCHANGED <<now, hb, dead, stopped, crashes, task, poll, running,
                   finished, expiring, lost, staleApplied, pollErrors>>

\* TaskUpdating: a successful status completes its partition (a no-op on
\* one already completed); the job succeeds with its last partition
HandleTaskUpdating ==
    /\ q # <<>> /\ Head(q).ev = "TaskUpdating"
    /\ LET u == Head(q)
           task2 == [p \in Partition |->
                       IF p \in u.st /\ task[p].st # "completed"
                       THEN [st |-> "completed", on |-> u.e] ELSE task[p]]
       IN  /\ task' = task2
           /\ job' = IF job = "running" /\ \A p \in Partition : task2[p].st = "completed"
                     THEN "successful" ELSE job
           /\ staleApplied' = (staleApplied \/ (u.e \in lost /\ u.st # {}))
    /\ q' = Tail(q)
    /\ UNCHANGED <<now, hb, dead, stopped, crashes, poll, running, finished,
                   expiring, lost, pollErrors>>

\* ExecutorLost: the running partitions of the executor become unscheduled
HandleExecutorLost ==
    /\ q # <<>> /\ Head(q).ev = "ExecutorLost"
    /\ task' = [p \in Partition |->
                  IF task[p].st = "running" /\ task[p].on = Head(q).e
                  THEN Unscheduled ELSE task[p]]
    /\ lost' = lost \cup {Head(q).e}
    /\ q' = Tail(q)
    /\ UNCHANGED <<now, hb, dead, stopped, crashes, job, poll, running,
                   finished, expiring, staleApplied, pollErrors>>

\* the clock; with PromptExecutors no running executor's heartbeat is
\* allowed to age past the timeout (it polls every few hundred ms)
Tick ==
    /\ now < MaxTime
    /\ PromptExecutors =>
          \A e \in Executor \ stopped : hb[e] = 0 \/ hb[e] >= now + 1 - Timeout
    /\ now' = now + 1
    /\ UNCHANGED <<hb, dead, stopped, crashes, job, task, q, poll, running,
                   finished, expiring, lost, staleApplied, pollErrors>>

-----------------------------------------------------------------------------

\* SchedulerServer::new (or a test constructor) and init: the event loop is
\* started with an empty channel of event_loop_buffer_size, the expiry loop
\* is spawned; every executor has registered at time 1
Init ==
    /\ now = 1
    /\ hb = [e \in Executor |-> 1]
    /\ dead = {}
    /\ stopped = {}
    /\ crashes = 0
    /\ job = "none"
    /\ task = [p \in Partition |-> Unscheduled]
    /\ q = <<>>
    /\ poll = [e \in Executor |-> Idle]
    /\ running = [e \in Executor |-> {}]
    /\ finished = [e \in Executor |-> {}]
    /\ expiring = NoExecutor
    /\ lost = {}
    /\ staleApplied = FALSE
    /\ pollErrors = 0

Next ==
    \/ ExecuteQuery
    \/ \E e \in Executor :
          \/ PollStart(e) \/ PollPost(e) \/ PollFill(e)
          \/ PollStartError(e) \/ PollFillPrepareError(e)
          \/ ExecutorRun(e) \/ Crash(e)
          \/ ExpireBegin(e)
    \/ ExpirePost
    \/ HandleJobQueued \/ HandleTaskUpdating \/ HandleExecutorLost
    \/ Tick

\* the event loop, the expiry loop, the handlers of a received request,
\* the clock and every running executor's poll loop make progress; the
\* client, crashes and errors are not fair.  A sender waiting on the full channel
\* gets a permit eventually (tokio's bounded mpsc queues waiting senders
\* in order), hence strong fairness for the steps that post
Fairness ==
    /\ WF_vars(HandleJobQueued) /\ WF_vars(HandleTaskUpdating)
    /\ WF_vars(HandleExecutorLost)
    /\ SF_vars(ExpirePost) /\ WF_vars(Tick)
    /\ \A e \in Executor :
          /\ WF_vars(PollStart(e)) /\ SF_vars(PollPost(e)) /\ WF_vars(PollFill(e))
          /\ WF_vars(ExecutorRun(e)) /\ WF_vars(ExpireBegin(e))

Spec == Init /\ [][Next]_vars /\ Fairness

-----------------------------------------------------------------------------
(* Properties                                                              *)

TypeOK ==
    /\ now \in 1..MaxTime
    /\ hb \in [Executor -> 0..MaxTime]
    /\ dead \subseteq Executor /\ stopped \subseteq Executor /\ lost \subseteq Executor
    /\ job \in {"none", "queued", "running"} \cup Terminal
    /\ task \in [Partition -> [st : {"pending", "running", "completed"},
                               on : Executor \cup {NoExecutor}]]
    /\ Len(q) <= Buffer
    /\ poll \in [Executor -> [pc : {"idle", "post", "fill"}, st : SUBSET Partition]]
    /\ running \in [Executor -> SUBSET Partition]
    /\ expiring \in Executor \cup {NoExecutor}
    /\ staleApplied \in BOOLEAN
    /\ pollErrors \in 0..MaxPollErrors

\* A queued job finishes: it eventually succeeds or fails, even when an
\* executor dies with a task on it (test_pull_scheduling runs it to the end).
JobTerminates == job = "queued" ~> job \in Terminal

\* Expiry correctness (design, section 8): an executor whose heartbeat is
\* older than the timeout is eventually removed by the expiry loop, and the
\* event loop handles its ExecutorLost, however full the channel is when
\* remove_executor posts it.
ExpiredExecutorLost == \A e \in Executor : Expired(e) ~> e \in lost

\* Status updates from a dead executor are ignored (update_task_status:
\* "We might receive buggy task updates from dead executors"): none is
\* applied to the graph after the executor's ExecutorLost.
NoUpdateAfterLost == ~staleApplied

=============================================================================
