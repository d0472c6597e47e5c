# TLA+ models of the Ballista scheduler and executor

These modules model the parts of Ballista under `src/` that coordinate
concurrent actors: the scheduler's slot ledger, its heartbeat cache, the pull
scheduling RPCs with the executor expiry loop, the executor's task runtime,
the job metrics, and the push-mode test harness. Each module is checked by
TLC under the configurations listed below. `PROJECT.json` maps every
definition that models code to the lines it translates. It also lists the
runs, the mutants that show each checked property can fail, the findings,
and the hazards.

## The system and how its parts interact

* **Executors** register with the scheduler (`register_executor`). They send
  heartbeats (`heart_beat_from_executor`). In pull mode they call
  `poll_work` in a loop, reporting finished task statuses and asking for a
  new task.
* **The executor manager** (`rust/scheduler/src/state/executor_manager.rs`)
  keeps one Slots record per executor in the state backend, with total and
  available task slots.
  * `reserve_slots` and `cancel_reservations` read and rewrite these records
    under a global Slots lock.
  * `register_executor` writes the record with a plain put.
  * Heartbeats are stored in the backend and cached in memory. The cache is
    fed both by `save_executor_heartbeat` and by a watch listener on the
    keyspace.
* **The scheduler server** (`scheduler/src/scheduler_server/mod.rs`) posts
  events to the query-stage event loop through a bounded channel:
  * `submit_job` posts JobQueued;
  * `update_task_status` posts TaskUpdating;
  * the expiry loop's `remove_executor` posts ExecutorLost.
* **The query-stage event loop** handles these events one at a time. Its
  handlers and the execution graph are not in this repository. They are
  modelled from the design and marked `spec_modelled` in the map.
* **The executor runtime** (`rust/executor/src/executor.rs`) runs each
  shuffle write as an abortable future and keeps its abort handle in a map,
  so that `cancel_task` can abort it.
* **The metrics collector** (`metrics/prometheus.rs`) is called by the event
  loop with wall-clock stamps in milliseconds.
* **`SchedulerTest`** (`test_utils.rs`) runs the event loop in push mode.
  * `VirtualTaskLauncher` runs launched tasks at once and sends their
    statuses into a bounded channel.
  * A forwarder task hands each status to `update_task_status`.

## Modules

| Module | Code | State | Actions |
|---|---|---|---|
| `ExecutorManager` | `reserve_slots`, `cancel_reservations`, `register_executor`, `heart_beat_from_executor` | Slots records, held reservations, the Slots lock, each scheduler task's loop state (`wk`), registration progress | one action per step between two awaits: lock and read the alive set, one loop iteration per executor, `put_txn` and unlock; a backend error at any await; registration's metadata, heartbeat and Slots puts, and its unwrap panic |
| `ClusterSlots` | the `ClusterState` trait's documented contract for `reserve_slots` (up to n slots), `cancel_reservations`, `register_executor` (`cluster/mod.rs`) | total, available and reserved slots per executor | each call as one atomic step: reserve any number of available slots (the contract's "as many as possible" depends on which executors are alive, which this ledger leaves out; `ReserveMaximal` checks it on `ExecutorManager`), cancel some reservations all at once, register a new executor with its slots free or all reserved |
| `ReserveSlots` | `reserve_slots_bias`, `reserve_slots_round_robin` (`cluster/mod.rs`) | none: the algorithms are RECURSIVE operators | checked against a reference contract over every free-slot vector of up to 3 executors with 0..3 slots, and every request up to 7 |
| `ExecutorRuntime` | `execute_shuffle_write`, `cancel_task` | each call's progress, its future's outcome, `abort_handles` | plan check, handle insert, the await (which resolves, is aborted, or both race), handle removal, `cancel_task` |
| `HeartbeatCache` | `save_executor_heartbeat`, `ExecutorHeartbeatListener`, `init_executor_heartbeats`, `init` | backend keyspace, watch events, cache, each executor's request in flight | heartbeat request, put (or failed put), insert, watch delivery, scheduler restart |
| `SchedulerServer` | `execute_query`, `poll_work`, `update_task_status`, `expire_dead_executors`, `remove_executor` | one single-stage job, partitions, event channel, dead and stopped executors, each executor's poll in progress | submit, the three steps of `poll_work` (status post, reservation fill), a failed metadata or heartbeat save, a failed `prepare_task_definition` after the fill, executor task run and crash, expiry (mark dead, then post ExecutorLost and a stop RPC that may not arrive), the three event handlers, the clock |
| `JobMetrics` | `record_*` of `PrometheusMetricsCollector`, `submit_job`, `timestamp_millis` | wall clock, job lifecycle, queued stamps, counters and histograms, whether the event loop is alive | submit, the job handlers calling the collector, clock tick and clock step back |
| `PushHarness` | `SchedulerTest::run`, `VirtualTaskLauncher::launch_tasks`, `default_task_runner` and the failing runner of `test_job_failure`, `TestMetricsCollector` and the `assert_*_event` helpers | event channel, status channel, the running handler's outbox, the forwarder's message, free slots, pending and completed tasks, the job status, the test's runner and plan, the recorded metric events | submit; JobQueued handling (planning failure, or JobSubmitted and the launches); TaskUpdating handling (apply statuses, free slots, emit JobFinished or JobFailed on a status change, refill); the loop's own JobSubmitted/JobFinished/JobFailed events recording metrics; the handler's posts to its own channel and its launches' sends; the forwarder's receive and post |

Each `MC_*` module gives the constants model values and small sets, and each
`MC_*_<name>.cfg` is one run.

## Runs

| Run | Checks | Result and meaning |
|---|---|---|
| `em_reserve` | TypeOK, SlotConservation, ReserveMaximal, ImplementsClusterState, SlotsLockReleased | passes. Two pre-registered executors and two scheduler tasks make concurrent `reserve_slots(0,1,3,5)` and `cancel_reservations` calls, with backend errors at every await. Slots are conserved, except those dropped by a failed cancel. Every call reserves min(n, available). The manager implements `ClusterSlots`. A task that holds the global Slots lock always releases it, whichever await fails. |
| `em_register` | SlotConservation, ImplementsClusterState | passes. Push-mode registration of both executors, with scheduler tasks cancelling the reservations it offered. The manager implements `ClusterSlots`. |
| `em_race` | SlotConservation | violation. `register_executor`'s unlocked put of the Slots record lands between `reserve_slots`' get and `put_txn`. The reserve had read the absent record as 0 total and 0 available, and its `put_txn` writes that back. The executor's `total_task_slots` is then 0 while its 2 offered slots are reserved, so available plus outstanding no longer equals the total. Nothing is booked twice, but once the reservations are cancelled the executor has 2 available slots out of a total of 0. |
| `slots_bias` | ReservationsAccounted, BiasReservesMaximal | passes. Both distribution algorithms account for every reservation; the bias one reserves min(n, free). |
| `rt_cancel` | CancelledCallFails | violation. The call's `task.await` resolves Ok. `cancel_task` then takes its handle before the call removes it, aborts the finished future and returns true, yet the call returns Ok. The scheduler's cancellation and `test_task_cancellation` take true to mean that the task will fail. |
| `hb_converge` | CacheConverges | passes. Through failed puts, watch events that arrive after a newer save, and a restart, the cache ends equal to the backend. |
| `ss_graph` | ExpiredExecutorLost | passes. With expiry, crashes, stop RPCs that may fail and one `poll_work` error, every executor whose heartbeat has expired is removed, and its ExecutorLost is handled, even when the event channel is full. |
| `ss_progress` | JobTerminates | passes. Without crashes, and with executors that poll in time, every queued job ends. |
| `ss_stale` | NoUpdateAfterLost | violation. A status passes `update_task_status`' dead check. The expiry loop then removes its executor and posts ExecutorLost, and only after that is TaskUpdating applied. |
| `ss_zombie` | JobTerminates | violation. An expired executor that the stop RPC did not reach keeps polling. `poll_work` gives it tasks, and `update_task_status` drops their statuses, so the job never ends. |
| `metrics_panic` | QueuedJobsFinish | violation. The wall clock steps back during planning and `submitted_at - queued_at` underflows. In a debug build this panics inside the event loop, and no job finishes. |
| `harness_drain` | TestsEventuallyPass | passes. The setups of `test_push_scheduling` (default runner), `test_job_failure` (every task fails, not retryable) and `test_planning_failure` (the plan does not plan), with 5 executors of 2 slots, 30 tasks, a status channel of 3 and an event channel of 5. `run` returns, and what each test asserts of the status and the events eventually holds. |

## Refinement

`ExecutorManager` defines `ClusterContract == INSTANCE ClusterSlots WITH ...`
and checks `ImplementsClusterState == ClusterContract!Spec` as a property.
The mapping is:

* `total` and `avail` are the Slots records in the backend;
* `reserved` is, per executor, the reservations the scheduler tasks hold,
  plus those in a cancel that has read but not yet committed, plus those a
  failed cancel dropped.

With this mapping every step of the manager is a stuttering step or one
atomic contract step. The steps are the lock, the per-executor loop
iterations and the backend errors. `put_txn` of a reserve is
`ReserveSlots`, `put_txn` of a cancel is `CancelReservations`, and the
registration's Slots put is `RegisterExecutor`. A failed cancel maps to
reservations that stay reserved forever. So "all or none" holds for the
slots that are returned, while the slots themselves are lost. `em_race` is
left out: there the unlocked registration put overwrites a record that a
reserve has already read, and no contract step explains it.

`PROJECT.json` lists, for every property of a passing run, a mutant of a
mapped definition that TLC finds violating it. Examples:

* a loop that breaks after the first executor;
* a record queued unchanged;
* an ExecutorLost post whose failure is only logged;
* a backend error that returns without dropping the Slots lock guard;
* a job status checked before the statuses of the message are applied.

## Bounds

* **ExecutorManager:**
  * 2 executors with 2 slots each and 2 scheduler tasks. This is enough for
    one task to interleave every step of another, and for a call to ask for
    more slots than exist.
  * The clock runs to 3 with a 1-second timeout, so executors can age out of
    the alive set.
* **ExecutorRuntime:** 2 calls on distinct keys. One call is enough for the
  cancel race; the second call lets a cancel of one key run beside the other.
* **HeartbeatCache:** 2 executors, clock to 4 and 1 restart. This gives two
  heartbeats per executor, enough for a stale watch event to overtake a newer
  save.
* **SchedulerServer:**
  * 2 executors and 2 partitions;
  * at most 1 `poll_work` error (`MaxPollErrors`), in `ss_graph` only;
  * an event channel of 2, which is full when two executors post at once;
  * clock to 4 with timeout 1, and 1 crash. `ss_graph` runs the clock to 3,
    which is still enough for a crash at time 1 to expire. This keeps its
    liveness check short.
* **JobMetrics:**
  * 2 jobs, clock to 3, and 1 step back;
  * stamps of 3 bits in place of u64. With MaxClock < 2^3, an underflow lands
    above every real duration, as a u64 wrap does.
* **PushHarness:**
  * each behaviour starts from the setup of one of the three push tests (`TestSetups`): the default runner, the always-failing runner, or the exploding plan.
  * 30 tasks over 5 executors of 2 slots take three rounds of launches, so
    statuses of different rounds meet in the channels. With the failing
    runner, statuses keep arriving after the job has failed.
  * Launching from inside the loop deadlocks only when Executors >= status
    capacity + event capacity + 2.
  * The loop also posts its own JobSubmitted, JobFinished and JobFailed
    events, and it waits for room in the channel that only it drains. With
    5 executors, TLC reports a deadlock for an event channel of 4 or less,
    since the forwarder can fill it with the statuses of every executor.
    `harness_drain` uses 5, the smallest capacity without the cycle. The
    tests use the default capacity of 10000.

## Fairness

Fairness is only assumed where the code provides it:

* **Weak fairness** for steps of tokio tasks that are ready to run:
  * the event loop's handlers;
  * a poll in progress;
  * the heartbeat save and the listener.
  * in `ExecutorManager`, each scheduler task's loop iteration and its `put_txn`. Starting a call, a backend error, registration and the clock are not forced;
  * in `PushHarness`, weak fairness of the whole next-state relation. Every actor there is a tokio task: the loop, the launcher's sends, the forwarder, and `run`'s polling loop, which sleeps 100 ms between polls. Every pending step belongs to one of them.
* **Strong fairness** for a post that waits on the bounded event channel
  (`PollPost`, `ExpirePost`). A tokio mpsc sender waiting for a permit is
  served in FIFO order, so a sender that is repeatedly able to send
  eventually does.
* **No fairness** for:
  * clients submitting jobs;
  * executor crashes;
  * clock step-backs;
  * backend and task-definition errors;
  * the choice of whether a stop RPC arrives.

`ss_progress` additionally assumes that running executors poll within the
timeout (`PromptExecutors`), which is how executors behave when they are
healthy. `ss_zombie` drops that assumption.

## Not modelled

* **`config.rs`:** pure data. Its buffer size and timeout appear as
  constants.
* **`get_file_metadata`:** object-store I/O.
* **`get_job_status` and `get_executor_state`:** reads only. The
  executor-metadata cache that `get_executor_metadata` reads is never
  written, so every read goes to the backend. The metadata itself is data
  that no property tells apart. The "Executor manager: metadata and
  clients" component is therefore not modelled.
* **The harness's `tick`, `cancel`, `submit`, `await_completion` and
  `BlackholeTaskLauncher`:** no test under `src/` uses them.
* **Metadata puts:** they carry data that no property tells apart.
* **The Prometheus text encoding:** not modelled.
* **`acquire_locks` of `cluster/storage/mod.rs`:** a trait default that no
  code calls here. It sorts the ids and then awaits every `lock` future at
  once through `try_join_all`. When those futures complete independently
  (a multi-threaded runtime, or a backend whose lock is an RPC), two callers
  over the same ids can each hold one lock and wait for the other's. The
  sort prevents this only if a single poll acquires every free lock in
  order. With no caller to drive it, this is listed as a hazard, not a run.
* **The push-mode Offer path of the real gRPC server.**
* **The multi-stage execution graph.**
* **`poll_work` errors in a liveness run:** `PollStartError` and
  `PollFillPrepareError` are explored by `ss_graph`. With one of them
  enabled under `ss_progress`'s configuration, TLC finds `JobTerminates`
  violated, because the partition stays running on a healthy executor.
  These are listed as hazards, since there are no runs left for them.

Several code behaviours are expressible in the modules but have no run, and
`PROJECT.json` lists them as hazards:

* re-registration with outstanding reservations;
* two calls on one partition key overwriting each other's abort handle;
* the handle left behind by a failed shuffle write;
* a stale watch event regressing a cached heartbeat;
* the swapped units of the two histograms;
* the round-robin distribution's single pass;
* a `poll_work` error stranding a bound or reported partition;
* the harness's channel cycle above its bound;
* the loop's posts to its own full channel;
* `run` returning before the metric events are recorded. TLC reaches a
  final status with JobFailed still unposted, so a test that asserts right
  after `run` can fail;
* a heartbeat from an executor the scheduler has no registration for
  (after a restart on a fresh backend). It is stored, and the answer is
  always `reregister: false`.

## Plan for later work

* **The push-mode Offer path**, joining `ExecutorManager` and `PushHarness`.
* **A multi-stage execution graph** behind `SchedulerServer`'s handlers.
