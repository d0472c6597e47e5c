---------------------------- MODULE PushHarness ----------------------------
(***************************************************************************)
(* The push-mode test harness of the scheduler                             *)
(* (scheduler/src/test_utils.rs: SchedulerTest, VirtualTaskLauncher).      *)
(*                                                                         *)
(* SchedulerTest::run submits a job, spawns a forwarder that receives      *)
(* (executor, statuses) from the status channel (capacity 1000) and hands  *)
(* each to update_task_status, which posts TaskUpdating to the query-stage *)
(* event loop (capacity event_loop_buffer_size), and polls the job status  *)
(* until it is final.  The event loop launches tasks in push mode through  *)
(* VirtualTaskLauncher::launch_tasks, which runs them at once with the     *)
(* TaskRunner and sends their statuses into the status channel, awaiting   *)
(* room.  Every executor has Slots task slots; a launch fills the free     *)
(* slots of one executor with pending tasks.                               *)
(***************************************************************************)
EXTENDS Naturals, Sequences

CONSTANTS
    Executors,     \* num_executors; executor i is virtual-executor-i
    Slots,         \* task_slots_per_executor
    Tasks,         \* partitions of the job
    StatusBuffer,  \* capacity of the status channel
    EventBuffer    \* capacity of the query-stage event channel

Executor == 1..Executors

VARIABLES
    ev,        \* the event channel: JobQueued, TaskUpdating and the
               \* loop's own JobSubmitted, JobFinished, JobFailed events
    outbox,    \* what the running handler still has to send, in order:
               \* events to post, then launches
    sq,        \* the status channel: [exec, done, ok] messages
    fwd,       \* the messages the forwarder holds: <<>> or one message
    free,      \* free task slots per executor
    pending,   \* tasks not yet launched
    done,      \* tasks reported successful
    job,       \* the job status the test polls
    runner,    \* the test's TaskRunner
    plan,      \* the test's logical plan
    metrics    \* TestMetricsCollector::events of the job, in order

vars == <<ev, outbox, sq, fwd, free, pending, done, job, runner, plan, metrics>>

Final == {"successful", "failed"}

\* the tests that drive the harness: test_push_scheduling with the default
\* runner, test_job_failure with a runner whose every status is Failed
\* (retryable: false), test_planning_failure over ExplodingTableProvider
TestSetups == {[runner |-> "default", plan |-> "valid"],
               [runner |-> "failing", plan |-> "valid"],
               [runner |-> "default", plan |-> "exploding"]}

-----------------------------------------------------------------------------

\* VirtualExecutor::run_tasks through the TaskRunner: default_task_runner
\* completes every task of the launch, the runner of test_job_failure fails
\* every task (retryable: false); the launch's statuses form one message
RunTasks(e, n) == [to |-> "status", exec |-> e, done |-> n, ok |-> runner = "default"]

\* an event the running handler posts to its own loop
Post(kind) == [to |-> "event", kind |-> kind]

\* the launches that fill the free slots fr of the executors es, in order,
\* from p pending tasks: one launch_tasks call per executor given work
RECURSIVE Launches(_, _, _)
Launches(es, fr, p) ==
    IF es = <<>> \/ p = 0 THEN <<>>
    ELSE LET e == Head(es)
             n == IF fr[e] < p THEN fr[e] ELSE p
         IN  IF n = 0 THEN Launches(Tail(es), fr, p)
             ELSE <<RunTasks(e, n)>> \o Launches(Tail(es), fr, p - n)

\* the tasks a sequence of sends starts, per executor and in all
RECURSIVE LaunchedOn(_, _)
LaunchedOn(ls, e) ==
    IF ls = <<>> THEN 0
    ELSE (IF Head(ls).to = "status" /\ Head(ls).exec = e THEN Head(ls).done ELSE 0)
            + LaunchedOn(Tail(ls), e)

Started(ls) == LET RECURSIVE Sum(_)
                   Sum(s) == IF s = <<>> THEN 0
                             ELSE (IF Head(s).to = "status" THEN Head(s).done ELSE 0) + Sum(Tail(s))
               IN  Sum(ls)

AllExecutors == [i \in 1..Executors |-> i]

\* TestMetricsCollector::job_events and the assert_*_event helpers: some
\* recorded event of the job is of the kind
HasEvent(k) == \E i \in 1..Len(metrics) : metrics[i] = k

\* the SchedulerMetricsCollector call each of the loop's own events makes
Record == [JobSubmitted |-> "Submitted", JobFinished |-> "Completed", JobFailed |-> "Failed"]

-----------------------------------------------------------------------------

\* SchedulerTest::run: submit_job queues the job and posts JobQueued
Submit ==
    /\ job = "none"
    /\ Len(ev) < EventBuffer
    /\ ev' = Append(ev, [kind |-> "JobQueued"])
    /\ job' = "queued"
    /\ UNCHANGED <<outbox, sq, fwd, free, pending, done, runner, plan, metrics>>

\* The event loop takes the next event once its handler is done sending.
\* JobQueued: planning the exploding plan fails, the job is failed and
\* JobFailed posted; otherwise the job runs with Tasks partitions,
\* JobSubmitted is posted and every executor's free slots are offered
HandleJobQueued ==
    /\ outbox = <<>>
    /\ ev # <<>> /\ Head(ev).kind = "JobQueued"
    /\ ev' = Tail(ev)
    /\ IF plan = "exploding"
         THEN /\ job' = "failed"
              /\ outbox' = <<Post("JobFailed")>>
              /\ UNCHANGED <<free, pending>>
         ELSE LET ls == Launches(AllExecutors, free, Tasks)
              IN  /\ job' = "running"
                  /\ outbox' = <<Post("JobSubmitted")>> \o ls
                  /\ free' = [e \in Executor |-> free[e] - LaunchedOn(ls, e)]
                  /\ pending' = Tasks - Started(ls)
    /\ UNCHANGED <<sq, fwd, done, runner, plan, metrics>>

\* the reporting executor's slots return to the free pool
Freed(m) == [free EXCEPT ![m.exec] = @ + m.done]

\* mutant: the job's completion is checked before the statuses are applied
StatusAfterCheckFirst(m) ==
    CASE job # "running"       -> job
      [] ~m.ok                 -> "failed"
      [] done = Tasks          -> "successful"
      [] OTHER                 -> "running"

\* ExecutionGraph::apply_status on the statuses of one message: a failed,
\* non-retryable task fails the running job, the job succeeds once every
\* task has; the statuses of a job already final change nothing
StatusAfter(m) ==
    CASE job # "running"       -> job
      [] ~m.ok                 -> "failed"
      [] done + m.done = Tasks -> "successful"
      [] OTHER                 -> "running"

\* TaskManager::update_task_statuses emits JobFinished or JobFailed when the
\* job's status changes
Emitted(m, st) ==
    IF st = job THEN <<>>
    ELSE <<Post(IF st = "failed" THEN "JobFailed" ELSE "JobFinished")>>

\* TaskUpdating: the statuses are applied and free their slots on the
\* executor; the events they emit are posted, then the freed slots of a
\* running job are filled with pending tasks and launched
HandleTaskUpdating ==
    /\ outbox = <<>>
    /\ ev # <<>> /\ Head(ev).kind = "TaskUpdating"
    /\ LET m  == Head(ev).msg
           st == StatusAfter(m)
           fr == Freed(m)
           ls == IF st = "running" THEN Launches(<<m.exec>>, fr, pending) ELSE <<>>
       IN  /\ ev' = Tail(ev)
           /\ done' = done + (IF m.ok THEN m.done ELSE 0)
           /\ job' = st
           /\ outbox' = Emitted(m, st) \o ls
           /\ pending' = pending - Started(ls)
           /\ free' = [e \in Executor |-> fr[e] - LaunchedOn(ls, e)]
    /\ UNCHANGED <<sq, fwd, runner, plan, metrics>>

\* JobSubmitted, JobFinished, JobFailed: the loop records the metric
\* (record_submitted, record_completed, record_failed)
HandleJobEvent ==
    /\ outbox = <<>>
    /\ ev # <<>> /\ Head(ev).kind \in DOMAIN Record
    /\ ev' = Tail(ev)
    /\ metrics' = Append(metrics, Record[Head(ev).kind])
    /\ UNCHANGED <<outbox, sq, fwd, free, pending, done, job, runner, plan>>

\* the running handler posts its own event; post_event awaits room in the
\* channel the loop itself drains
PostEvent ==
    /\ outbox # <<>> /\ Head(outbox).to = "event"
    /\ Len(ev) < EventBuffer
    /\ ev' = Append(ev, [kind |-> Head(outbox).kind])
    /\ outbox' = Tail(outbox)
    /\ UNCHANGED <<sq, fwd, free, pending, done, job, runner, plan, metrics>>

\* VirtualTaskLauncher::launch_tasks: the runner's statuses are sent into
\* the status channel; the send awaits room
LaunchTasks ==
    /\ outbox # <<>> /\ Head(outbox).to = "status"
    /\ Len(sq) < StatusBuffer
    /\ sq' = Append(sq, Head(outbox))
    /\ outbox' = Tail(outbox)
    /\ UNCHANGED <<ev, fwd, free, pending, done, job, runner, plan, metrics>>

\* the forwarder spawned by run: receiver.recv().await
ForwardRecv ==
    /\ fwd = <<>> /\ sq # <<>>
    /\ fwd' = <<Head(sq)>>
    /\ sq' = Tail(sq)
    /\ UNCHANGED <<ev, outbox, free, pending, done, job, runner, plan, metrics>>

\* update_task_status(executor, statuses): the executor is alive, so
\* TaskUpdating is posted; the post awaits room in the event channel
ForwardPost ==
    /\ fwd # <<>>
    /\ Len(ev) < EventBuffer
    /\ ev' = Append(ev, [kind |-> "TaskUpdating", msg |-> Head(fwd)])
    /\ fwd' = <<>>
    /\ UNCHANGED <<outbox, sq, free, pending, done, job, runner, plan, metrics>>

-----------------------------------------------------------------------------

\* SchedulerTest::new with the test's runner and plan: the registered
\* executors have every slot free, nothing is recorded yet
Init ==
    /\ ev = <<>> /\ outbox = <<>> /\ sq = <<>> /\ fwd = <<>>
    /\ free = [e \in Executor |-> Slots]
    /\ pending = 0 /\ done = 0
    /\ job = "none"
    /\ \E t \in TestSetups : runner = t.runner /\ plan = t.plan
    /\ metrics = <<>>

\* once every status and event is handled the loop and the forwarder wait
\* on empty channels; run's loop has returned if the job is final, and
\* polls get_job_status forever otherwise
Quiescent ==
    /\ job # "none"
    /\ ev = <<>> /\ outbox = <<>> /\ sq = <<>> /\ fwd = <<>>

Next ==
    \/ Submit \/ HandleJobQueued \/ HandleTaskUpdating \/ HandleJobEvent
    \/ PostEvent \/ LaunchTasks \/ ForwardRecv \/ ForwardPost
    \/ Quiescent /\ UNCHANGED vars

\* every task of the harness is polled when it can make progress
Spec == Init /\ [][Next]_vars /\ WF_vars(Next)

-----------------------------------------------------------------------------
(* Properties                                                              *)

\* What test_push_scheduling, test_job_failure and test_planning_failure
\* assert once SchedulerTest::run has returned the final status.
TestAssertions ==
    /\ job \in Final
    /\ job = "successful" <=> runner = "default" /\ plan = "valid"
    /\ job = "successful" => HasEvent("Submitted") /\ HasEvent("Completed")
    /\ job = "failed" => HasEvent("Failed") /\ ~HasEvent("Completed")
    /\ plan = "exploding" => ~HasEvent("Submitted")

\* SchedulerTest::run returns, and from some point on what the tests assert
\* of its status and of the recorded metric events holds for good.
TestsEventuallyPass == <>[]TestAssertions

=============================================================================
