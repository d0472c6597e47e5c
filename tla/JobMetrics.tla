----------------------------- MODULE JobMetrics -----------------------------
(***************************************************************************)
(* Job metrics of the scheduler (scheduler/src/metrics/prometheus.rs) fed  *)
(* by the query-stage event loop.                                          *)
(*                                                                         *)
(* submit_job stamps JobQueued with timestamp_millis(), the wall clock in  *)
(* milliseconds (scheduler_server/mod.rs).  The event loop records the     *)
(* submission, completion, failure or cancellation of each job in the      *)
(* PrometheusMetricsCollector: record_submitted and record_completed       *)
(* observe the u64 difference of two such stamps.  The wall clock is       *)
(* SystemTime: an adjustment can set it back.  A u64 subtraction that      *)
(* underflows wraps in a release build and panics in a debug build; the    *)
(* panic ends the event loop task, whose handler was running.              *)
(***************************************************************************)
EXTENDS Integers

CONSTANTS
    Job,
    MaxClock,       \* last value of the wall clock, in milliseconds
    MaxStepBacks,   \* clock adjustments that set the clock back
    Width,          \* width of the timestamps (u64 in the code)
    Build           \* "release" (overflow wraps) or "debug" (it panics)

VARIABLES
    clock,      \* SystemTime::now() in milliseconds
    stepBacks,
    st,         \* the job's place in its lifecycle
    queuedAt,   \* the queued_at stamp of JobQueued
    loopAlive,  \* the event loop task has not panicked
    counters,   \* query_{submitted,completed,failed,cancelled}_total
    planning,   \* planning_time observations: [job, v, per], value v / per
    execution   \* execution_time observations: [job, v, per]

vars == <<clock, stepBacks, st, queuedAt, loopAlive, counters, planning, execution>>

Word == 2^Width
Stamp == 0..MaxClock
Final == {"completed", "failed", "cancelled"}

-----------------------------------------------------------------------------
(* The collector and the u64 arithmetic of its callers                     *)

ASSUME Build \in {"release", "debug"} /\ 2^Width > MaxClock

\* a - b on u64: wraps modulo 2^Width in release; NoValue stands for the
\* panic of a debug build
NoValue == -1
U64Sub(a, b) ==
    IF a >= b THEN a - b
    ELSE IF Build = "release" THEN (a - b) % Word ELSE NoValue

\* record_submitted: submitted.inc(); planning_time.observe((s - q) / 1000)
RecordSubmitted(j, q, s) ==
    /\ counters' = [counters EXCEPT !.submitted = @ + 1]
    /\ planning' = planning \cup {[job |-> j, v |-> U64Sub(s, q), per |-> 1000]}

\* record_completed: completed.inc(); execution_time.observe(c - q)
RecordCompleted(j, q, c) ==
    /\ counters' = [counters EXCEPT !.completed = @ + 1]
    /\ execution' = execution \cup {[job |-> j, v |-> U64Sub(c, q), per |-> 1]}

\* record_failed: failed.inc(); the stamps are ignored
RecordFailed(j) == counters' = [counters EXCEPT !.failed = @ + 1]

\* record_cancelled: cancelled.inc()
RecordCancelled(j) == counters' = [counters EXCEPT !.cancelled = @ + 1]

-----------------------------------------------------------------------------
(* The event loop                                                          *)

\* submit_job posts JobQueued stamped with timestamp_millis()
SubmitJob(j) ==
    /\ st[j] = "none"
    /\ st' = [st EXCEPT ![j] = "queued"]
    /\ queuedAt' = [queuedAt EXCEPT ![j] = clock]
    /\ UNCHANGED <<clock, stepBacks, loopAlive, counters, planning, execution>>

\* JobSubmitted{submitted_at}: planning succeeded; the handler records it.
\* In a debug build an underflow panics and the loop is gone.
JobSubmitted(j) ==
    /\ loopAlive /\ st[j] = "queued"
    /\ IF U64Sub(clock, queuedAt[j]) = NoValue
       THEN /\ loopAlive' = FALSE
            /\ UNCHANGED <<st, counters, planning>>
       ELSE /\ st' = [st EXCEPT ![j] = "running"]
            /\ RecordSubmitted(j, queuedAt[j], clock)
            /\ UNCHANGED loopAlive
    /\ UNCHANGED <<clock, stepBacks, queuedAt, execution>>

\* JobPlanningFailed: the job fails with no Submitted event
JobPlanningFailed(j) ==
    /\ loopAlive /\ st[j] = "queued"
    /\ st' = [st EXCEPT ![j] = "failed"]
    /\ RecordFailed(j)
    /\ UNCHANGED <<clock, stepBacks, queuedAt, loopAlive, planning, execution>>

\* JobFinished: completed_at = timestamp_millis()
JobFinished(j) ==
    /\ loopAlive /\ st[j] = "running"
    /\ IF U64Sub(clock, queuedAt[j]) = NoValue
       THEN /\ loopAlive' = FALSE
            /\ UNCHANGED <<st, counters, execution>>
       ELSE /\ st' = [st EXCEPT ![j] = "completed"]
            /\ RecordCompleted(j, queuedAt[j], clock)
            /\ UNCHANGED loopAlive
    /\ UNCHANGED <<clock, stepBacks, queuedAt, planning>>

\* JobRunningFailed: a task failed for good
JobRunningFailed(j) ==
    /\ loopAlive /\ st[j] = "running"
    /\ st' = [st EXCEPT ![j] = "failed"]
    /\ RecordFailed(j)
    /\ UNCHANGED <<clock, stepBacks, queuedAt, loopAlive, planning, execution>>

\* JobCancel of a job not yet finished
JobCancel(j) ==
    /\ loopAlive /\ st[j] \in {"queued", "running"}
    /\ st' = [st EXCEPT ![j] = "cancelled"]
    /\ RecordCancelled(j)
    /\ UNCHANGED <<clock, stepBacks, queuedAt, loopAlive, planning, execution>>

\* the wall clock advances, or an adjustment sets it back
ClockTick ==
    /\ clock < MaxClock
    /\ clock' = clock + 1
    /\ UNCHANGED <<stepBacks, st, queuedAt, loopAlive, counters, planning, execution>>

ClockStepBack ==
    /\ stepBacks < MaxStepBacks /\ clock > 0
    /\ clock' = clock - 1
    /\ stepBacks' = stepBacks + 1
    /\ UNCHANGED <<st, queuedAt, loopAlive, counters, planning, execution>>

-----------------------------------------------------------------------------

\* PrometheusMetricsCollector::current: the collector is created once, its
\* counters at zero and its histograms empty; the event loop is running
Init ==
    /\ clock = 0 /\ stepBacks = 0
    /\ st = [j \in Job |-> "none"]
    /\ queuedAt = [j \in Job |-> 0]
    /\ loopAlive = TRUE
    /\ counters = [submitted |-> 0, completed |-> 0, failed |-> 0, cancelled |-> 0]
    /\ planning = {}
    /\ execution = {}

Next ==
    \/ \E j \in Job :
          \/ SubmitJob(j) \/ JobSubmitted(j) \/ JobPlanningFailed(j)
          \/ JobFinished(j) \/ JobRunningFailed(j) \/ JobCancel(j)
    \/ ClockTick
    \/ ClockStepBack
    \/ UNCHANGED vars /\ \A j \in Job : st[j] \in Final \/ ~loopAlive

\* the event loop handles every event posted to it; planning and the tasks
\* of a running job end one way or the other
Fairness ==
    \A j \in Job :
        /\ WF_vars(JobSubmitted(j) \/ JobPlanningFailed(j))
        /\ WF_vars(JobFinished(j) \/ JobRunningFailed(j))

Spec == Init /\ [][Next]_vars /\ Fairness

-----------------------------------------------------------------------------
(* Properties                                                              *)

TypeOK ==
    /\ clock \in Stamp /\ stepBacks \in 0..MaxStepBacks
    /\ st \in [Job -> {"none", "queued", "running"} \cup Final]
    /\ queuedAt \in [Job -> Stamp]
    /\ loopAlive \in BOOLEAN
    /\ planning \subseteq [job : Job, v : 0..(Word - 1), per : {1, 1000}]
    /\ execution \subseteq [job : Job, v : 0..(Word - 1), per : {1, 1000}]

\* Every submitted job ends (completed, failed or cancelled) as long as its
\* handlers run: the event loop survives the metrics of any job.
QueuedJobsFinish ==
    \A j \in Job : st[j] = "queued" ~> st[j] \in Final

=============================================================================
