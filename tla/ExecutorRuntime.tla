--------------------------- MODULE ExecutorRuntime ---------------------------
(***************************************************************************)
(* Task execution and cancellation on one executor                         *)
(* (rust/executor/src/executor.rs).                                        *)
(*                                                                         *)
(* execute_shuffle_write wraps the shuffle write of one partition in an    *)
(* abortable future, inserts its AbortHandle into the abort_handles map    *)
(* under (job_id, stage_id, partition), awaits the future and, when it     *)
(* returns Ok, removes the handle.  cancel_task removes the handle of a    *)
(* key, if there is one, and aborts it.  Each step taken under the tokio   *)
(* mutex of the map is one action; the awaits between them are where the  *)
(* calls interleave.                                                       *)
(***************************************************************************)
EXTENDS Naturals, FiniteSets, TLC

CONSTANTS
    Attempt,   \* execute_shuffle_write calls made on this executor
    Key,       \* (job_id, stage_id, partition) triples
    KeyOf      \* the partition each call executes

ASSUME KeyOf \in [Attempt -> Key]

VARIABLES
    pc,        \* where each execute_shuffle_write call is
    fut,       \* the inner shuffle-write future: pending, ok or err
    aborted,   \* the abort flag of each call's AbortHandle
    handles,   \* abort_handles: key -> the call whose handle is stored
    result     \* what each call returned

vars == <<pc, fut, aborted, handles, result>>

Results == {"none", "ok", "err", "cancelled", "invalid"}

-----------------------------------------------------------------------------

\* the plan is not a ShuffleWriterExec: Err before anything is registered
RejectPlan(a) ==
    /\ pc[a] = "init"
    /\ pc' = [pc EXCEPT ![a] = "returned"]
    /\ result' = [result EXCEPT ![a] = "invalid"]
    /\ UNCHANGED <<fut, aborted, handles>>

\* ShuffleWriterExec::try_new, abortable(..), then insert under the lock;
\* an existing handle for the same key is overwritten
Register(a) ==
    /\ pc[a] = "init"
    /\ handles' = (KeyOf[a] :> a) @@ handles
    /\ pc' = [pc EXCEPT ![a] = "running"]
    /\ UNCHANGED <<fut, aborted, result>>

\* the shuffle write finishes by itself (a never-ending input never does)
Finish(a) ==
    /\ fut[a] = "pending"
    /\ pc[a] = "running"
    /\ \E out \in {"ok", "err"} : fut' = [fut EXCEPT ![a] = out]
    /\ UNCHANGED <<pc, aborted, handles, result>>

\* task.await?? resolves: Err(Aborted) once the flag is set, else the
\* inner result; both errors return at once, before the handle is removed
Await(a) ==
    /\ pc[a] = "running"
    /\ aborted[a] \/ fut[a] # "pending"
    /\ IF aborted[a] \/ fut[a] = "err"
       THEN /\ pc' = [pc EXCEPT ![a] = "returned"]
            /\ result' = [result EXCEPT ![a] = IF aborted[a] THEN "cancelled" ELSE "err"]
       ELSE /\ pc' = [pc EXCEPT ![a] = "completed"]
            /\ UNCHANGED result
    /\ UNCHANGED <<fut, aborted, handles>>

\* remove the key under the lock (whoever's handle it holds), record the
\* stage metrics, return Ok(partitions)
Remove(a) ==
    /\ pc[a] = "completed"
    /\ handles' = [k \in DOMAIN handles \ {KeyOf[a]} |-> handles[k]]
    /\ pc' = [pc EXCEPT ![a] = "returned"]
    /\ result' = [result EXCEPT ![a] = "ok"]
    /\ UNCHANGED <<fut, aborted>>

\* cancel_task(k): remove the handle under the lock and abort it; returns
\* true when there was one, false (no change) otherwise
CancelTask(k) ==
    /\ k \in DOMAIN handles
    /\ aborted' = [aborted EXCEPT ![handles[k]] = TRUE]
    /\ handles' = [j \in DOMAIN handles \ {k} |-> handles[j]]
    /\ UNCHANGED <<pc, fut, result>>

-----------------------------------------------------------------------------

Init ==
    /\ pc = [a \in Attempt |-> "init"]
    /\ fut = [a \in Attempt |-> "pending"]
    /\ aborted = [a \in Attempt |-> FALSE]
    /\ handles = <<>>
    /\ result = [a \in Attempt |-> "none"]

Next ==
    \/ \E a \in Attempt :
          RejectPlan(a) \/ Register(a) \/ Finish(a) \/ Await(a) \/ Remove(a)
    \/ \E k \in Key : CancelTask(k)
    \/ UNCHANGED vars /\ \A a \in Attempt : pc[a] = "returned"

Spec == Init /\ [][Next]_vars

-----------------------------------------------------------------------------
(* Properties                                                              *)

TypeOK ==
    /\ pc \in [Attempt -> {"init", "running", "completed", "returned"}]
    /\ fut \in [Attempt -> {"pending", "ok", "err"}]
    /\ aborted \in [Attempt -> BOOLEAN]
    /\ DOMAIN handles \subseteq Key
    /\ \A k \in DOMAIN handles : handles[k] \in Attempt
    /\ result \in [Attempt -> Results]

\* A call whose handle cancel_task removed and aborted (cancel_task
\* returned true) does not return Ok: the scheduler cancels running tasks
\* and treats them as cancelled (spec scenario 6), and
\* test_task_cancellation expects the cancelled call to fail.  cancel_task
\* can take the handle after task.await has resolved and before the
\* handle is removed, so the abort comes too late and the call returns Ok.
CancelledCallFails ==
    \A a \in Attempt : aborted[a] /\ pc[a] = "returned" => result[a] # "ok"

=============================================================================
