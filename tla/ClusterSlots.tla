---------------------------- MODULE ClusterSlots ----------------------------
(***************************************************************************)
(* The slot contract of the ClusterState trait (scheduler/src/cluster/     *)
(* mod.rs): a globally consistent view of the task slots of the cluster.   *)
(* Each operation is one atomic step: reserve_slots takes free slots,      *)
(* cancel_reservations gives reservations back "all or none", and          *)
(* register_executor adds a new executor whose slots are either free or,   *)
(* with reserve, handed out at once.  Nothing else changes the ledger.     *)
(***************************************************************************)
EXTENDS Naturals

CONSTANTS Executor, TaskSlots

VARIABLES
    total,     \* task slots of each registered executor, 0 if unknown
    avail,     \* slots available to other tasks
    reserved   \* reservations handed out and not cancelled

vars == <<total, avail, reserved>>

\* reserve_slots: "reserve up to num_slots": some of the available slots
\* of the executors become reservations, none if it returns an error.
\* "As many as possible" is left out: the manager reserves only on the
\* executors whose heartbeat is recent, a set this ledger does not have
\* (ExecutorManager checks it as ReserveMaximal).  reserve_slots_exact has
\* no implementation under src/ and is not part of the contract here.
ReserveSlots ==
    \E take \in [Executor -> 0..TaskSlots] :
        /\ \A e \in Executor : take[e] <= avail[e]
        /\ avail' = [e \in Executor |-> avail[e] - take[e]]
        /\ reserved' = [e \in Executor |-> reserved[e] + take[e]]
        /\ UNCHANGED total

\* cancel_reservations: the reservations become available again, all of
\* them in one step
CancelReservations ==
    \E r \in [Executor -> 0..TaskSlots] :
        /\ \A e \in Executor : r[e] <= reserved[e]
        /\ avail' = [e \in Executor |-> avail[e] + r[e]]
        /\ reserved' = [e \in Executor |-> reserved[e] - r[e]]
        /\ UNCHANGED total

\* register_executor of a new executor; with reserve its slots are
\* returned as reservations and none is available to other tasks
RegisterExecutor ==
    \E e \in Executor, reserve \in BOOLEAN :
        /\ total[e] = 0
        /\ total' = [total EXCEPT ![e] = TaskSlots]
        /\ avail' = [avail EXCEPT ![e] = IF reserve THEN 0 ELSE TaskSlots]
        /\ reserved' = [reserved EXCEPT ![e] = IF reserve THEN @ + TaskSlots ELSE @]

Init ==
    /\ total \in [Executor -> {0, TaskSlots}]
    /\ avail \in [Executor -> 0..TaskSlots]
    /\ reserved \in [Executor -> 0..TaskSlots]
    /\ \A e \in Executor : avail[e] + reserved[e] = total[e]

Next == ReserveSlots \/ CancelReservations \/ RegisterExecutor

Spec == Init /\ [][Next]_vars

=============================================================================
