-------------------------- MODULE ExecutorManager --------------------------
(***************************************************************************)
(* The scheduler's slot ledger (rust/scheduler/src/state/executor_manager.rs *)
(* and the RegisterExecutor / HeartBeatFromExecutor handlers of             *)
(* scheduler_server/grpc.rs that write it).                                 *)
(*                                                                         *)
(* The backend's Slots keyspace holds one ExecutorData record per executor *)
(* (total and available task slots).  reserve_slots and                    *)
(* cancel_reservations run under the global Slots lock, read the records   *)
(* one `get` at a time and write them back in one put_txn.                 *)
(* register_executor writes its record with a plain `put`, outside that    *)
(* lock, after it has made the executor's heartbeat visible.  Reservations *)
(* handed out and not yet cancelled are the capabilities held by the rest  *)
(* of the scheduler (the event loop, the task manager); `held` counts them *)
(* per executor.                                                           *)
(***************************************************************************)
EXTENDS Naturals, FiniteSets, Functions, TLC

CONSTANTS
    Executor,          \* executor ids
    Worker,            \* scheduler tasks calling reserve_slots / cancel_reservations
    NoWorker,          \* model value: nobody holds the Slots lock
    TaskSlots,         \* task_slots of every executor's specification
    PushMode,          \* TRUE: RegisterExecutor calls register_executor(.., true)
    ReserveSizes,      \* the values of n passed to reserve_slots(n)
    PreRegistered,     \* executors whose registration completed before the behaviour
    MaxRegistrations,  \* bound on register_executor calls per executor
    MaxTime,           \* bound on the wall clock, in seconds
    Timeout            \* the liveness window (60 s in the code)

ASSUME /\ TaskSlots \in Nat \ {0}
       /\ PushMode \in BOOLEAN
       /\ ReserveSizes \subseteq Nat
       /\ PreRegistered \subseteq Executor
       /\ MaxRegistrations \in Nat /\ MaxTime \in Nat \ {0} /\ Timeout \in Nat

VARIABLES
    slots,          \* Slots keyspace: executor -> ExecutorData
    heartbeat,      \* executors_heartbeat cache: executor -> timestamp, 0 = absent
    now,            \* SystemTime::now() in seconds
    held,           \* reservations issued and not yet passed to cancel_reservations
    lock,           \* holder of the Slots/"global" lock
    wk,             \* local state of each worker's reserve/cancel call
    reg,            \* program counter of each executor's register_executor call
    registrations,  \* number of register_executor calls per executor
    leaked          \* history: reservations dropped by a failed cancel_reservations

vars == <<slots, heartbeat, now, held, lock, wk, reg, registrations, leaked>>

SlotData == [total : 0..TaskSlots, avail : 0..TaskSlots]

\* decode_into::<ExecutorData> of the empty value `get` returns for a missing key
Empty == [total |-> 0, avail |-> 0]

NoReservations == [e \in Executor |-> 0]

\* the local variables of reserve_slots / cancel_reservations:
\* desired, the executors still to visit, txn_ops, and the reservations
\* collected (reserve) or being returned (cancel); want is a ghost field
Idle == [op |-> "idle", desired |-> 0, want |-> 0, todo |-> {},
         txn |-> <<>>, cnt |-> NoReservations]

MinOf(a, b) == IF a < b THEN a ELSE b

\* get_alive_executors_within_one_minute: threshold is now - Timeout,
\* saturating at 0 (checked_sub), and a heartbeat must be strictly newer
Threshold == IF now >= Timeout THEN now - Timeout ELSE 0
Alive == {e \in Executor : heartbeat[e] > Threshold}

AvailableOn(S) == SumFunctionOnSet([e \in Executor |-> slots[e].avail], S)

\* reservations not yet returned to the ledger, including those a cancel
\* call is returning right now
Outstanding(e) == held[e] + SumFunctionOnSet([w \in Worker |->
                     IF wk[w].op = "cancel" THEN wk[w].cnt[e] ELSE 0], Worker)

-----------------------------------------------------------------------------
(* reserve_slots(n)                                                        *)

ReserveBegin(w, n) ==
    /\ lock = NoWorker
    /\ wk[w].op = "idle"
    /\ lock' = w
    /\ wk' = [wk EXCEPT ![w] = [Idle EXCEPT !.op = "reserve", !.desired = n,
                                            !.todo = Alive,
                                            !.want = MinOf(n, AvailableOn(Alive))]]
    /\ UNCHANGED <<slots, heartbeat, now, held, reg, registrations, leaked>>

\* mutant: the loop breaks after the first executor whatever is left
ReserveVisitBreakFirst(w, e) ==
    /\ wk[w].op = "reserve"
    /\ e \in wk[w].todo
    /\ LET data == slots[e]
           take == MinOf(data.avail, wk[w].desired)
       IN  wk' = [wk EXCEPT ![w].desired = @ - take,
                            ![w].todo = {},
                            ![w].txn = (e :> [data EXCEPT !.avail = @ - take]) @@ @,
                            ![w].cnt[e] = @ + take]
    /\ UNCHANGED <<slots, heartbeat, now, held, lock, reg, registrations, leaked>>

\* mutant: the record queued for put_txn is the one read, not the decremented one
ReserveVisitStaleRecord(w, e) ==
    /\ wk[w].op = "reserve"
    /\ e \in wk[w].todo
    /\ LET data == slots[e]
           take == MinOf(data.avail, wk[w].desired)
           left == wk[w].desired - take
       IN  wk' = [wk EXCEPT ![w].desired = left,
                            ![w].todo = IF left = 0 THEN {} ELSE @ \ {e},
                            ![w].txn = (e :> data) @@ @,
                            ![w].cnt[e] = @ + take]
    /\ UNCHANGED <<slots, heartbeat, now, held, lock, reg, registrations, leaked>>

\* one iteration of the loop over the alive executors (HashSet order is
\* arbitrary); the updated record is queued even when nothing is taken,
\* and the loop breaks once desired reaches 0
ReserveVisit(w, e) ==
    /\ wk[w].op = "reserve"
    /\ e \in wk[w].todo
    /\ LET data == slots[e]
           take == MinOf(data.avail, wk[w].desired)
           left == wk[w].desired - take
       IN  wk' = [wk EXCEPT ![w].desired = left,
                            ![w].todo = IF left = 0 THEN {} ELSE @ \ {e},
                            ![w].txn = (e :> [data EXCEPT !.avail = @ - take]) @@ @,
                            ![w].cnt[e] = @ + take]
    /\ UNCHANGED <<slots, heartbeat, now, held, lock, reg, registrations, leaked>>

\* put_txn of the queued records, release of the lock, Ok(reservations)
ReserveCommit(w) ==
    /\ wk[w].op = "reserve"
    /\ wk[w].todo = {}
    /\ slots' = [e \in Executor |->
                    IF e \in DOMAIN wk[w].txn THEN wk[w].txn[e] ELSE slots[e]]
    /\ held' = [e \in Executor |-> held[e] + wk[w].cnt[e]]
    /\ lock' = NoWorker
    /\ wk' = [wk EXCEPT ![w] = Idle]
    /\ UNCHANGED <<heartbeat, now, reg, registrations, leaked>>

-----------------------------------------------------------------------------
(* cancel_reservations(reservations)                                       *)

CancelBegin(w, r) ==
    /\ lock = NoWorker
    /\ wk[w].op = "idle"
    /\ \A e \in Executor : r[e] <= held[e]
    /\ held' = [e \in Executor |-> held[e] - r[e]]
    /\ lock' = w
    /\ wk' = [wk EXCEPT ![w] = [Idle EXCEPT !.op = "cancel", !.cnt = r,
                                            !.todo = {e \in Executor : r[e] > 0}]]
    /\ UNCHANGED <<slots, heartbeat, now, reg, registrations, leaked>>

\* mutant: the first reservation of an executor is counted twice
CancelVisitCountFirstTwice(w, e) ==
    /\ wk[w].op = "cancel"
    /\ e \in wk[w].todo
    /\ wk' = [wk EXCEPT ![w].todo = @ \ {e},
                        ![w].txn = (e :> [slots[e] EXCEPT !.avail = @ + wk[w].cnt[e] + 1]) @@ @]
    /\ UNCHANGED <<slots, heartbeat, now, held, lock, reg, registrations, leaked>>

\* mutant: every reservation re-reads the record from the backend, so the
\* executor gets back one slot however many it had reserved
CancelVisitReadEach(w, e) ==
    /\ wk[w].op = "cancel"
    /\ e \in wk[w].todo
    /\ wk' = [wk EXCEPT ![w].todo = @ \ {e},
                        ![w].txn = (e :> [slots[e] EXCEPT !.avail = @ + 1]) @@ @]
    /\ UNCHANGED <<slots, heartbeat, now, held, lock, reg, registrations, leaked>>

\* the first reservation of an executor reads its record; the others
\* increment the copy already in executor_slots
CancelVisit(w, e) ==
    /\ wk[w].op = "cancel"
    /\ e \in wk[w].todo
    /\ wk' = [wk EXCEPT ![w].todo = @ \ {e},
                        ![w].txn = (e :> [slots[e] EXCEPT !.avail = @ + wk[w].cnt[e]]) @@ @]
    /\ UNCHANGED <<slots, heartbeat, now, held, lock, reg, registrations, leaked>>

CancelCommit(w) ==
    /\ wk[w].op = "cancel"
    /\ wk[w].todo = {}
    /\ slots' = [e \in Executor |->
                    IF e \in DOMAIN wk[w].txn THEN wk[w].txn[e] ELSE slots[e]]
    /\ lock' = NoWorker
    /\ wk' = [wk EXCEPT ![w] = Idle]
    /\ UNCHANGED <<heartbeat, now, held, reg, registrations, leaked>>

\* mutant: the error returns without dropping the lock guard
BackendErrorKeepLock(w) ==
    /\ wk[w].op \in {"reserve", "cancel"}
    /\ leaked' = IF wk[w].op = "cancel"
                 THEN [e \in Executor |-> leaked[e] + wk[w].cnt[e]]
                 ELSE leaked
    /\ wk' = [wk EXCEPT ![w] = Idle]
    /\ UNCHANGED <<slots, heartbeat, now, held, lock, reg, registrations>>

\* a `get` or the put_txn of a call in progress fails: `?` returns the
\* error, with_lock releases the lock, nothing is written; the reservations
\* moved into cancel_reservations are dropped with it
BackendError(w) ==
    /\ wk[w].op \in {"reserve", "cancel"}
    /\ leaked' = IF wk[w].op = "cancel"
                 THEN [e \in Executor |-> leaked[e] + wk[w].cnt[e]]
                 ELSE leaked
    /\ lock' = NoWorker
    /\ wk' = [wk EXCEPT ![w] = Idle]
    /\ UNCHANGED <<slots, heartbeat, now, held, reg, registrations>>

-----------------------------------------------------------------------------
(* register_executor(metadata, specification, reserve)                     *)

\* test_scheduler_connectivity and save_executor_metadata succeed
RegisterStart(e) ==
    /\ reg[e] = "idle"
    /\ registrations[e] < MaxRegistrations
    /\ reg' = [reg EXCEPT ![e] = "metadata"]
    /\ registrations' = [registrations EXCEPT ![e] = @ + 1]
    /\ UNCHANGED <<slots, heartbeat, now, held, lock, wk, leaked>>

\* save_executor_heartbeat: the executor is now alive for reserve_slots
RegisterHeartbeat(e) ==
    /\ reg[e] = "metadata"
    /\ heartbeat' = [heartbeat EXCEPT ![e] = now]
    /\ reg' = [reg EXCEPT ![e] = "heartbeat"]
    /\ UNCHANGED <<slots, now, held, lock, wk, registrations, leaked>>

\* mutant: with reserve the record keeps every slot available
RegisterSlotsKeepAvailable(e) ==
    /\ reg[e] = "heartbeat"
    /\ slots' = [slots EXCEPT ![e] = [total |-> TaskSlots, avail |-> TaskSlots]]
    /\ held' = IF PushMode THEN [held EXCEPT ![e] = @ + TaskSlots] ELSE held
    /\ reg' = [reg EXCEPT ![e] = "idle"]
    /\ UNCHANGED <<heartbeat, now, lock, wk, registrations, leaked>>

\* the plain put of the Slots record, without the Slots lock; with reserve
\* the record says no slot is available and every slot is returned as a
\* reservation (posted as an Offer)
RegisterSlots(e) ==
    /\ reg[e] = "heartbeat"
    /\ slots' = [slots EXCEPT ![e] = [total |-> TaskSlots,
                                      avail |-> IF PushMode THEN 0 ELSE TaskSlots]]
    /\ held' = IF PushMode THEN [held EXCEPT ![e] = @ + TaskSlots] ELSE held
    /\ reg' = [reg EXCEPT ![e] = "idle"]
    /\ UNCHANGED <<heartbeat, now, lock, wk, registrations, leaked>>

\* the heartbeat put or the Slots put fails; the handler's unwrap panics
\* and what was already written stays
RegisterFail(e) ==
    /\ reg[e] \in {"metadata", "heartbeat"}
    /\ reg' = [reg EXCEPT ![e] = "idle"]
    /\ UNCHANGED <<slots, heartbeat, now, held, lock, wk, registrations, leaked>>

-----------------------------------------------------------------------------
(* heart_beat_from_executor and the clock                                  *)

Heartbeat(e) ==
    /\ registrations[e] > 0
    /\ heartbeat' = [heartbeat EXCEPT ![e] = now]
    /\ UNCHANGED <<slots, now, held, lock, wk, reg, registrations, leaked>>

Tick ==
    /\ now < MaxTime
    /\ now' = now + 1
    /\ UNCHANGED <<slots, heartbeat, held, lock, wk, reg, registrations, leaked>>

-----------------------------------------------------------------------------

Init ==
    /\ slots = [e \in Executor |->
                  IF e \in PreRegistered
                  THEN [total |-> TaskSlots, avail |-> IF PushMode THEN 0 ELSE TaskSlots]
                  ELSE Empty]
    /\ held = [e \in Executor |->
                  IF e \in PreRegistered /\ PushMode THEN TaskSlots ELSE 0]
    /\ heartbeat = [e \in Executor |-> IF e \in PreRegistered THEN 1 ELSE 0]
    /\ now = 1
    /\ lock = NoWorker
    /\ wk = [w \in Worker |-> Idle]
    /\ reg = [e \in Executor |-> "idle"]
    /\ registrations = [e \in Executor |-> IF e \in PreRegistered THEN 1 ELSE 0]
    /\ leaked = NoReservations

Next ==
    \/ \E w \in Worker :
          \/ \E n \in ReserveSizes : ReserveBegin(w, n)
          \/ \E e \in Executor : ReserveVisit(w, e)
          \/ ReserveCommit(w)
          \/ \E r \in [Executor -> 0..TaskSlots] : CancelBegin(w, r)
          \/ \E e \in Executor : CancelVisit(w, e)
          \/ CancelCommit(w)
          \/ BackendError(w)
    \/ \E e \in Executor :
          \/ RegisterStart(e)
          \/ RegisterHeartbeat(e)
          \/ RegisterSlots(e)
          \/ RegisterFail(e)
          \/ Heartbeat(e)
    \/ Tick

\* a scheduler task inside reserve_slots or cancel_reservations is a tokio
\* task that runs whenever its loop or its put_txn can proceed; backend
\* errors, new calls, registrations and the clock are not forced
Fairness ==
    \A w \in Worker :
        /\ WF_vars(\E e \in Executor : ReserveVisit(w, e) \/ CancelVisit(w, e))
        /\ WF_vars(ReserveCommit(w) \/ CancelCommit(w))

Spec == Init /\ [][Next]_vars /\ Fairness

-----------------------------------------------------------------------------
(* Properties                                                              *)

\* Every variable keeps its type; a ledger record never has more available
\* than total slots (0 <= available <= total, spec section 3).
TypeOK ==
    /\ slots \in [Executor -> SlotData]
    /\ \A e \in Executor : slots[e].avail <= slots[e].total
    /\ heartbeat \in [Executor -> 0..MaxTime]
    /\ now \in 1..MaxTime
    /\ held \in [Executor -> Nat]
    /\ lock \in Worker \cup {NoWorker}
    /\ \A w \in Worker : wk[w].op \in {"idle", "reserve", "cancel"}
    /\ reg \in [Executor -> {"idle", "metadata", "heartbeat"}]
    /\ leaked \in [Executor -> Nat]

\* Slot conservation (spec section 8): for every executor, available slots
\* plus outstanding reservations equals its total, except for reservations
\* dropped with a failed cancel_reservations call.  Concurrent reserve and
\* cancel calls, and failed reserve calls, lose or create no slot.
SlotConservation ==
    \A e \in Executor :
        slots[e].avail + Outstanding(e) + leaked[e] = slots[e].total

\* reserve_slots(n) reserves as many slots as it can: a call that returns
\* Ok hands out min(n, slots available on the executors alive when it took
\* the lock) reservations (test_reserve_partial).
ReserveMaximal ==
    [][\A w \in Worker :
          ReserveCommit(w) => SumFunction(wk[w].cnt) = wk[w].want]_vars

\* The Slots lock is never held for good: a scheduler task that took it in
\* reserve_slots or cancel_reservations gives it up, whether its loop and
\* put_txn complete or a backend call fails at any await (with_lock drops
\* the guard on every path), so no other task waits on it forever.
SlotsLockReleased == \A w \in Worker : lock = w ~> lock # w

\* The ledger implements the slot contract of the ClusterState trait: seen
\* through the Slots records, every step of the interleaved reserve,
\* cancel and register calls is a step of ClusterSlots, whose operations
\* are atomic.  A reservation is reserved in the contract from the commit of
\* reserve_slots until the commit of the cancel_reservations that returns
\* it; one dropped by a failed cancel stays reserved ("none are cancelled").
ClusterContract == INSTANCE ClusterSlots WITH
    total <- [e \in Executor |-> slots[e].total],
    avail <- [e \in Executor |-> slots[e].avail],
    reserved <- [e \in Executor |-> Outstanding(e) + leaked[e]]

ImplementsClusterState == ClusterContract!Spec

=============================================================================
