---------------------------- MODULE ReserveSlots ----------------------------
(***************************************************************************)
(* The two slot-distribution algorithms of scheduler/src/cluster/mod.rs,   *)
(* reserve_slots_bias and reserve_slots_round_robin, as recursive          *)
(* operators over the iterator of AvailableTaskSlots they are given, and   *)
(* checked against the contract ClusterState::reserve_slots states: reserve *)
(* up to n slots and, when fewer are available, as many as possible.       *)
(*                                                                         *)
(* An executor is its position in the iterator; a reservation is the      *)
(* position of the executor it is bound to.  The whole input (the free     *)
(* slots of each executor and n) is chosen in Init; Next leaves it alone.  *)
(***************************************************************************)
EXTENDS Naturals, Sequences, SequencesExt

CONSTANTS
    MaxExecutors,   \* longest iterator of AvailableTaskSlots
    MaxFree,        \* most free slots of one executor
    MaxRequest      \* largest n

VARIABLES free, n

vars == <<free, n>>

MinOf(a, b) == IF a < b THEN a ELSE b

\* n copies of the executor position i
Copies(i, k) == [j \in 1..k |-> i]

\* the result: the reservations and the slots left on each executor
Result(resv, left) == [resv |-> resv, left |-> left]

\* mutant: the slots of the executor are not decremented
RECURSIVE BiasKeepSlots(_, _, _, _)
BiasKeepSlots(slots, i, k, acc) ==
    IF k > 0 /\ i <= Len(slots)
    THEN LET take == MinOf(slots[i], k)
         IN  BiasKeepSlots(slots, i + 1, k - take, acc \o Copies(i, take))
    ELSE Result(acc, slots)

\* mutant: take is the executor's free slots, not bounded by n
RECURSIVE BiasTakeAll(_, _, _, _)
BiasTakeAll(slots, i, k, acc) ==
    IF k > 0 /\ i <= Len(slots)
    THEN LET take == slots[i]
         IN  BiasTakeAll([slots EXCEPT ![i] = @ - take], i + 1,
                         IF take > k THEN 0 ELSE k - take, acc \o Copies(i, take))
    ELSE Result(acc, slots)

\* reserve_slots_bias: while n > 0, take min(slots, n) from the next
\* executor; stop when the iterator is exhausted
RECURSIVE BiasLoop(_, _, _, _)
BiasLoop(slots, i, k, acc) ==
    IF k > 0 /\ i <= Len(slots)
    THEN LET take == MinOf(slots[i], k)
         IN  BiasLoop([slots EXCEPT ![i] = @ - take], i + 1, k - take,
                      acc \o Copies(i, take))
    ELSE Result(acc, slots)

\* reserve_slots_round_robin: while n > 0, take one slot from the next
\* executor if it has one; stop when the iterator is exhausted
RECURSIVE RoundRobinLoop(_, _, _, _)
RoundRobinLoop(slots, i, k, acc) ==
    IF k > 0 /\ i <= Len(slots)
    THEN IF slots[i] > 0
         THEN RoundRobinLoop([slots EXCEPT ![i] = @ - 1], i + 1, k - 1,
                             acc \o <<i>>)
         ELSE RoundRobinLoop(slots, i + 1, k, acc)
    ELSE Result(acc, slots)

ReserveSlotsBias(slots, k) == BiasLoop(slots, 1, k, <<>>)
ReserveSlotsRoundRobin(slots, k) == RoundRobinLoop(slots, 1, k, <<>>)

-----------------------------------------------------------------------------

Init ==
    /\ free \in UNION {[1..m -> 0..MaxFree] : m \in 0..MaxExecutors}
    /\ n \in 0..MaxRequest

Next == UNCHANGED vars

Spec == Init /\ [][Next]_vars

-----------------------------------------------------------------------------
(* Reference definitions                                                   *)

TotalFree == FoldSeq(LAMBDA x, acc : x + acc, 0, free)

\* how many reservations of a result are bound to executor i
CountFor(res, i) == Len(SelectSeq(res.resv, LAMBDA x : x = i))

\* the contract: min(n, free slots) reservations
Maximal(res) == Len(res.resv) = MinOf(n, TotalFree)

\* every reservation is taken from its executor's free slots, and no
\* executor gives more than it had
Accounted(res) ==
    /\ DOMAIN res.left = DOMAIN free
    /\ \A i \in DOMAIN free :
          /\ res.left[i] \in 0..free[i]
          /\ CountFor(res, i) + res.left[i] = free[i]
    /\ \A j \in DOMAIN res.resv : res.resv[j] \in DOMAIN free

-----------------------------------------------------------------------------
(* Properties                                                              *)

\* Both algorithms account for every reservation: the slots left on an
\* executor are its free slots minus the reservations bound to it, so the
\* ledger written back after the call agrees with what was handed out.
ReservationsAccounted ==
    /\ Accounted(ReserveSlotsBias(free, n))
    /\ Accounted(ReserveSlotsRoundRobin(free, n))

\* reserve_slots_bias reserves min(n, free slots): up to n, and as many as
\* possible when fewer are free.
BiasReservesMaximal == Maximal(ReserveSlotsBias(free, n))

=============================================================================
