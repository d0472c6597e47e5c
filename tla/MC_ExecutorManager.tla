------------------------ MODULE MC_ExecutorManager ------------------------
(* Model-checking instance of ExecutorManager: two executors with two task *)
(* slots each and two scheduler tasks contending for the Slots lock.       *)
EXTENDS ExecutorManager

CONSTANTS e1, e2, w1, w2

MCExecutor == {e1, e2}
MCWorker == {w1, w2}

\* the reserve_slots / cancel_reservations calls of the event loop, under
\* the scheduling of jobs: requests up to all four slots and beyond
MCReserveSizes == {0, 1, 3, 5}

\* no reserve_slots call: registration and the event loop's cancel of the
\* offered reservations only
NoReserve == {}

\* a single reserve_slots(1) racing the registrations
OneReserve == {1}
=============================================================================
