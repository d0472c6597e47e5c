------------------------- MODULE MC_SchedulerServer -------------------------
(* Two executors and a job of two partitions.                              *)
EXTENDS SchedulerServer

CONSTANTS e1, e2, p1, p2

MCExecutor == {e1, e2}
MCPartition == {p1, p2}
=============================================================================
