-------------------------- MODULE MC_HeartbeatCache --------------------------
(* Two executors heartbeating over four seconds of the scheduler clock.   *)
EXTENDS HeartbeatCache

CONSTANTS e1, e2

MCExecutor == {e1, e2}
=============================================================================
