------------------------- MODULE MC_ExecutorRuntime -------------------------
(* Two execute_shuffle_write calls on one executor, for two different     *)
(* partitions.                                                             *)
EXTENDS ExecutorRuntime

CONSTANTS a1, a2, k1, k2

MCAttempt == {a1, a2}
MCKey == {k1, k2}
DistinctKeys == (a1 :> k1) @@ (a2 :> k2)
=============================================================================
