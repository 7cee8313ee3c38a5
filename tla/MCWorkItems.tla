---------------------------- MODULE MCWorkItems ----------------------------
(***************************************************************************)
(* Small instances of WorkItems for TLC.                                   *)
(***************************************************************************)
EXTENDS WorkItems

\* Partitions move when a worker stops.
DispatchFaults == AllDisturbances \ {"rebalance"}

CrashOnly == {"crash"}
=============================================================================
