---------------------------- MODULE MCSyncTasks ----------------------------
(* The sync_logs transactions under arbitrary callers.                     *)
EXTENDS SyncTasks, TLC
CONSTANTS k1, k2
Symmetry == Permutations(Kb)
=============================================================================
