---------------------------- MODULE MCSyncTimers ----------------------------
(* SyncTimers for TLC: the bounds are in the configurations. *)
EXTENDS SyncTimers
=============================================================================
