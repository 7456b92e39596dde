---------------------------- MODULE MCSyncRunner ----------------------------
(* An instance of SyncRunner in which every batch carries a checkpoint. *)
EXTENDS SyncRunner

MarkAll == 1..N
=============================================================================
