-------------------------- MODULE MCSyncJobExecutor --------------------------
(* Instances of SyncJobExecutor for TLC. *)
EXTENDS SyncJobExecutor

CONSTANTS t1, t2, t3, w1

ThreeTasks == {t1, t2, t3}
OneWorker  == {w1}
=============================================================================
