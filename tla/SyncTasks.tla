----------------------------- MODULE SyncTasks -----------------------------
(***************************************************************************)
(* The sync_logs table of one connector: the task rows that every syncer   *)
(* process and the API server share, and the transactions on them          *)
(* (internal/dao/sync_task.go, internal/dao/connector.go).                 *)
(*                                                                         *)
(* One action is one database transaction; the lock on the connector2kb    *)
(* row serialises the claims and completions of a linked knowledge base.   *)
(* A claim for a knowledge base without that row locks nothing it shares   *)
(* with another claim: it is split into its count and its commit.          *)
(* Who calls them, and in which order, is left open here: the module is    *)
(* the contract of the DAO under arbitrary callers.  TaskWorkers composes  *)
(* it with the workers, the broker, the lock and the API requests that     *)
(* really call it.                                                         *)
(*                                                                         *)
(* A row is in the domain of logs while it is in the table.  Time stands   *)
(* for the values of the poll waterline; 0 is NULL, "from the beginning".  *)
(***************************************************************************)
EXTENDS Naturals, FiniteSets

CONSTANTS
    Kb,                 \* knowledge bases the connector may be linked to
    MaxTask,            \* bound: rows ever created
    MaxTime,            \* bound: values of the poll waterline
    MaxTransientTaskRetries,
    SyncDeletedFiles    \* the connector's sync_deleted_files setting

ASSUME SyncTasksAssumption ==
    /\ IsFiniteSet(Kb)
    /\ MaxTask \in Nat
    /\ MaxTime \in Nat
    /\ MaxTransientTaskRetries \in Nat \ {0}
    /\ SyncDeletedFiles \in BOOLEAN

TaskId   == 1..MaxTask
Time     == 0..MaxTime
TaskType == {"sync", "prune"}
Status   == {"schedule", "running", "cancel", "done", "fail"}

\* Status of the connector row; "unstarted" before its first task, "gone"
\* once the row is deleted (updates of it then change nothing).
ConnStatus == Status \cup {"unstarted", "gone"}

Row == [kb     : Kb,
        type   : TaskType,
        status : Status,
        full   : BOOLEAN,       \* from_beginning
        start  : Time,          \* poll_range_start
        end    : Time,          \* poll_range_end
        errs   : Nat]           \* error_count

VARIABLES
    logs,      \* the rows of sync_logs, by task id
    conn,      \* status of the connector row
    linked,    \* knowledge bases with a connector2kb row
    created,   \* ids handed out so far; GenerateToken never repeats one
    covered,   \* ghost: covered[k] is the waterline up to which the
               \* completed SYNC tasks of k have read the source without a gap
    counted    \* tasks with an open claim transaction that found no
               \* connector2kb row to lock and has counted no running task

dbVars == <<logs, conn, linked, created, covered, counted>>

TypeOK ==
    /\ DOMAIN logs \subseteq 1..created
    /\ logs \in [DOMAIN logs -> Row]
    /\ conn \in ConnStatus
    /\ linked \subseteq Kb
    /\ created \in 0..MaxTask
    /\ covered \in [Kb -> Time]
    /\ counted \subseteq TaskId

-----------------------------------------------------------------------------
(* Queries.                                                                *)

Has(t, s)   == t \in DOMAIN logs /\ logs[t].status = s
Rows(k, s)  == {t \in DOMAIN logs : logs[t].kb = k /\ logs[t].status = s}
TypedRows(k, y, s) == {t \in Rows(k, s) : logs[t].type = y}

\* GetTaskContext finds the task, its connector and its connector2kb row.
HasContext(t) == t \in DOMAIN logs /\ conn # "gone" /\ logs[t].kb \in linked

\* The rows ListScheduledTasks and GetScheduledTask return: the JOIN also
\* asks for the CONNECTOR row to be scheduled.
Listed == {t \in DOMAIN logs : HasContext(t) /\ Has(t, "schedule") /\ conn = "schedule"}

\* The waterline a new SYNC row of k starts from: poll_range_end of the
\* latest DONE row.  update_time has millisecond ties, so any of them.
LatestEnds(k, y) ==
    IF y = "sync" /\ TypedRows(k, y, "done") # {}
    THEN {logs[t].end : t \in TypedRows(k, y, "done")}
    ELSE {0}

-----------------------------------------------------------------------------
(* Updates.                                                                *)

With(S, s) ==
    [t \in DOMAIN logs |->
        IF t \in S THEN [logs[t] EXCEPT !.status = s] ELSE logs[t]]

NewRow(k, y, full, start) ==
    [kb |-> k, type |-> y, status |-> "schedule", full |-> full,
     start |-> start, end |-> 0, errs |-> 0]

Insert(f, t, r) == [u \in DOMAIN f \cup {t} |-> IF u = t THEN r ELSE f[u]]

SetConn(s) == conn' = IF conn = "gone" THEN conn ELSE s

\* ClaimTask's conditions: the row is scheduled and no other task of the same
\* connector and knowledge base is running.
Claimable(t) ==
    /\ Has(t, "schedule")
    /\ Rows(logs[t].kb, "running") \ {t} = {}

\* The claim of a task whose connector2kb row is there to be locked.  A task
\* whose own row is locked by an open claim has to wait for it.
ClaimTask(t) ==
    /\ Claimable(t)
    /\ logs[t].kb \in linked
    /\ t \notin counted
    /\ logs' = With({t}, "running")
    /\ UNCHANGED <<conn, linked, created, covered, counted>>

\* A missing connector2kb row is tolerated: the claim counts the running tasks
\* of the knowledge base under no lock that another claim would ask for ...
CountUnlinked(t) ==
    /\ Claimable(t)
    /\ logs[t].kb \notin linked
    /\ t \notin counted
    /\ counted' = counted \cup {t}
    /\ UNCHANGED <<logs, conn, linked, created, covered>>

\* ... and then updates the row, if its status still is SCHEDULE, whatever has
\* started to run since it counted.
ClaimCounted(t) ==
    /\ t \in counted
    /\ logs' = IF Has(t, "schedule") THEN With({t}, "running") ELSE logs
    /\ counted' = counted \ {t}
    /\ UNCHANGED <<conn, linked, created, covered>>

\* Open claims are rolled back.
AbortClaims(S) ==
    /\ counted' = counted \ S
    /\ UNCHANGED <<logs, conn, linked, created, covered>>

MarkConnectorRunning ==
    /\ SetConn("running")
    /\ UNCHANGED <<logs, linked, created, covered, counted>>

RescheduleClaimed(t) ==
    /\ IF Has(t, "running")
       THEN /\ logs' = With({t}, "schedule")
            /\ conn' = IF conn = "running" THEN "schedule" ELSE conn
       ELSE UNCHANGED <<logs, conn>>
    /\ UNCHANGED <<linked, created, covered, counted>>

\* Mutant: FailTask also overwrites a canceled row.
FailTaskAny(t, touch) ==
    /\ IF t \in DOMAIN logs
       THEN /\ logs' = [With({t}, "fail") EXCEPT ![t].errs = 1]
            /\ IF touch THEN SetConn("fail") ELSE UNCHANGED conn
       ELSE UNCHANGED <<logs, conn>>
    /\ UNCHANGED <<linked, created, covered, counted>>

\* touch: the caller passed a connector id.
FailTask(t, touch) ==
    /\ IF t \in DOMAIN logs /\ ~Has(t, "cancel")
       THEN /\ logs' = [With({t}, "fail") EXCEPT ![t].errs = 1]
            /\ IF touch THEN SetConn("fail") ELSE UNCHANGED conn
       ELSE UNCHANGED <<logs, conn>>
    /\ UNCHANGED <<linked, created, covered, counted>>

\* The status HandleTransientFailure gives a running task.
AfterTransient(t) ==
    IF logs[t].errs + 1 >= MaxTransientTaskRetries THEN "fail" ELSE "schedule"

HandleTransientFailure(t) ==
    /\ IF Has(t, "running")
       THEN /\ logs' = [With({t}, AfterTransient(t)) EXCEPT ![t].errs = logs[t].errs + 1]
            /\ SetConn(AfterTransient(t))
       ELSE UNCHANGED <<logs, conn>>
    /\ UNCHANGED <<linked, created, covered, counted>>

\* Mutant: the completing row itself counts as the next one.
CreateUnlessActive(done, k, y, start) ==
    IF TypedRows(k, y, "schedule") \cup TypedRows(k, y, "running") # {}
    THEN /\ logs' = done
         /\ SetConn("done")
         /\ UNCHANGED created
    ELSE /\ created < MaxTask
         /\ logs' = Insert(done, created + 1, NewRow(k, y, FALSE, start))
         /\ SetConn("schedule")
         /\ created' = created + 1

(***************************************************************************)
(* createScheduledTask inside a completion: reuse a scheduled row of the   *)
(* type, or insert the next one and schedule the connector.  done is the   *)
(* table after the completion's own update; the connector is already       *)
(* "done" when a row is reused.                                            *)
(***************************************************************************)
CreateScheduledTask(done, k, y, start) ==
    IF TypedRows(k, y, "schedule") # {}
    THEN /\ logs' = done
         /\ SetConn("done")
         /\ UNCHANGED created
    ELSE /\ created < MaxTask
         /\ logs' = Insert(done, created + 1, NewRow(k, y, FALSE, start))
         /\ SetConn("schedule")
         /\ created' = created + 1

\* The ids a completion of t may return: a row reused, the new row, or 0.
NextTaskIds(t) ==
    IF ~Has(t, "running") \/ (logs[t].type = "prune" /\ ~SyncDeletedFiles) THEN {0}
    ELSE LET reused == TypedRows(logs[t].kb, logs[t].type, "schedule")
         IN IF reused # {} THEN reused ELSE {created + 1}

\* The waterline after a completed SYNC of the window (start, end].
Covers(t, end) ==
    LET k    == logs[t].kb
        from == IF logs[t].full THEN 0 ELSE logs[t].start
    IN IF from <= covered[k] /\ end > covered[k]
       THEN [covered EXCEPT ![k] = end]
       ELSE covered

\* Mutant: the next row is created although no running row was completed.
CompleteSyncTaskAnyway(t, k, end) ==
    /\ k \in linked
    /\ CreateScheduledTask(
          [u \in DOMAIN logs |->
              IF u = t THEN [logs[t] EXCEPT !.status = "done", !.end = end, !.errs = 0]
                       ELSE logs[u]], k, "sync", end)
    /\ covered' = IF Has(t, "running") THEN Covers(t, end) ELSE covered
    /\ UNCHANGED <<linked, counted>>

\* k and t come from the caller's task context, read before the run.  Without
\* a connector2kb row createScheduledTask fails and the transaction rolls back.
CompleteSyncTask(t, k, end) ==
    /\ IF Has(t, "running")
       THEN /\ k \in linked
            /\ CreateScheduledTask(
                  [With({t}, "done") EXCEPT ![t].end = end, ![t].errs = 0],
                  k, "sync", end)
            /\ covered' = Covers(t, end)
       ELSE UNCHANGED <<logs, conn, created, covered>>
    /\ UNCHANGED <<linked, counted>>

CompletePruneTask(t, k) ==
    /\ IF ~Has(t, "running")
       THEN UNCHANGED <<logs, conn, created>>
       ELSE IF SyncDeletedFiles
            THEN /\ k \in linked
                 /\ CreateScheduledTask(With({t}, "done"), k, "prune", 0)
            ELSE /\ logs' = With({t}, "done")
                 /\ SetConn("done")
                 /\ UNCHANGED created
    /\ UNCHANGED <<linked, covered, counted>>

\* Startup recovery of the rows S that a scan found running, whichever process
\* runs them.  The scan is not part of the transaction: a row that has ended
\* since keeps its status, and the connector is rescheduled all the same.
RecoverRunning(S) ==
    /\ logs' = With({t \in S : Has(t, "running")}, "schedule")
    /\ conn' = IF S # {} /\ conn = "running" THEN "schedule" ELSE conn
    /\ UNCHANGED <<linked, created, covered, counted>>

-----------------------------------------------------------------------------
(* Requests of the API server.                                             *)

Active(S) == {t \in DOMAIN logs : logs[t].kb \in S /\ logs[t].status \in {"schedule", "running"}}

CancelRunningOrScheduledLogs ==
    /\ logs' = With(Active(Kb), "cancel")
    /\ UNCHANGED <<conn, linked, created, covered, counted>>

\* The second, separate update of cancelConnectorTasks.
CancelConnector ==
    /\ SetConn("cancel")
    /\ UNCHANGED <<logs, linked, created, covered, counted>>

DeleteConnectorRow ==
    /\ conn' = "gone"
    /\ UNCHANGED <<logs, linked, created, covered, counted>>

\* Task types a connector schedules for a knowledge base.
Scheduled == IF SyncDeletedFiles THEN TaskType ELSE {"sync"}

\* scheduleConnectorTask inserts a row for k and y unless one is active.
Missing(S) ==
    {n \in S \X Scheduled :
        TypedRows(n[1], n[2], "schedule") \cup TypedRows(n[1], n[2], "running") = {}}

\* Insert a row for every pair of need, with any distribution of fresh ids.
ScheduleMissing(need, full) ==
    LET ids == created + 1 .. created + Cardinality(need)
    IN /\ created + Cardinality(need) <= MaxTask
       /\ \E at \in [ids -> need], from \in [need -> Time] :
             /\ \A n \in need : \E i \in ids : at[i] = n
             /\ \A n \in need : from[n] \in LatestEnds(n[1], n[2])
             /\ logs' = [t \in DOMAIN logs \cup ids |->
                            IF t \in ids
                            THEN NewRow(at[t][1], at[t][2],
                                        full /\ at[t][2] = "sync", from[at[t]])
                            ELSE logs[t]]
       /\ created' = created + Cardinality(need)

ScheduleConnectorTasks ==
    /\ conn # "gone"
    /\ ScheduleMissing(Missing(linked), FALSE)
    /\ SetConn("schedule")
    /\ UNCHANGED <<linked, covered, counted>>

\* LinkDatasetConnectorsTx for one knowledge base: link, with a full SYNC ...
LinkKb(k) ==
    /\ conn # "gone"
    /\ k \notin linked
    /\ linked' = linked \cup {k}
    /\ ScheduleMissing(Missing({k}), TRUE)
    /\ UNCHANGED <<conn, covered, counted>>

\* ... or unlink, which cancels the active tasks.
UnlinkKb(k) ==
    /\ k \in linked
    /\ linked' = linked \ {k}
    /\ logs' = With(Active({k}), "cancel")
    /\ UNCHANGED <<conn, created, covered, counted>>

\* RebuildConnector drops the documents and all rows of k and starts over.
RebuildConnector(k) ==
    LET kept == {t \in DOMAIN logs : logs[t].kb # k}
        ids  == created + 1 .. created + Cardinality(Scheduled)
    IN /\ conn # "gone"
       /\ created + Cardinality(Scheduled) <= MaxTask
       /\ \E at \in [ids -> Scheduled] :
             /\ \A y \in Scheduled : \E i \in ids : at[i] = y
             /\ logs' = [t \in kept \cup ids |->
                            IF t \in ids THEN NewRow(k, at[t], at[t] = "sync", 0)
                                         ELSE logs[t]]
       /\ SetConn("schedule")
       /\ created' = created + Cardinality(Scheduled)
       /\ covered' = [covered EXCEPT ![k] = 0]
       /\ UNCHANGED <<linked, counted>>

ResumeFailedSyncTask(t) ==
    /\ conn # "gone"
    /\ Has(t, "fail")
    /\ logs[t].type = "sync"
    /\ logs' = [With({t}, "schedule") EXCEPT ![t].errs = 0]
    /\ SetConn("schedule")
    /\ UNCHANGED <<linked, created, covered, counted>>

-----------------------------------------------------------------------------
DbInit ==
    /\ logs = [t \in {} |-> <<>>]
    /\ conn = "unstarted"
    /\ linked = {}
    /\ created = 0
    /\ covered = [k \in Kb |-> 0]
    /\ counted = {}

TaskOp(t) ==
    \/ ClaimTask(t)
    \/ CountUnlinked(t)
    \/ ClaimCounted(t)
    \/ RescheduleClaimed(t)
    \/ \E touch \in BOOLEAN : FailTask(t, touch)
    \/ HandleTransientFailure(t)
    \/ \E k \in Kb, end \in Time :
          /\ t \in DOMAIN logs => logs[t].kb = k /\ logs[t].type = "sync"
          /\ CompleteSyncTask(t, k, end)
    \/ \E k \in Kb :
          /\ t \in DOMAIN logs => logs[t].kb = k /\ logs[t].type = "prune"
          /\ CompletePruneTask(t, k)
    \/ ResumeFailedSyncTask(t)

KbOp(k) == LinkKb(k) \/ UnlinkKb(k) \/ RebuildConnector(k)

ConnectorOp ==
    \/ MarkConnectorRunning
    \/ \E S \in SUBSET TaskId : RecoverRunning(S)
    \/ \E S \in SUBSET counted : AbortClaims(S)
    \/ CancelRunningOrScheduledLogs
    \/ CancelConnector
    \/ DeleteConnectorRow
    \/ ScheduleConnectorTasks

DbNext == (\E t \in TaskId : TaskOp(t)) \/ (\E k \in Kb : KbOp(k)) \/ ConnectorOp

DbSpec == DbInit /\ [][DbNext]_dbVars

-----------------------------------------------------------------------------
(***************************************************************************)
(* The chain of SYNC (and PRUNE) tasks of a knowledge base does not end    *)
(* with a success: where there is a task there is one of the same type     *)
(* that is not DONE.  Only a completion creates the next task, inside its  *)
(* own transaction, so a success that leaves none behind would end the     *)
(* periodic sync without an error anywhere.                                *)
(***************************************************************************)
ChainContinues ==
    \A t \in DOMAIN logs : logs[t].type \in Scheduled =>
        \E u \in DOMAIN logs : /\ logs[u].kb = logs[t].kb
                               /\ logs[u].type = logs[t].type
                               /\ logs[u].status # "done"

(***************************************************************************)
(* A canceled task stays canceled until its row is deleted: no late        *)
(* completion, failure, retry or recovery of a worker that had not noticed *)
(* the cancel brings it back.                                              *)
(***************************************************************************)
CancelIsFinal ==
    [][\A t \in DOMAIN logs : Has(t, "cancel") => t \notin DOMAIN logs' \/ Has(t, "cancel")']_dbVars

(***************************************************************************)
(* The poll waterline never runs ahead of the source: an incremental SYNC  *)
(* that can still run starts at or below the point up to which completed   *)
(* SYNC tasks have read the source since the last rebuild.  A worker that  *)
(* completes late (after a cancel, a recovery or a rebuild) must not       *)
(* create a row that starts beyond a part nobody read.                     *)
(***************************************************************************)
NoGap ==
    \A t \in DOMAIN logs :
        /\ logs[t].type = "sync"
        /\ logs[t].status \in {"schedule", "running", "fail"}
        /\ ~logs[t].full
        => logs[t].start <= covered[logs[t].kb]

\* The strengthening that makes NoGap inductive: poll_range_end of a DONE row,
\* which a new row may take over, is covered as well, and so is its start,
\* since FailTask can turn a DONE row into a failed one that is resumed later.
DoneCovered ==
    \A t \in DOMAIN logs :
        logs[t].type = "sync" /\ logs[t].status = "done" =>
            /\ logs[t].end <= covered[logs[t].kb]
            /\ logs[t].full \/ logs[t].start <= covered[logs[t].kb]

DbInv == TypeOK /\ ChainContinues /\ NoGap /\ DoneCovered
=============================================================================
