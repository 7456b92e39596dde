------------------------- MODULE TaskWorkers_proofs -------------------------
(***************************************************************************)
(* The syncer, its broker, lock and API requests use the sync_logs table   *)
(* only through the transactions of SyncTasks, so everything proved there  *)
(* holds for the whole program; runs of a knowledge base exclude each      *)
(* other as far as the lock ensures it in any deployment; while no process *)
(* stops a DONE row stays DONE; and, each under the conditions it names, a *)
(* RUNNING row has an owner and a scheduled row is woken.                  *)
(***************************************************************************)
EXTENDS TaskWorkers, SyncTasks_proofs

\* No transaction gives an old id a new row or changes whose task a row is.
RowsKept ==
    /\ created \in Nat /\ created' \in Nat /\ created <= created'
    /\ \A t \in DOMAIN logs' : t <= created =>
          /\ t \in DOMAIN logs
          /\ logs'[t].kb = logs[t].kb
          /\ logs'[t].type = logs[t].type

LEMMA DbStepKeepsRows == ASSUME DbInv, [DbNext]_dbVars PROVE RowsKept
<1>0. /\ created \in Nat /\ created' \in Nat /\ DOMAIN logs \subseteq Nat
      /\ logs \in [DOMAIN logs -> Row]
  BY DbInvStep, SyncTasksAssumption DEF DbInv, TypeOK
<1>1. CASE InPlace /\ Settling
  BY <1>0, <1>1 DEF InPlace, RowsKept
<1>2. CASE \E ids : Grows(ids)
  <2>1. PICK ids : Grows(ids)
    BY <1>2
  <2>2. \A t \in ids : t \in Nat
    BY <1>0, <2>1 DEF Grows
  <2> QED BY <1>0, <2>1, <2>2 DEF Grows, RowsKept
<1>3. CASE \E t \in TaskId : Claims(t)
  <2>1. PICK t \in TaskId : Claims(t)
    BY <1>3
  <2>2. logs' = With({t}, "running") /\ created' = created
    BY <2>1 DEF Claims
  <2>3. "running" \in Status /\ TypeOK
    BY DEF Status, DbInv
  <2> QED BY <1>0, <2>2, <2>3, WithRows DEF RowsKept
<1>4. CASE \E k \in Kb : RebuildConnector(k)
  <2>1. PICK k \in Kb : RebuildConnector(k)
    BY <1>4
  <2>2. PICK ids :
          /\ DOMAIN logs' = {t \in DOMAIN logs : logs[t].kb # k} \cup ids
          /\ DOMAIN logs' \subseteq 1..created'
          /\ created <= created' /\ \A t \in ids : created < t
          /\ \A t \in DOMAIN logs : logs[t].kb # k => logs'[t] = logs[t]
    BY <2>1, RebuildRows
  <2>3. \A t \in ids : t \in Nat
    BY <1>0, <2>2
  <2> QED BY <1>0, <2>2, <2>3 DEF RowsKept
<1>5. CASE UNCHANGED dbVars
  BY <1>0, <1>5 DEF RowsKept, dbVars
<1> QED BY <1>1, <1>2, <1>3, <1>4, <1>5, StepKinds

-----------------------------------------------------------------------------
(* Each step is a transaction of SyncTasks or leaves the table alone.      *)

LEMMA AbortUsesDb == ASSUME NEW S, AbortClaims(S) PROVE DbNext
<1> DEFINE open == S \cap counted
<1>1. AbortClaims(open)
  BY DEF AbortClaims
<1>2. open \in SUBSET counted
  OBVIOUS
<1> HIDE DEF open
<1> QED BY <1>1, <1>2 DEF DbNext, ConnectorOp

LEMMA WorkerUsesDb ==
    ASSUME JobInv, NEW w \in Worker, WorkerStep(w)
    PROVE  DbNext \/ UNCHANGED dbVars
<1>0. pc[w] # "idle" => T(w) \in TaskId
  BY DEF JobInv
<1> USE DEF DbNext
<1>1. ASSUME NEW t \in TaskId, Claim(w, t) PROVE DbNext \/ UNCHANGED dbVars
  BY <1>1 DEF Claim, TaskOp
<1>2. CASE Recheck(w)
  BY <1>2 DEF Recheck, dbVars
<1>3. CASE ClaimContext(w)
  BY <1>3 DEF ClaimContext, ConnectorOp
<1>4. CASE ClaimError(w)
  BY <1>4 DEF ClaimError, dbVars
<1>5. CASE GetContext(w)
  BY <1>5 DEF GetContext, dbVars
<1>6. CASE GetContextError(w)
  <2>1. T(w) \in TaskId
    BY <1>0, <1>6 DEF GetContextError, At
  <2>2. RescheduleClaimed(T(w)) \/ FailTask(T(w), FALSE)
    BY <1>6 DEF GetContextError
  <2> QED BY <2>1, <2>2 DEF TaskOp
<1>7. CASE StartRun(w)
  BY <1>7 DEF StartRun, dbVars
<1>8. CASE LockMiss(w)
  <2>1. T(w) \in TaskId
    BY <1>0, <1>8 DEF LockMiss, At
  <2>2. RescheduleClaimed(T(w)) \/ UNCHANGED dbVars
    BY <1>8 DEF LockMiss
  <2> QED BY <2>1, <2>2 DEF TaskOp
<1>9. CASE Complete(w)
  <2>1. /\ T(w) \in TaskId /\ window[T(w)] \in Time /\ job[w].kb \in Kb
        /\ T(w) \in DOMAIN logs => /\ logs[T(w)].kb = job[w].kb
                                   /\ logs[T(w)].type = job[w].type
    BY <1>9 DEF Complete, At, JobInv
  <2>2. \/ job[w].type = "sync" /\ CompleteSyncTask(T(w), job[w].kb, window[T(w)])
        \/ job[w].type = "prune" /\ CompletePruneTask(T(w), job[w].kb)
    BY <1>9 DEF Complete
  <2> QED BY <2>1, <2>2 DEF TaskOp
<1>10. CASE RunError(w)
  <2>1. T(w) \in TaskId
    BY <1>0, <1>10 DEF RunError, At
  <2>2. \/ RescheduleClaimed(T(w)) \/ FailTask(T(w), TRUE)
        \/ HandleTransientFailure(T(w)) \/ UNCHANGED dbVars
    BY <1>10 DEF RunError
  <2> QED BY <2>1, <2>2 DEF TaskOp
<1>11. CASE ScheduleNext(w)
  BY <1>11 DEF ScheduleNext, dbVars
<1>14. CASE ClaimUnlinked(w)
  <2>1. T(w) \in TaskId /\ ClaimCounted(T(w))
    BY <1>0, <1>14 DEF ClaimUnlinked, At
  <2> QED BY <2>1 DEF TaskOp
<1>15. CASE ClaimRolledBack(w)
  BY <1>15, AbortUsesDb DEF ClaimRolledBack
<1>16. CASE LockMissError(w)
  <2>1. T(w) \in TaskId
    BY <1>0, <1>16 DEF LockMissError, At
  <2>2. RescheduleClaimed(T(w)) \/ UNCHANGED dbVars
    BY <1>16 DEF LockMissError
  <2> QED BY <2>1, <2>2 DEF TaskOp
<1>17. CASE CompleteLost(w)
  <2>1. /\ T(w) \in TaskId /\ window[T(w)] \in Time /\ job[w].kb \in Kb
        /\ T(w) \in DOMAIN logs => /\ logs[T(w)].kb = job[w].kb
                                   /\ logs[T(w)].type = job[w].type
    BY <1>17 DEF CompleteLost, At, JobInv
  <2>2. \/ job[w].type = "sync" /\ CompleteSyncTask(T(w), job[w].kb, window[T(w)])
        \/ job[w].type = "prune" /\ CompletePruneTask(T(w), job[w].kb)
    BY <1>17 DEF CompleteLost
  <2> QED BY <2>1, <2>2 DEF TaskOp
<1>12. CASE Unlock(w)
  BY <1>12 DEF Unlock, dbVars
<1>13. CASE Release(w)
  BY <1>13 DEF Release, dbVars
<1> QED BY <1>1, <1>2, <1>3, <1>4, <1>5, <1>6, <1>7, <1>8, <1>9, <1>10, <1>11, <1>12, <1>13,
           <1>14, <1>15, <1>16, <1>17 DEF WorkerStep

LEMMA ProcUsesDb ==
    ASSUME JobInv, NEW p \in Proc, ProcStep(p) PROVE DbNext \/ UNCHANGED dbVars
<1>1. CASE Recover(p) \/ RecoverError(p)
  <2>1. RecoverRunning(scan[p]) \/ UNCHANGED dbVars
    BY <1>1 DEF Recover, RecoverError
  <2>2. scan[p] \in SUBSET TaskId
    BY DEF JobInv
  <2> QED BY <2>1, <2>2 DEF DbNext, ConnectorOp
<1>2. CASE Crash(p)
  <2>1. PICK S : AbortClaims(S)
    BY <1>2 DEF Crash
  <2> QED BY <2>1, AbortUsesDb
<1>3. CASE ~(Recover(p) \/ RecoverError(p) \/ Crash(p))
  BY <1>3 DEF ProcStep, TimerFires, Stop, Exit, Start, ScanRunning, PublishStartup, dbVars
<1> QED BY <1>1, <1>2, <1>3

LEMMA ApiUsesDb == ASSUME ApiStep PROVE DbNext \/ UNCHANGED dbVars
<1>1. ASSUME NEW k \in Kb, ApiLink(k) \/ ApiUnlink(k) \/ ApiRebuild(k) PROVE DbNext
  BY <1>1 DEF ApiLink, ApiUnlink, ApiRebuild, DbNext, KbOp
<1>2. ASSUME NEW t \in TaskId, ApiResume(t) PROVE DbNext
  BY <1>2 DEF ApiResume, DbNext, TaskOp
<1>3. ASSUME NEW kind, ApiCancelLogs(kind) PROVE DbNext
  BY <1>3 DEF ApiCancelLogs, DbNext, ConnectorOp
<1>4. CASE ApiCancelConnector \/ ApiDelete \/ ApiSchedule
  BY <1>4 DEF ApiCancelConnector, ApiDelete, ApiSchedule, DbNext, ConnectorOp
<1>5. CASE ApiPublish \/ ApiWakeup
  BY <1>5 DEF ApiPublish, ApiWakeup, dbVars
<1> QED BY <1>1, <1>2, <1>3, <1>4, <1>5 DEF ApiStep

LEMMA NextUsesDb == ASSUME JobInv, [Next]_vars PROVE [DbNext]_dbVars
<1>1. ASSUME NEW w \in Worker, Redeliver(w) PROVE UNCHANGED dbVars
  BY <1>1 DEF Redeliver, dbVars
<1>2. ASSUME NEW k \in Kb, KeyExpires(k) PROVE UNCHANGED dbVars
  BY <1>2 DEF KeyExpires, dbVars
<1>3. ASSUME NEW t \in TaskId, ForgetMsgId(t) PROVE UNCHANGED dbVars
  BY <1>3 DEF ForgetMsgId, dbVars
<1>4. CASE Tick
  BY <1>4 DEF Tick, dbVars
<1>5. CASE UNCHANGED vars
  BY <1>5 DEF vars
<1> QED BY <1>1, <1>2, <1>3, <1>4, <1>5, WorkerUsesDb, ProcUsesDb, ApiUsesDb DEF Next

-----------------------------------------------------------------------------
(* JobInv is inductive.                                                    *)

Jobs == [task : 0..MaxTask, kb : Kb \cup {NoKb}, type : TaskType \cup {"none"}]

\* What JobInv says of one worker.
JobOf(w) ==
    /\ pc[w] # "idle" => T(w) \in TaskId
    /\ pc[w] \in {"lock", "run"} =>
          /\ job[w].kb \in Kb /\ job[w].type \in TaskType
          /\ T(w) <= created
          /\ T(w) \in DOMAIN logs =>
                logs[T(w)].kb = job[w].kb /\ logs[T(w)].type = job[w].type

LEMMA JobInvParts ==
    JobInv <=> /\ pc \in [Worker -> Label] /\ job \in [Worker -> Jobs]
               /\ window \in [TaskId -> Time] /\ clock \in Time
               /\ scan \in [Proc -> SUBSET TaskId]
               /\ \A w \in Worker : JobOf(w)
BY DEF JobInv, JobOf, Jobs

LEMMA JobInvPartsNext ==
    JobInv' <=> /\ pc' \in [Worker -> Label] /\ job' \in [Worker -> Jobs]
                /\ window' \in [TaskId -> Time] /\ clock' \in Time
                /\ scan' \in [Proc -> SUBSET TaskId]
                /\ \A w \in Worker : JobOf(w)'
BY DEF JobInv, JobOf, Jobs, T, Time, TaskId, TaskType

\* A handler that stays in the same phase with the same context.
LEMMA JobFrame ==
    ASSUME JobInv, RowsKept, NEW v \in Worker, job'[v] = job[v],
           pc'[v] = pc[v] \/ (pc[v] = "lock" /\ pc'[v] = "run")
                          \/ (pc'[v] \notin {"lock", "run"} /\ pc[v] # "idle")
    PROVE  JobOf(v)'
<1>1. pc[v] # "idle" => T(v) \in TaskId
  BY DEF JobInv
<1>2. T(v) \in Nat /\ T(v)' = T(v)
  BY SyncTasksAssumption DEF JobInv, T
<1>3. pc[v] \in {"lock", "run"} =>
          /\ job[v].kb \in Kb /\ job[v].type \in TaskType
          /\ T(v) <= created
          /\ T(v) \in DOMAIN logs =>
                logs[T(v)].kb = job[v].kb /\ logs[T(v)].type = job[v].type
  BY DEF JobInv
<1> HIDE DEF T
<1>4. pc'[v] # "idle" => T(v)' \in TaskId
  BY <1>1, <1>2
<1>5. ASSUME pc'[v] \in {"lock", "run"}
      PROVE  /\ job'[v].kb \in Kb /\ job'[v].type \in TaskType
             /\ T(v)' <= created'
             /\ T(v)' \in DOMAIN logs' =>
                   logs'[T(v)'].kb = job'[v].kb /\ logs'[T(v)'].type = job'[v].type
  BY <1>2, <1>3, <1>5 DEF RowsKept
<1> QED BY <1>4, <1>5 DEF JobOf

\* A worker that leaves handle.
LEMMA JobLeave ==
    ASSUME JobInv, RowsKept, NEW w \in Worker, Leave(w)
    PROVE  /\ pc' \in [Worker -> Label] /\ job' \in [Worker -> Jobs]
           /\ \A v \in Worker : JobOf(v)'
<1>1. pc \in [Worker -> Label] /\ job \in [Worker -> Jobs]
  BY JobInvParts
<1>2. pc' = [pc EXCEPT ![w] = "idle"] /\ job' = [job EXCEPT ![w] = NoJob]
  BY DEF Leave, Goto
<1>3. NoJob \in Jobs
  BY SyncTasksAssumption DEF NoJob, Jobs
<1>4. JobOf(w)'
  BY <1>1, <1>2 DEF JobOf
<1>5. ASSUME NEW v \in Worker, v # w PROVE JobOf(v)'
  BY <1>1, <1>2, <1>5, JobFrame
<1> QED BY <1>1, <1>2, <1>3, <1>4, <1>5 DEF Label

\* A worker that goes on with the context it has.
LEMMA JobMove ==
    ASSUME JobInv, RowsKept, NEW w \in Worker, NEW l \in Label, Goto(w, l), job' = job,
           pc[w] # "idle", l \notin {"lock", "run"} \/ (pc[w] = "lock" /\ l = "run")
    PROVE  /\ pc' \in [Worker -> Label] /\ job' \in [Worker -> Jobs]
           /\ \A v \in Worker : JobOf(v)'
<1>1. pc \in [Worker -> Label] /\ job \in [Worker -> Jobs]
  BY JobInvParts
<1>2. pc' = [pc EXCEPT ![w] = l]
  BY DEF Goto
<1>3. JobOf(w)'
  BY <1>1, <1>2, JobFrame
<1>4. ASSUME NEW v \in Worker, v # w PROVE JobOf(v)'
  BY <1>1, <1>2, <1>4, JobFrame
<1> QED BY <1>1, <1>2, <1>3, <1>4

LEMMA WorkerJobs ==
    ASSUME DbInv, JobInv, RowsKept, NEW w \in Worker, WorkerStep(w)
    PROVE  JobInv'
<1> DEFINE Ok == /\ pc' \in [Worker -> Label] /\ job' \in [Worker -> Jobs]
                 /\ \A v \in Worker : JobOf(v)'
<1>0. /\ pc \in [Worker -> Label] /\ job \in [Worker -> Jobs]
      /\ window \in [TaskId -> Time] /\ clock \in Time
      /\ scan \in [Proc -> SUBSET TaskId]
  BY JobInvParts
<1>a. {"idle", "counted", "recheck", "claimed", "context", "lock", "run", "unsure", "next",
       "unlock", "release"} \subseteq Label
  BY DEF Label
<1>1. ASSUME NEW t \in TaskId, Claim(w, t) PROVE Ok /\ UNCHANGED <<window, clock>>
  <2>1. PICK l \in {"counted", "claimed", "recheck"} : pc' = [pc EXCEPT ![w] = l]
    BY <1>1 DEF Claim, Goto
  <2>2. job' = [job EXCEPT ![w] = [NoJob EXCEPT !.task = t]] /\ UNCHANGED <<window, clock>>
    BY <1>1 DEF Claim
  <2>3. [NoJob EXCEPT !.task = t] = [task |-> t, kb |-> NoKb, type |-> "none"]
    BY DEF NoJob
  <2>4. [task |-> t, kb |-> NoKb, type |-> "none"] \in Jobs
    BY SyncTasksAssumption DEF Jobs, TaskId
  <2>5. JobOf(w)'
    BY <1>0, <2>1, <2>2, <2>3 DEF JobOf, T, TaskId
  <2>6. ASSUME NEW v \in Worker, v # w PROVE JobOf(v)'
    BY <1>0, <2>1, <2>2, <2>6, JobFrame
  <2> QED BY <1>0, <1>a, <2>1, <2>2, <2>3, <2>4, <2>5, <2>6
<1>2. ASSUME Recheck(w) PROVE Ok
  BY <1>2, JobLeave DEF Recheck
<1>3. ASSUME ClaimContext(w) PROVE Ok
  BY <1>3, <1>a, JobMove DEF ClaimContext, At
<1>4. ASSUME ClaimError(w) PROVE Ok
  BY <1>4, JobLeave DEF ClaimError
<1>5. ASSUME GetContext(w) PROVE Ok
  <2>1. /\ pc[w] = "context" /\ pc' = [pc EXCEPT ![w] = "lock"]
        /\ job' = [job EXCEPT ![w].kb = logs[T(w)].kb, ![w].type = logs[T(w)].type]
        /\ T(w) \in DOMAIN logs
        /\ UNCHANGED <<logs, created, window, clock>>
    BY <1>5 DEF GetContext, At, HasContext, Goto, dbVars
  <2>2. /\ T(w) \in TaskId /\ T(w) <= created
        /\ logs[T(w)].kb \in Kb /\ logs[T(w)].type \in TaskType
    BY <2>1 DEF DbInv, TypeOK, Row, JobInv
  <2>3. /\ job' \in [Worker -> Jobs]
        /\ job'[w].task = T(w) /\ job'[w].kb = logs[T(w)].kb /\ job'[w].type = logs[T(w)].type
        /\ \A v \in Worker : v # w => job'[v] = job[v]
    BY <1>0, <2>1, <2>2 DEF Jobs, T
  <2>4. T(w)' = T(w)
    BY <2>3 DEF T
  <2>5. JobOf(w)'
    BY <1>0, <2>1, <2>2, <2>3, <2>4 DEF JobOf
  <2>6. ASSUME NEW v \in Worker, v # w PROVE JobOf(v)'
    BY <1>0, <2>1, <2>3, <2>6, JobFrame
  <2> QED BY <1>0, <1>a, <2>1, <2>3, <2>5, <2>6
<1>6. ASSUME GetContextError(w) PROVE Ok
  BY <1>6, JobLeave DEF GetContextError
<1>7. ASSUME StartRun(w) PROVE Ok /\ window' \in [TaskId -> Time] /\ clock' \in Time
  <2>1. Ok
    BY <1>7, <1>a, JobMove DEF StartRun, At
  <2>2. window' \in [TaskId -> Time] /\ clock' \in Time
    BY <1>0, <1>7 DEF StartRun
  <2> QED BY <2>1, <2>2
<1>8. ASSUME LockMiss(w) PROVE Ok
  BY <1>8, JobLeave DEF LockMiss
<1>9. ASSUME Complete(w) PROVE Ok /\ window' \in [TaskId -> Time] /\ clock' \in Time
  <2>1. Ok
    BY <1>9, <1>a, JobMove DEF Complete, At
  <2>2. window' \in [TaskId -> Time] /\ clock' \in Time
    BY <1>0, <1>9, SyncTasksAssumption DEF Complete, Time
  <2> QED BY <2>1, <2>2
<1>10. ASSUME RunError(w) PROVE Ok
  BY <1>10, <1>a, JobMove DEF RunError, At
<1>11. ASSUME ScheduleNext(w) PROVE Ok
  BY <1>11, <1>a, JobMove DEF ScheduleNext, At
<1>12. ASSUME Unlock(w) PROVE Ok
  BY <1>12, <1>a, JobMove DEF Unlock, At
<1>13. ASSUME Release(w) PROVE Ok
  BY <1>13, JobLeave DEF Release
<1>15. ASSUME ClaimUnlinked(w) PROVE Ok
  <2>1. PICK l \in {"claimed", "recheck"} : Goto(w, l)
    BY <1>15 DEF ClaimUnlinked
  <2> QED BY <1>15, <2>1, <1>a, JobMove DEF ClaimUnlinked, At
<1>16. ASSUME ClaimRolledBack(w) PROVE Ok
  BY <1>16, JobLeave DEF ClaimRolledBack
<1>17. ASSUME LockMissError(w) PROVE Ok
  BY <1>17, JobLeave DEF LockMissError
<1>18. ASSUME CompleteLost(w) PROVE Ok
  BY <1>18, <1>a, JobMove DEF CompleteLost, At
<1>14. Ok /\ window' \in [TaskId -> Time] /\ clock' \in Time
  <2>1. UNCHANGED <<window, clock>> \/ StartRun(w) \/ Complete(w)
    BY DEF WorkerStep, Claim, Recheck, ClaimContext, ClaimError, GetContext,
           GetContextError, LockMiss, RunError, ScheduleNext, Unlock, Release,
           ClaimUnlinked, ClaimRolledBack, LockMissError, CompleteLost
  <2>2. CASE StartRun(w)
    BY <1>7, <2>2
  <2>3. CASE Complete(w)
    BY <1>9, <2>3
  <2> QED BY <1>0, <1>1, <1>2, <1>3, <1>4, <1>5, <1>6, <1>8, <1>10, <1>11, <1>12, <1>13,
             <1>15, <1>16, <1>17, <1>18, <2>1, <2>2, <2>3 DEF WorkerStep
<1>19. scan' = scan
  BY DEF WorkerStep, Claim, Recheck, ClaimContext, ClaimError, GetContext, GetContextError,
         LockMiss, RunError, ScheduleNext, Unlock, Release, StartRun, Complete,
         ClaimUnlinked, ClaimRolledBack, LockMissError, CompleteLost, procVars
<1> QED BY <1>0, <1>14, <1>19, JobInvPartsNext

\* Steps of nobody's handler.
LEMMA OthersJobs ==
    ASSUME JobInv, RowsKept, pc' = pc, job' = job,
           window' \in [TaskId -> Time], clock' \in Time, scan' \in [Proc -> SUBSET TaskId]
    PROVE  JobInv'
<1>1. pc \in [Worker -> Label] /\ job \in [Worker -> Jobs]
  BY JobInvParts
<1>2. \A v \in Worker : JobOf(v)'
  BY JobFrame
<1> QED BY <1>1, <1>2, JobInvPartsNext

LEMMA CrashJobs == ASSUME JobInv, RowsKept, NEW p \in Proc, Crash(p) PROVE JobInv'
<1> DEFINE mine == {w \in Worker : P(w) = p}
<1>1. /\ pc \in [Worker -> Label] /\ job \in [Worker -> Jobs]
      /\ window \in [TaskId -> Time] /\ clock \in Time
      /\ scan \in [Proc -> SUBSET TaskId]
  BY JobInvParts
<1>2. /\ pc' = [w \in Worker |-> IF w \in mine THEN "idle" ELSE pc[w]]
      /\ job' = [w \in Worker |-> IF w \in mine THEN NoJob ELSE job[w]]
      /\ UNCHANGED <<window, clock>>
      /\ scan' = [scan EXCEPT ![p] = {}]
  BY DEF Crash
<1>3. NoJob \in Jobs /\ "idle" \in Label
  BY SyncTasksAssumption DEF NoJob, Jobs, Label
<1> HIDE DEF mine
<1>4. ASSUME NEW v \in Worker PROVE JobOf(v)'
  <2>1. CASE v \in mine
    BY <1>2, <2>1 DEF JobOf
  <2>2. CASE v \notin mine
    BY <1>2, <2>2, JobFrame
  <2> QED BY <2>1, <2>2
<1> QED BY <1>1, <1>2, <1>3, <1>4, JobInvPartsNext

LEMMA JobInvStep == ASSUME DbInv, JobInv, [Next]_vars PROVE JobInv'
<1>0. RowsKept
  BY NextUsesDb, DbStepKeepsRows
<1>1. /\ window \in [TaskId -> Time] /\ clock \in Time /\ 0 \in Time
      /\ scan \in [Proc -> SUBSET TaskId]
  BY SyncTasksAssumption DEF JobInv, Time
<1>2. ASSUME NEW w \in Worker, WorkerStep(w) PROVE JobInv'
  BY <1>0, <1>2, WorkerJobs
<1>3. ASSUME NEW w \in Worker, Redeliver(w) PROVE JobInv'
  BY <1>0, <1>1, <1>3, OthersJobs DEF Redeliver, workVars, procVars
<1>4. ASSUME NEW p \in Proc, ProcStep(p) PROVE JobInv'
  <2>1. Crash(p) \/ UNCHANGED <<pc, job, window, clock>>
    BY <1>4 DEF ProcStep, TimerFires, Stop, Exit, Start, ScanRunning, Recover, RecoverError,
                PublishStartup, workVars
  <2>2. DOMAIN logs \subseteq TaskId
    BY SyncTasksAssumption DEF DbInv, TypeOK, TaskId
  <2>3. scan' \in [Proc -> SUBSET TaskId]
    <3>1. CASE ScanRunning(p)
      <4>1. PICK S \in SUBSET TaskId : scan' = [scan EXCEPT ![p] = S]
        BY <2>2, <3>1 DEF ScanRunning
      <4> QED BY <1>1, <4>1
    <3>2. CASE ~ScanRunning(p)
      <4>1. scan' = scan \/ scan' = [scan EXCEPT ![p] = {}]
        BY <1>4, <3>2 DEF ProcStep, TimerFires, Stop, Exit, Crash, Start, Recover, RecoverError,
                          PublishStartup
      <4> QED BY <1>1, <4>1
    <3> QED BY <3>1, <3>2
  <2> QED BY <1>0, <1>1, <2>1, <2>3, CrashJobs, OthersJobs
<1>5. ASSUME NEW k \in Kb, KeyExpires(k) PROVE JobInv'
  BY <1>0, <1>1, <1>5, OthersJobs DEF KeyExpires, workVars, procVars
<1>6. ASSUME NEW t \in TaskId, ForgetMsgId(t) PROVE JobInv'
  BY <1>0, <1>1, <1>6, OthersJobs DEF ForgetMsgId, workVars, procVars
<1>7. ASSUME Tick PROVE JobInv'
  <2>1. clock' \in Time
    BY <1>1, <1>7, SyncTasksAssumption DEF Tick, Time
  <2> QED BY <1>0, <1>1, <1>7, <2>1, OthersJobs DEF Tick, workVars, procVars
<1>8. ASSUME ApiStep PROVE JobInv'
  <2>1. pc' = pc /\ job' = job /\ clock' = clock /\ scan' = scan
    BY <1>8 DEF ApiStep, ApiCancelLogs, ApiCancelConnector, ApiDelete, ApiSchedule, ApiLink,
                ApiUnlink, ApiRebuild, ApiPublish, ApiResume, ApiWakeup, workersIdle, workVars,
                procVars
  <2>2. window' \in [TaskId -> Time]
    <3>1. ApiPublish \/ UNCHANGED window
      BY <1>8 DEF ApiStep, ApiCancelLogs, ApiCancelConnector, ApiDelete, ApiSchedule, ApiLink,
                  ApiUnlink, ApiRebuild, ApiResume, ApiWakeup
    <3> QED BY <1>1, <3>1 DEF ApiPublish
  <2> QED BY <1>0, <1>1, <2>1, <2>2, OthersJobs
<1>9. ASSUME UNCHANGED vars PROVE JobInv'
  BY <1>0, <1>1, <1>9, OthersJobs DEF vars, workVars, procVars
<1> QED BY <1>2, <1>3, <1>4, <1>5, <1>6, <1>7, <1>8, <1>9 DEF Next

-----------------------------------------------------------------------------
(* The contract of the table, and the lock.                                *)

\* Inductive core: the table invariant and the handlers' contexts.
THEOREM WorkersInv == Spec => [](DbInv /\ JobInv)
<1>1. Init => DbInv /\ JobInv
  <2>1. ASSUME Init PROVE JobInv
    BY <2>1, SyncTasksAssumption DEF Init, JobInv, NoJob, Time, TaskType, Label
  <2> QED BY <2>1, InitInv DEF Init
<1>2. DbInv /\ JobInv /\ [Next]_vars => (DbInv /\ JobInv)'
  BY NextUsesDb, DbInvStep, JobInvStep
<1> QED BY <1>1, <1>2, PTL DEF Spec

\* Workers, scheduler, API requests, crashes and redeliveries implement the
\* abstract contract of the table: every step is one of its transactions, with
\* the arguments it allows, or leaves the table alone.
THEOREM WorkersImplementDb == Spec => DbSpec
<1>1. Init => DbInit
  BY DEF Init
<1>2. JobInv /\ [Next]_vars => [DbNext]_dbVars
  BY NextUsesDb
<1> QED BY <1>1, <1>2, WorkersInv, PTL DEF Spec, DbSpec

\* A step of worker w that takes or gives nothing but a key nobody has.
LEMMA LockQuiet ==
    ASSUME LockInv, UNCHANGED local,
           \A v \in Worker : Holds(v)' => Holds(v) /\ job'[v] = job[v],
           key' \in [Kb -> Proc \cup {NoOne, Dead}],
           \A k \in Kb : key'[k] = key[k] \/ key[k] = NoOne
    PROVE  LockInv'
<1>1. \A v \in Worker : P(v)' = P(v) /\ (Alone(v)' <=> Alone(v)) /\ P(v) \in Proc /\ P(v) # NoOne
  BY WorkersAssumption DEF P, Alone
<1>2. ASSUME NEW w \in Worker, Holds(w)'
      PROVE  job'[w].kb \in local'[P(w)] /\ (Alone(w) => key'[job'[w].kb] = P(w))
  <2>1. Holds(w) /\ job'[w] = job[w]
    BY <1>2
  <2>2. job[w].kb \in local[P(w)] /\ (Alone(w) => key[job[w].kb] = P(w)) /\ local[P(w)] \in SUBSET Kb
    BY <2>1, <1>1 DEF LockInv
  <2> QED BY <1>1, <2>1, <2>2
<1>3. ASSUME NEW v \in Worker, NEW w \in Worker, v # w, Holds(v)', Holds(w)', P(v) = P(w)
      PROVE  job'[v].kb # job'[w].kb
  BY <1>3 DEF LockInv
<1> QED BY <1>1, <1>2, <1>3 DEF LockInv

LEMMA LockWorker ==
    ASSUME JobInv, LockInv, NEW w \in Worker, WorkerStep(w) PROVE LockInv'
<1>0. /\ key \in [Kb -> Proc \cup {NoOne, Dead}] /\ local \in [Proc -> SUBSET Kb]
      /\ pc \in [Worker -> Label] /\ job \in [Worker -> Jobs]
  BY JobInvParts DEF LockInv
<1>p. \A v \in Worker : P(v)' = P(v) /\ (Alone(v)' <=> Alone(v)) /\ P(v) \in Proc /\ P(v) # NoOne
  BY WorkersAssumption DEF P, Alone
<1>h. \A v \in Worker : Holds(v) =>
        /\ job[v].kb \in local[P(v)] /\ job[v].kb \in Kb
        /\ Alone(v) => key[job[v].kb] = P(v)
  BY <1>0, <1>p DEF LockInv
<1>1. CASE StartRun(w)
  <2>1. /\ pc[w] = "lock" /\ key[job[w].kb] \in {NoOne, P(w)} /\ job[w].kb \notin local[P(w)]
        /\ key' = [key EXCEPT ![job[w].kb] = P(w)]
        /\ local' = [local EXCEPT ![P(w)] = @ \cup {job[w].kb}]
        /\ pc' = [pc EXCEPT ![w] = "run"] /\ job' = job
    BY <1>1 DEF StartRun, At, Goto
  <2>2. job[w].kb \in Kb
    BY <2>1 DEF JobInv
  <2>3. /\ local' \in [Proc -> SUBSET Kb] /\ key' \in [Kb -> Proc \cup {NoOne, Dead}]
        /\ job[w].kb \in local'[P(w)] /\ key'[job[w].kb] = P(w)
        /\ \A p \in Proc : local[p] \subseteq local'[p]
        /\ \A k \in Kb : k # job[w].kb => key'[k] = key[k]
    BY <1>0, <1>p, <2>1, <2>2
  <2>4. \A v \in Worker : v # w => (Holds(v)' <=> Holds(v))
    BY <1>0, <2>1 DEF Holds
  <2>5. \A v \in Worker : v # w /\ Holds(v) /\ P(v) = P(w) => job[v].kb # job[w].kb
    BY <1>h, <2>1
  <2>6. \A v \in Worker : v # w /\ Holds(v) /\ Alone(v) => job[v].kb # job[w].kb
    BY <1>h, <1>p, <2>1, <2>5
  <2>7. ASSUME NEW v \in Worker, Holds(v)'
        PROVE  job'[v].kb \in local'[P(v)] /\ (Alone(v) => key'[job'[v].kb] = P(v))
    <3>1. CASE v = w
      BY <2>1, <2>3, <3>1
    <3>2. CASE v # w
      BY <1>h, <1>p, <2>1, <2>3, <2>4, <2>6, <2>7, <3>2
    <3> QED BY <3>1, <3>2
  <2>8. ASSUME NEW u \in Worker, NEW v \in Worker, u # v, Holds(u)', Holds(v)', P(u) = P(v)
        PROVE  job'[u].kb # job'[v].kb
    <3>1. CASE u = w \/ v = w
      BY <2>1, <2>4, <2>5, <2>8, <3>1
    <3>2. CASE u # w /\ v # w
      BY <2>1, <2>4, <2>8, <3>2 DEF LockInv
    <3> QED BY <3>1, <3>2
  <2> QED BY <1>p, <2>3, <2>7, <2>8 DEF LockInv
<1>2. CASE Release(w)
  <2>1. /\ pc[w] = "release" /\ local' = local
        /\ key' = [key EXCEPT ![job[w].kb] = IF @ = P(w) THEN NoOne ELSE @]
        /\ pc' = [pc EXCEPT ![w] = "idle"]
        /\ \A v \in Worker : v # w => job'[v] = job[v]
    BY <1>0, <1>2 DEF Release, At, Goto, Leave
  <2>2. key' \in [Kb -> Proc \cup {NoOne, Dead}]
    BY <1>0, <2>1
  <2>3. \A v \in Worker : Holds(v)' => v # w /\ Holds(v) /\ job'[v] = job[v]
    BY <1>0, <2>1 DEF Holds
  <2>4. ASSUME NEW v \in Worker, Holds(v)'
        PROVE  job'[v].kb \in local'[P(v)] /\ (Alone(v) => key'[job'[v].kb] = P(v))
    <3>1. v # w /\ Holds(v) /\ job'[v] = job[v]
      BY <2>3, <2>4
    <3>2. Alone(v) => P(v) # P(w)
      BY <3>1 DEF Alone
    <3> QED BY <1>0, <1>h, <2>1, <3>1, <3>2
  <2>5. ASSUME NEW u \in Worker, NEW v \in Worker, u # v, Holds(u)', Holds(v)', P(u) = P(v)
        PROVE  job'[u].kb # job'[v].kb
    BY <2>3, <2>5 DEF LockInv
  <2> QED BY <1>0, <1>p, <2>1, <2>2, <2>4, <2>5 DEF LockInv
<1>3. CASE Unlock(w)
  <2>1. /\ pc[w] = "unlock" /\ key' = key
        /\ local' = [local EXCEPT ![P(w)] = @ \ {job[w].kb}]
        /\ pc' = [pc EXCEPT ![w] = "release"] /\ job' = job
    BY <1>3 DEF Unlock, At, Goto
  <2>2. local' \in [Proc -> SUBSET Kb]
    BY <1>0, <2>1
  <2>3. \A v \in Worker : Holds(v)' => v # w /\ Holds(v)
    BY <1>0, <2>1 DEF Holds
  <2>4. Holds(w)
    BY <2>1 DEF Holds
  <2>5. ASSUME NEW v \in Worker, Holds(v)'
        PROVE  job'[v].kb \in local'[P(v)] /\ (Alone(v) => key'[job'[v].kb] = P(v))
    <3>1. v # w /\ Holds(v)
      BY <2>3, <2>5
    <3>2. P(v) = P(w) => job[v].kb # job[w].kb
      BY <2>4, <3>1 DEF LockInv
    <3> QED BY <1>0, <1>p, <1>h, <2>1, <3>1, <3>2
  <2>6. ASSUME NEW u \in Worker, NEW v \in Worker, u # v, Holds(u)', Holds(v)', P(u) = P(v)
        PROVE  job'[u].kb # job'[v].kb
    BY <2>1, <2>3, <2>6 DEF LockInv
  <2> QED BY <1>0, <1>p, <2>1, <2>2, <2>5, <2>6 DEF LockInv
<1>4. CASE LockMissError(w)
  <2>1. /\ local' = local /\ pc' = [pc EXCEPT ![w] = "idle"]
        /\ job' = [job EXCEPT ![w] = NoJob]
        /\ key' \in {key, [key EXCEPT ![job[w].kb] = IF @ = NoOne THEN P(w) ELSE @]}
    BY <1>4 DEF LockMissError, Leave, Goto
  <2>2. key' \in [Kb -> Proc \cup {NoOne, Dead}]
    BY <1>0, <1>p, <2>1
  <2>3. \A k \in Kb : key'[k] = key[k] \/ key[k] = NoOne
    BY <1>0, <2>1
  <2>4. \A v \in Worker : Holds(v)' => Holds(v) /\ job'[v] = job[v]
    BY <1>0, <2>1 DEF Holds
  <2> QED BY <2>1, <2>2, <2>3, <2>4, LockQuiet
<1>5. CASE ~StartRun(w) /\ ~Release(w) /\ ~Unlock(w) /\ ~LockMissError(w)
  <2>1. /\ key' = key /\ local' = local
        /\ \A v \in Worker : v # w => pc'[v] = pc[v] /\ job'[v] = job[v]
        /\ pc'[w] \in {"run", "unsure", "next", "unlock"} =>
              pc[w] \in {"run", "unsure", "next", "unlock"} /\ job'[w] = job[w]
    BY <1>0, <1>5 DEF WorkerStep, Claim, ClaimUnlinked, ClaimRolledBack, Recheck, ClaimContext,
       ClaimError, GetContext, GetContextError, LockMiss, Complete, CompleteLost, RunError,
       ScheduleNext, At, Goto, Leave, lockVars
  <2>2. \A v \in Worker : Holds(v)' => Holds(v) /\ job'[v] = job[v]
    BY <2>1 DEF Holds
  <2> QED BY <1>0, <2>1, <2>2, LockQuiet
<1> QED BY <1>1, <1>2, <1>3, <1>4, <1>5

LEMMA LockInvStep ==
    ASSUME JobInv, LockInv, [Next]_vars PROVE LockInv'
<1>0. key \in [Kb -> Proc \cup {NoOne, Dead}] /\ local \in [Proc -> SUBSET Kb]
  BY DEF LockInv
<1>p. \A v \in Worker : P(v)' = P(v) /\ (Alone(v)' <=> Alone(v)) /\ P(v) \in Proc
  BY WorkersAssumption DEF P, Alone
<1>1. ASSUME NEW w \in Worker, WorkerStep(w) PROVE LockInv'
  BY <1>1, LockWorker
<1>2. ASSUME NEW p \in Proc, Crash(p) PROVE LockInv'
  <2>1. /\ pc' = [w \in Worker |-> IF P(w) = p THEN "idle" ELSE pc[w]]
        /\ job' = [w \in Worker |-> IF P(w) = p THEN NoJob ELSE job[w]]
        /\ local' = [local EXCEPT ![p] = {}]
        /\ key' = [k \in Kb |-> IF key[k] = p THEN Dead ELSE key[k]]
    BY <1>2 DEF Crash
  <2>2. \A v \in Worker : Holds(v)' => Holds(v) /\ job'[v] = job[v] /\ P(v) # p
    BY <2>1 DEF Holds
  <2>3. /\ local' \in [Proc -> SUBSET Kb] /\ key' \in [Kb -> Proc \cup {NoOne, Dead}]
        /\ \A q \in Proc : q # p => local'[q] = local[q]
        /\ \A k \in Kb : key[k] # p => key'[k] = key[k]
    BY <1>0, <2>1
  <2>4. ASSUME NEW w \in Worker, Holds(w)'
        PROVE  job'[w].kb \in local'[P(w)] /\ (Alone(w) => key'[job'[w].kb] = P(w))
    <3>1. Holds(w) /\ job'[w] = job[w] /\ P(w) # p
      BY <2>2, <2>4
    <3>2. job[w].kb \in local[P(w)] /\ job[w].kb \in Kb /\ (Alone(w) => key[job[w].kb] = P(w))
      BY <1>0, <1>p, <3>1 DEF LockInv
    <3> QED BY <1>p, <2>3, <3>1, <3>2
  <2>5. ASSUME NEW v \in Worker, NEW w \in Worker, v # w, Holds(v)', Holds(w)', P(v) = P(w)
        PROVE  job'[v].kb # job'[w].kb
    BY <2>2, <2>5 DEF LockInv
  <2> QED BY <1>p, <2>3, <2>4, <2>5 DEF LockInv
<1>3. ASSUME NEW k \in Kb, KeyExpires(k) PROVE LockInv'
  <2>1. /\ key' = [key EXCEPT ![k] = NoOne] /\ UNCHANGED <<pc, job, local>>
        /\ \A w \in Worker : Holds(w) /\ job[w].kb = k => key[k] # P(w)
    BY <1>3 DEF KeyExpires, workVars
  <2>2. \A v \in Worker : Holds(v)' <=> Holds(v)
    BY <2>1 DEF Holds
  <2>3. key' \in [Kb -> Proc \cup {NoOne, Dead}] /\ \A j \in Kb : j # k => key'[j] = key[j]
    BY <1>0, <2>1
  <2>4. ASSUME NEW w \in Worker, Holds(w)
        PROVE  job[w].kb \in local[P(w)] /\ (Alone(w) => key'[job[w].kb] = P(w))
    <3>1. job[w].kb \in local[P(w)] /\ job[w].kb \in Kb /\ (Alone(w) => key[job[w].kb] = P(w))
      BY <1>0, <1>p, <2>4 DEF LockInv
    <3> QED BY <2>1, <2>3, <2>4, <3>1
  <2>5. ASSUME NEW v \in Worker, NEW w \in Worker, v # w, Holds(v), Holds(w), P(v) = P(w)
        PROVE  job[v].kb # job[w].kb
    BY <2>5 DEF LockInv
  <2> QED BY <1>0, <1>p, <2>1, <2>2, <2>3, <2>4, <2>5 DEF LockInv
<1>4. ASSUME UNCHANGED <<pc, job, key, local>> PROVE LockInv'
  <2>1. \A v \in Worker : Holds(v)' => Holds(v) /\ job'[v] = job[v]
    BY <1>4 DEF Holds
  <2> QED BY <1>0, <1>4, <2>1, LockQuiet
<1>5. ASSUME NEW p \in Proc, ProcStep(p) PROVE Crash(p) \/ UNCHANGED <<pc, job, key, local>>
  BY <1>5 DEF ProcStep, TimerFires, Stop, Exit, Start, ScanRunning, Recover, RecoverError,
     PublishStartup, workVars, lockVars
<1>6. ASSUME ApiStep PROVE UNCHANGED <<pc, job, key, local>>
  BY <1>6 DEF ApiStep, ApiCancelLogs, ApiCancelConnector, ApiDelete, ApiSchedule, ApiLink,
     ApiUnlink, ApiRebuild, ApiPublish, ApiResume, ApiWakeup, workersIdle, workVars, lockVars
<1>7. ASSUME \/ \E w \in Worker : Redeliver(w)
             \/ \E t \in TaskId : ForgetMsgId(t)
             \/ Tick
             \/ UNCHANGED vars
      PROVE  UNCHANGED <<pc, job, key, local>>
  BY <1>7 DEF Redeliver, ForgetMsgId, Tick, vars, workVars, lockVars
<1> QED BY <1>1, <1>2, <1>3, <1>4, <1>5, <1>6, <1>7 DEF Next

\* In every deployment: the local map keeps the runs of one process apart, the
\* Redis key those of processes with one worker, through cancels, recoveries by
\* other processes, crashes, lost answers and key expiry.
THEOREM ExclusiveRunAlways == Spec => []ExclusiveRun
<1>1. Init => LockInv
  <2> SUFFICES ASSUME Init PROVE LockInv
    OBVIOUS
  <2>1. \A w \in Worker : ~Holds(w)
    BY DEF Init, Holds
  <2> QED BY <2>1 DEF Init, LockInv
<1>2. JobInv /\ LockInv /\ [Next]_vars => LockInv'
  BY LockInvStep
<1>3. LockInv => ExclusiveRun
  <2> SUFFICES ASSUME LockInv, NEW v \in Worker, NEW w \in Worker, v # w,
                      pc[v] = "run", pc[w] = "run", job[v].kb = job[w].kb
               PROVE  P(v) # P(w) /\ ~(Alone(v) /\ Alone(w))
    BY DEF ExclusiveRun
  <2>1. Holds(v) /\ Holds(w)
    BY DEF Holds
  <2>2. P(v) # P(w)
    BY <2>1 DEF LockInv
  <2>3. Alone(v) /\ Alone(w) => P(v) = P(w)
    BY <2>1 DEF LockInv
  <2> QED BY <2>2, <2>3
<1> QED BY <1>1, <1>2, <1>3, WorkersInv, PTL DEF Spec

-----------------------------------------------------------------------------
(* Type correctness of the rest of the state.                              *)

Phases   == {"down", "recover", "reset", "publish", "up", "stopping"}
Requests == [step : {"none", "cancel", "schedule", "delete", "publish", "wakeup"},
             kind : {"none", "cancel", "reschedule", "delete"},
             pub  : SUBSET TaskId, old : SUBSET TaskId]
Spent    == [fault : 0..MaxFault, db : 0..MaxDbFault, stop : 0..MaxStop, request : 0..MaxRequest]

BrokerOK == ready \in [TaskId -> 0..MaxCopies] /\ recent \subseteq TaskId
ProcOK   == proc \in [Proc -> Phases] /\ timers \in [Proc -> SUBSET TaskId]
LockOK   == local \in [Proc -> SUBSET Kb] /\ key \in [Kb -> Proc \cup {NoOne, Dead}]
NextOK   == nextTask \in [Worker -> 0..MaxTask]

RestOK == BrokerOK /\ ProcOK /\ LockOK /\ NextOK /\ request \in Requests /\ spent \in Spent

LEMMA MoreType ==
    ASSUME ready \in [TaskId -> 0..MaxCopies], NEW S
    PROVE  /\ More(S) \in [TaskId -> 0..MaxCopies]
           /\ \A t \in TaskId : More(S)[t] >= ready[t]
           /\ \A t \in TaskId : t \notin S => More(S)[t] = ready[t]
           /\ \A t \in S \cap TaskId : MaxCopies > 0 => More(S)[t] > 0
BY WorkersAssumption DEF More

\* The calls of the broker.
LEMMA BrokerCalls ==
    ASSUME BrokerOK, NEW S, S \subseteq TaskId, NEW t \in TaskId,
           \/ PublishSyncerTasks(S)
           \/ PublishSyncerTaskWakeup(t)
           \/ Nack(t)
           \/ Take(t) /\ ready[t] > 0
           \/ Acked
    PROVE  BrokerOK'
<1>1. ready \in [TaskId -> 0..MaxCopies] /\ recent \subseteq TaskId
  BY DEF BrokerOK
<1>2. CASE Take(t) /\ ready[t] > 0
  BY <1>1, <1>2, WorkersAssumption DEF Take, BrokerOK
<1>3. CASE Acked
  BY <1>1, <1>3 DEF Acked, mqVars, BrokerOK
<1> QED BY <1>1, <1>2, <1>3, MoreType DEF PublishSyncerTasks, PublishSyncerTaskWakeup, Nack, BrokerOK

\* The ids a completion returns are ids of rows.
LEMMA NextIds ==
    ASSUME DbInv, JobInv, NEW w \in Worker, Complete(w)
    PROVE  NextTaskIds(T(w)) \subseteq 0..MaxTask
<1>1. /\ created \in Nat /\ MaxTask \in Nat /\ created <= MaxTask
      /\ DOMAIN logs \subseteq 1..created
  BY SyncTasksAssumption DEF DbInv, TypeOK
<1>2. T(w) \in DOMAIN logs => logs[T(w)].kb = job[w].kb /\ logs[T(w)].type = job[w].type
  BY DEF Complete, At, JobInv
<1>3. ASSUME Has(T(w), "running"), TypedRows(logs[T(w)].kb, logs[T(w)].type, "schedule") = {},
             ~(logs[T(w)].type = "prune" /\ ~SyncDeletedFiles)
      PROVE  created < MaxTask
  BY <1>2, <1>3 DEF Complete, CompleteSyncTask, CompletePruneTask, CreateScheduledTask, Has
<1>4. \A k, y : TypedRows(k, y, "schedule") \subseteq DOMAIN logs
  BY DEF TypedRows, Rows
<1> QED BY <1>1, <1>3, <1>4 DEF NextTaskIds

LEMMA WorkerTypes ==
    ASSUME DbInv, JobInv, RestOK, NEW w \in Worker, WorkerStep(w) PROVE RestOK'
<1>0. /\ BrokerOK /\ ProcOK /\ LockOK /\ NextOK /\ request \in Requests /\ spent \in Spent
      /\ P(w) \in Proc
      /\ pc[w] # "idle" => T(w) \in TaskId
      /\ pc[w] \in {"lock", "run"} => job[w].kb \in Kb
      /\ job[w].kb \in Kb \cup {NoKb}
  BY WorkersAssumption DEF RestOK, P, JobInv
<1>1. proc' = proc /\ request' = request
  BY DEF WorkerStep, Claim, Recheck, ClaimContext, ClaimError, GetContext, GetContextError,
     StartRun, LockMiss, Complete, RunError, ScheduleNext, Unlock, Release, procVars,
     ClaimUnlinked, ClaimRolledBack, LockMissError, CompleteLost
<1>2. ASSUME NEW S \in SUBSET TaskId, Arm(w, S) PROVE timers' \in [Proc -> SUBSET TaskId]
  BY <1>0, <1>2 DEF Arm, ProcOK
<1>3. spent' \in Spent
  <2>1. spent' = spent \/ Fault \/ DbFault
    BY DEF WorkerStep, Claim, Recheck, ClaimContext, ClaimError, GetContext, GetContextError,
       StartRun, LockMiss, Complete, RunError, ScheduleNext, Unlock, Release, Failing,
       ClaimUnlinked, ClaimRolledBack, LockMissError, CompleteLost
  <2> QED BY <1>0, <2>1, WorkersAssumption DEF Fault, DbFault, Spent
<1>4. NextOK'
  <2>1. CASE Complete(w)
    BY <1>0, <2>1, NextIds DEF Complete, NextOK
  <2>2. CASE ScheduleNext(w)
    BY <1>0, <2>2, SyncTasksAssumption DEF ScheduleNext, NextOK
  <2>3. CASE nextTask' = nextTask
    BY <1>0, <2>3 DEF NextOK
  <2> QED BY <2>1, <2>2, <2>3 DEF WorkerStep, Claim, Recheck, ClaimContext, ClaimError,
     GetContext, GetContextError, StartRun, LockMiss, RunError, Unlock, Release, ClaimUnlinked,
     ClaimRolledBack, LockMissError, CompleteLost
<1>5. LockOK'
  <2>1. CASE StartRun(w)
    BY <1>0, <2>1 DEF StartRun, At, LockOK
  <2>2. CASE Unlock(w)
    BY <1>0, <2>2 DEF Unlock, LockOK
  <2>3. CASE Release(w)
    BY <1>0, <2>3 DEF Release, LockOK
  <2>4. CASE local' = local /\ key' = key
    BY <1>0, <2>4 DEF LockOK
  <2>5. CASE LockMissError(w)
    <3>1. /\ local' = local
          /\ key' \in {key, [key EXCEPT ![job[w].kb] = IF @ = NoOne THEN P(w) ELSE @]}
      BY <2>5 DEF LockMissError
    <3> QED BY <1>0, <3>1 DEF LockOK
  <2> QED BY <2>1, <2>2, <2>3, <2>4, <2>5 DEF WorkerStep, Claim, Recheck, ClaimContext,
     ClaimError, GetContext, GetContextError, LockMiss, Complete, RunError, ScheduleNext,
     lockVars, ClaimUnlinked, ClaimRolledBack, CompleteLost
<1>6. BrokerOK' /\ timers' \in [Proc -> SUBSET TaskId]
  <2>0. timers \in [Proc -> SUBSET TaskId]
    BY <1>0 DEF ProcOK
  <2>1. ASSUME NEW t \in TaskId, Claim(w, t) PROVE BrokerOK' /\ timers' = timers
    BY <1>0, <2>1, BrokerCalls DEF Claim, procVars
  <2>2. CASE ClaimRolledBack(w) \/ ClaimError(w) \/ GetContextError(w)
    <3>1. T(w) \in TaskId
      BY <1>0, <2>2 DEF ClaimRolledBack, ClaimError, GetContextError, At
    <3>2. (Nack(T(w)) \/ Acked) /\ timers' = timers
      BY <2>2 DEF ClaimRolledBack, ClaimError, GetContextError, procVars
    <3> QED BY <1>0, <2>0, <3>1, <3>2, BrokerCalls
  <2>3. CASE Recheck(w) \/ LockMiss(w) \/ LockMissError(w)
    <3>1. T(w) \in TaskId
      BY <1>0, <2>3 DEF Recheck, LockMiss, LockMissError, At
    <3>2. Acked /\ (Arm(w, {T(w)}) \/ timers' = timers)
      BY <2>3 DEF Recheck, LockMiss, LockMissError, Acked
    <3> QED BY <1>0, <1>2, <2>0, <3>1, <3>2, BrokerCalls
  <2>4. CASE RunError(w)
    <3>1. T(w) \in TaskId
      BY <1>0, <2>4 DEF RunError, At
    <3>2. (Nack(T(w)) \/ Acked) /\ (Arm(w, {T(w)}) \/ timers' = timers)
      BY <2>4 DEF RunError
    <3> QED BY <1>0, <1>2, <2>0, <3>1, <3>2, BrokerCalls
  <2>5. CASE ScheduleNext(w)
    <3>0. T(w) \in TaskId
      BY <1>0, <2>5 DEF ScheduleNext, At
    <3>1. nextTask[w] \in Listed => nextTask[w] \in TaskId
      BY SyncTasksAssumption DEF Listed, DbInv, TypeOK, TaskId
    <3>2. \/ nextTask[w] \in Listed /\ PublishSyncerTasks({nextTask[w]}) /\ timers' = timers
          \/ nextTask[w] \in Listed /\ Arm(w, {nextTask[w]}) /\ Acked
          \/ Acked /\ timers' = timers
      BY <2>5 DEF ScheduleNext
    <3> QED BY <1>0, <1>2, <2>0, <3>0, <3>1, <3>2, BrokerCalls
  <2>6. CASE UNCHANGED <<ready, recent, timers>>
    BY <1>0, <2>0, <2>6 DEF BrokerOK
  <2> QED BY <2>0, <2>1, <2>2, <2>3, <2>4, <2>5, <2>6 DEF WorkerStep, ClaimContext, GetContext,
     ClaimUnlinked, StartRun, Complete, CompleteLost, Unlock, Release, mqVars, procVars
<1> QED BY <1>0, <1>1, <1>3, <1>4, <1>5, <1>6 DEF RestOK, ProcOK

LEMMA ProcTypes ==
    ASSUME DbInv, RestOK, NEW p \in Proc, ProcStep(p) PROVE RestOK'
<1>0. /\ BrokerOK /\ ProcOK /\ LockOK /\ NextOK /\ request \in Requests /\ spent \in Spent
      /\ Listed \subseteq TaskId
  BY SyncTasksAssumption DEF RestOK, Listed, DbInv, TypeOK, TaskId
<1>1. request' = request
  BY DEF ProcStep, TimerFires, Stop, Exit, Crash, Start, ScanRunning, Recover, RecoverError,
     PublishStartup
<1>2. spent' \in Spent
  <2>1. spent' = spent \/ StopOnce \/ DbFault
    BY DEF ProcStep, TimerFires, Stop, Exit, Crash, Start, ScanRunning, Recover, RecoverError,
     PublishStartup
  <2> QED BY <1>0, <2>1, WorkersAssumption DEF StopOnce, DbFault, Spent
<1>3. proc' \in [Proc -> Phases]
  BY <1>0 DEF ProcOK, Phases, ProcStep, TimerFires, Stop, Exit, Crash, Start, ScanRunning, Recover, RecoverError,
     PublishStartup
<1>4. timers' \in [Proc -> SUBSET TaskId]
  <2>1. CASE PublishStartup(p)
    <3>1. PICK later \in SUBSET Listed : timers' = [timers EXCEPT ![p] = @ \cup later]
      BY <2>1 DEF PublishStartup
    <3> QED BY <1>0, <3>1 DEF ProcOK
  <2> QED BY <1>0, <2>1 DEF ProcOK, ProcStep, TimerFires, Stop, Exit, Crash, Start, ScanRunning, Recover,
     RecoverError, procVars
<1>5. LockOK' /\ NextOK'
  <2>1. CASE Crash(p)
    BY <1>0, <2>1, SyncTasksAssumption DEF Crash, LockOK, NextOK
  <2>2. CASE UNCHANGED <<local, key, nextTask>>
    BY <1>0, <2>2 DEF LockOK, NextOK
  <2> QED BY <2>1, <2>2 DEF ProcStep, TimerFires, Stop, Exit, Start, ScanRunning, Recover,
     RecoverError, PublishStartup, lockVars, workVars
<1>6. BrokerOK'
  <2>1. ASSUME NEW t \in TaskId, TimerFires(p, t) PROVE BrokerOK'
    BY <1>0, <2>1, BrokerCalls DEF TimerFires
  <2>2. CASE PublishStartup(p)
    <3>1. PICK due \in SUBSET Listed : PublishSyncerTasks(due)
      BY <2>2 DEF PublishStartup
    <3> QED BY <1>0, <3>1, MoreType DEF PublishSyncerTasks, BrokerOK
  <2>3. CASE Crash(p)
    BY <1>0, <2>3, MoreType DEF Crash, BrokerOK
  <2>4. CASE UNCHANGED <<ready, recent>>
    BY <1>0, <2>4 DEF BrokerOK
  <2> QED BY <2>1, <2>2, <2>3, <2>4 DEF ProcStep, Stop, Exit, Start, ScanRunning, Recover,
     RecoverError, mqVars
<1> QED BY <1>0, <1>1, <1>2, <1>3, <1>4, <1>5, <1>6 DEF RestOK, ProcOK

LEMMA ApiTypes ==
    ASSUME DbInv, DbInv', RestOK, ApiStep PROVE RestOK'
<1>0. /\ BrokerOK /\ ProcOK /\ LockOK /\ NextOK /\ request \in Requests /\ spent \in Spent
      /\ DOMAIN logs \subseteq TaskId /\ DOMAIN logs' \subseteq TaskId
  BY SyncTasksAssumption DEF RestOK, DbInv, TypeOK, TaskId
<1>1. ProcOK' /\ LockOK' /\ NextOK'
  <2>1. UNCHANGED workersIdle
    BY DEF ApiStep, ApiCancelLogs, ApiCancelConnector, ApiDelete, ApiSchedule, ApiLink,
       ApiUnlink, ApiRebuild, ApiPublish, ApiResume, ApiWakeup
  <2> QED BY <1>0, <2>1 DEF workersIdle, procVars, workVars, lockVars, ProcOK, LockOK, NextOK
<1>2. spent' \in Spent
  <2>1. spent' = spent \/ NewRequest
    BY DEF ApiStep, ApiCancelLogs, ApiCancelConnector, ApiDelete, ApiSchedule, ApiLink,
       ApiUnlink, ApiRebuild, ApiPublish, ApiResume, ApiWakeup
  <2> QED BY <1>0, <2>1, WorkersAssumption DEF NewRequest, Spent
<1>3. BrokerOK'
  <2>1. CASE ApiPublish
    <3>1. request.pub \subseteq TaskId /\ PublishSyncerTasks(request.pub)
      BY <1>0, <2>1 DEF ApiPublish, Requests
    <3> QED BY <1>0, <3>1, MoreType DEF PublishSyncerTasks, BrokerOK
  <2>2. CASE ApiWakeup
    <3>1. PICK t \in request.pub : PublishSyncerTaskWakeup(t)
      BY <2>2 DEF ApiWakeup
    <3>2. t \in TaskId
      BY <1>0 DEF Requests
    <3> QED BY <1>0, <3>1, <3>2, BrokerCalls
  <2>3. CASE UNCHANGED mqVars
    BY <1>0, <2>3 DEF mqVars, BrokerOK
  <2> QED BY <2>1, <2>2, <2>3 DEF ApiStep, ApiCancelLogs, ApiCancelConnector, ApiDelete,
     ApiSchedule, ApiLink, ApiUnlink, ApiRebuild, ApiResume
<1>4. request' \in Requests
  <2> USE <1>0 DEF Requests, Idle
  <2>1. ASSUME NEW kind \in {"cancel", "reschedule", "delete"}, ApiCancelLogs(kind)
        PROVE  request' \in Requests
    BY <2>1 DEF ApiCancelLogs
  <2>2. CASE ApiCancelConnector
    BY <2>2 DEF ApiCancelConnector
  <2>3. CASE ApiDelete \/ ApiPublish \/ ApiWakeup
    BY <2>3 DEF ApiDelete, ApiPublish, ApiWakeup
  <2>4. CASE ApiSchedule
    BY <2>4 DEF ApiSchedule
  <2>5. ASSUME NEW k \in Kb, ApiLink(k) PROVE request' \in Requests
    BY <2>5 DEF ApiLink, Rows
  <2>6. ASSUME NEW k \in Kb, ApiUnlink(k) PROVE request' \in Requests
    BY <2>6 DEF ApiUnlink
  <2>7. ASSUME NEW k \in Kb, ApiRebuild(k) PROVE request' \in Requests
    BY <2>7 DEF ApiRebuild, Rows
  <2>8. ASSUME NEW t \in TaskId, ApiResume(t) PROVE request' \in Requests
    BY <2>8 DEF ApiResume
  <2> QED BY <2>1, <2>2, <2>3, <2>4, <2>5, <2>6, <2>7, <2>8 DEF ApiStep
<1> QED BY <1>1, <1>2, <1>3, <1>4 DEF RestOK

LEMMA RestStep ==
    ASSUME DbInv, JobInv, RestOK, [Next]_vars PROVE RestOK'
<1>1. ASSUME NEW w \in Worker, WorkerStep(w) PROVE RestOK'
  BY <1>1, WorkerTypes
<1>2. ASSUME NEW w \in Worker, Redeliver(w) PROVE RestOK'
  <2>1. T(w) \in TaskId /\ Nack(T(w)) /\ DbFault /\ BrokerOK
    BY <1>2 DEF Redeliver, Unacked, JobInv, RestOK
  <2>2. BrokerOK'
    BY <2>1, BrokerCalls
  <2>3. spent' \in Spent
    BY <2>1, WorkersAssumption DEF RestOK, DbFault, Spent
  <2> QED BY <1>2, <2>2, <2>3 DEF Redeliver, RestOK, ProcOK, LockOK, NextOK, procVars,
             workVars, lockVars
<1>3. ASSUME NEW p \in Proc, ProcStep(p) PROVE RestOK'
  BY <1>3, ProcTypes
<1>4. ASSUME NEW k \in Kb, KeyExpires(k) PROVE RestOK'
  BY <1>4 DEF KeyExpires, RestOK, BrokerOK, ProcOK, LockOK, NextOK, procVars, workVars, mqVars
<1>5. ASSUME NEW t \in TaskId, ForgetMsgId(t) PROVE RestOK'
  BY <1>5 DEF ForgetMsgId, RestOK, BrokerOK, ProcOK, LockOK, NextOK, procVars, workVars, lockVars
<1>6. CASE Tick \/ UNCHANGED vars
  BY <1>6 DEF Tick, vars, RestOK, BrokerOK, ProcOK, LockOK, NextOK, procVars, workVars, lockVars,
     mqVars
<1>7. CASE ApiStep
  BY <1>7, ApiTypes, NextUsesDb, DbInvStep
<1> QED BY <1>1, <1>2, <1>3, <1>4, <1>5, <1>6, <1>7 DEF Next

Typed == DbInv /\ JobInv /\ RestOK

LEMMA TypedStep == ASSUME Typed, [Next]_vars PROVE Typed'
BY NextUsesDb, DbInvStep, JobInvStep, RestStep DEF Typed

LEMMA TypedAlways == Spec => []Typed
<1>1. Init => RestOK
  BY SyncTasksAssumption, WorkersAssumption DEF Init, RestOK, BrokerOK, ProcOK, LockOK, NextOK,
     Phases, Requests, Idle, Spent
<1>2. DbInv /\ JobInv /\ RestOK /\ [Next]_vars => RestOK'
  BY RestStep
<1> QED BY <1>1, <1>2, WorkersInv, PTL DEF Spec, Typed

\* Type correctness of the syncer, its broker, lock and requests, for any
\* processes, workers, rows, faults, stops and requests.
THEOREM WorkersTypeCorrect == Spec => []WorkersTypeOK
<1>1. Typed => WorkersTypeOK
  BY DEF Typed, DbInv, JobInv, RestOK, BrokerOK, ProcOK, LockOK, NextOK, Phases, Requests, Spent,
     WorkersTypeOK
<1> QED BY <1>1, TypedAlways, PTL

-----------------------------------------------------------------------------
(* Who owns a RUNNING row.                                                 *)

\* No row becomes RUNNING.
NoNewRunning == \A t : Has(t, "running")' => Has(t, "running")

LEMMA KindsRunning ==
    ASSUME DbInv, (InPlace /\ Settling) \/ (\E ids : Grows(ids)) \/ UNCHANGED dbVars
    PROVE  NoNewRunning
<1>1. CASE InPlace /\ Settling
  BY <1>1 DEF InPlace, Settling, Has, NoNewRunning
<1>2. CASE \E ids : Grows(ids)
  BY <1>2 DEF Grows, Has, NoNewRunning
<1>3. CASE UNCHANGED dbVars
  BY <1>3 DEF dbVars, Has, NoNewRunning
<1> QED BY <1>1, <1>2, <1>3

\* The claim is the only step of a worker that makes a row RUNNING.
LEMMA WorkerRunning ==
    ASSUME DbInv, JobInv, NEW w \in Worker, WorkerStep(w),
           ~ \E t \in TaskId : Claim(w, t), ~ClaimUnlinked(w)
    PROVE  NoNewRunning
<1>0. pc[w] # "idle" => T(w) \in TaskId
  BY DEF JobInv
<1>1. CASE ClaimContext(w)
  BY <1>1, MarkStep, KindsRunning DEF ClaimContext
<1>2. CASE GetContextError(w) \/ LockMiss(w) \/ LockMissError(w) \/ RunError(w)
  <2>1. T(w) \in TaskId
    BY <1>0, <1>2 DEF GetContextError, LockMiss, LockMissError, RunError, At
  <2>2. \/ RescheduleClaimed(T(w)) \/ HandleTransientFailure(T(w)) \/ UNCHANGED dbVars
        \/ FailTask(T(w), FALSE) \/ FailTask(T(w), TRUE)
    BY <1>2 DEF GetContextError, LockMiss, LockMissError, RunError
  <2> QED BY <2>1, <2>2, RescheduleStep, TransientStep, FailStep, KindsRunning
<1>3. CASE Complete(w) \/ CompleteLost(w)
  <2>1. /\ T(w) \in TaskId /\ window[T(w)] \in Time /\ job[w].kb \in Kb
        /\ T(w) \in DOMAIN logs => /\ logs[T(w)].kb = job[w].kb
                                   /\ logs[T(w)].type = job[w].type
    BY <1>3 DEF Complete, CompleteLost, At, JobInv
  <2>2. \/ job[w].type = "sync" /\ CompleteSyncTask(T(w), job[w].kb, window[T(w)])
        \/ job[w].type = "prune" /\ CompletePruneTask(T(w), job[w].kb)
    BY <1>3 DEF Complete, CompleteLost
  <2>3. (InPlace /\ Settling) \/ \E ids : Grows(ids)
    BY <2>1, <2>2, CompleteSyncStep, CompletePruneStep
  <2> QED BY <2>3, KindsRunning
<1>4. CASE UNCHANGED dbVars
  BY <1>4, KindsRunning
<1>5. CASE ClaimRolledBack(w)
  BY <1>5, AbortStep, KindsRunning DEF ClaimRolledBack
<1> QED BY <1>1, <1>2, <1>3, <1>4, <1>5 DEF WorkerStep, Recheck, ClaimError, GetContext, StartRun,
           ScheduleNext, Unlock, Release

LEMMA ApiRunning == ASSUME DbInv, ApiStep PROVE NoNewRunning
<1>1. ASSUME NEW k \in Kb, ApiRebuild(k) PROVE NoNewRunning
  BY <1>1, RebuildRows DEF ApiRebuild, Has, NoNewRunning
<1>2. ASSUME NEW k \in Kb, ApiLink(k) \/ ApiUnlink(k) PROVE NoNewRunning
  BY <1>2, LinkStep, UnlinkStep, KindsRunning DEF ApiLink, ApiUnlink
<1>3. ASSUME NEW t \in TaskId, ApiResume(t) PROVE NoNewRunning
  BY <1>3, ResumeStep, KindsRunning DEF ApiResume
<1>4. ASSUME NEW kind, ApiCancelLogs(kind) PROVE NoNewRunning
  BY <1>4, CancelLogsStep, KindsRunning DEF ApiCancelLogs
<1>5. CASE ApiCancelConnector \/ ApiDelete \/ ApiSchedule
  BY <1>5, CancelConnectorStep, DeleteStep, ScheduleStep, KindsRunning
     DEF ApiCancelConnector, ApiDelete, ApiSchedule
<1>6. CASE ApiPublish \/ ApiWakeup
  BY <1>6, KindsRunning DEF ApiPublish, ApiWakeup
<1> QED BY <1>1, <1>2, <1>3, <1>4, <1>5, <1>6 DEF ApiStep

\* What a handler's update of its own row does to the statuses.
OnlyRow(t, s) ==
    /\ DOMAIN logs' = DOMAIN logs
    /\ \A u \in DOMAIN logs : logs'[u].status = IF u = t THEN s ELSE logs[u].status

LEMMA WithErrs ==
    ASSUME TypeOK, NEW t \in DOMAIN logs, NEW s \in Status, NEW e \in Nat,
           logs' = [With({t}, s) EXCEPT ![t].errs = e]
    PROVE  OnlyRow(t, s)
<1>1. With({t}, s) \in [DOMAIN logs -> Row]
  BY WithRows
<1>2. /\ DOMAIN logs' = DOMAIN logs
      /\ \A u \in DOMAIN logs : logs'[u].status = With({t}, s)[u].status
  BY <1>1 DEF Row
<1> QED BY <1>2, WithRows DEF OnlyRow

LEMMA RowOutcome ==
    ASSUME TypeOK, NEW t
    PROVE  /\ \A touch : FailTask(t, touch) =>
                 IF t \in DOMAIN logs /\ ~Has(t, "cancel") THEN OnlyRow(t, "fail") ELSE logs' = logs
           /\ RescheduleClaimed(t) =>
                 IF Has(t, "running") THEN OnlyRow(t, "schedule") ELSE logs' = logs
           /\ HandleTransientFailure(t) =>
                 IF Has(t, "running") THEN OnlyRow(t, AfterTransient(t)) ELSE logs' = logs
           /\ AfterTransient(t) \in {"fail", "schedule"}
<1>0. {"fail", "schedule"} \subseteq Status /\ 1 \in Nat
  BY DEF Status
<1>1. ASSUME NEW touch, FailTask(t, touch), t \in DOMAIN logs, ~Has(t, "cancel")
      PROVE  OnlyRow(t, "fail")
  BY <1>0, <1>1, WithErrs DEF FailTask
<1>2. ASSUME RescheduleClaimed(t), Has(t, "running") PROVE OnlyRow(t, "schedule")
  BY <1>0, <1>2, WithRows DEF RescheduleClaimed, OnlyRow
<1>3. AfterTransient(t) \in {"fail", "schedule"}
  BY DEF AfterTransient
<1>4. ASSUME HandleTransientFailure(t), Has(t, "running") PROVE OnlyRow(t, AfterTransient(t))
  <2>1. t \in DOMAIN logs /\ logs[t].errs + 1 \in Nat
    BY <1>4 DEF Has, TypeOK, Row
  <2> QED BY <1>0, <1>3, <1>4, <2>1, WithErrs DEF HandleTransientFailure
<1> QED BY <1>1, <1>2, <1>3, <1>4 DEF FailTask, RescheduleClaimed, HandleTransientFailure

\* A completion ends its own row and may insert one row for the same kind of task.
Completed(t, k, y) ==
    /\ \A u \in DOMAIN logs :
          /\ logs'[u].status = IF u = t THEN "done" ELSE logs[u].status
          /\ logs'[u].kb = logs[u].kb
          /\ logs'[u].type = logs[u].type
    /\ conn' \in {"done", "schedule", "gone"} /\ (conn' = "gone" => conn = "gone")
    /\ \/ /\ DOMAIN logs' = DOMAIN logs /\ created' = created
          /\ TypedRows(k, y, "schedule") # {} \/ (y = "prune" /\ ~SyncDeletedFiles)
       \/ /\ created < MaxTask
          /\ DOMAIN logs' = DOMAIN logs \cup {created + 1} /\ created' = created + 1
          /\ conn # "gone" => conn' = "schedule"
          /\ TypedRows(k, y, "schedule") = {}
          /\ k \in linked
          /\ logs'[created + 1].kb = k
          /\ logs'[created + 1].type = y
          /\ logs'[created + 1].status = "schedule"

LEMMA CreateOutcome ==
    ASSUME TypeOK, NEW t \in DOMAIN logs, NEW done, DOMAIN done = DOMAIN logs,
           \A u \in DOMAIN logs :
              /\ done[u].status = IF u = t THEN "done" ELSE logs[u].status
              /\ done[u].kb = logs[u].kb
              /\ done[u].type = logs[u].type,
           NEW k \in linked, NEW y, NEW start, CreateScheduledTask(done, k, y, start)
    PROVE  Completed(t, k, y)
<1>1. created \in Nat /\ \A u \in DOMAIN logs : u # created + 1
  BY SyncTasksAssumption DEF TypeOK
<1>2. CASE TypedRows(k, y, "schedule") # {}
  BY <1>2 DEF CreateScheduledTask, Completed, SetConn
<1>3. CASE TypedRows(k, y, "schedule") = {}
  <2>1. /\ created < MaxTask /\ created' = created + 1 /\ SetConn("schedule")
        /\ logs' = Insert(done, created + 1, NewRow(k, y, FALSE, start))
    BY <1>3 DEF CreateScheduledTask
  <2>2. /\ DOMAIN logs' = DOMAIN logs \cup {created + 1}
        /\ logs'[created + 1] = NewRow(k, y, FALSE, start)
        /\ \A u \in DOMAIN logs : logs'[u] = done[u]
    BY <1>1, <2>1 DEF Insert
  <2>3. /\ logs'[created + 1].kb = k /\ logs'[created + 1].type = y
        /\ logs'[created + 1].status = "schedule"
    BY <2>2 DEF NewRow
  <2>4. /\ conn' \in {"done", "schedule", "gone"} /\ (conn' = "gone" => conn = "gone")
        /\ conn # "gone" => conn' = "schedule"
    BY <2>1 DEF SetConn
  <2> QED BY <1>3, <2>1, <2>2, <2>3, <2>4 DEF Completed
<1> QED BY <1>2, <1>3

LEMMA CompleteOutcome ==
    ASSUME DbInv, JobInv, NEW w \in Worker, Complete(w) \/ CompleteLost(w)
    PROVE  /\ linked' = linked
           /\ IF Has(T(w), "running") THEN Completed(T(w), job[w].kb, job[w].type)
              ELSE UNCHANGED <<logs, conn, created>>
<1>0. TypeOK /\ "done" \in Status
  BY DEF DbInv, Status
<1>1. CASE job[w].type = "sync" /\ CompleteSyncTask(T(w), job[w].kb, window[T(w)])
  <2>1. ASSUME Has(T(w), "running") PROVE Completed(T(w), job[w].kb, "sync")
    <3> DEFINE t == T(w)
               done == [With({t}, "done") EXCEPT ![t].end = window[t], ![t].errs = 0]
    <3>1. t \in DOMAIN logs /\ job[w].kb \in linked
          /\ CreateScheduledTask(done, job[w].kb, "sync", window[t])
      BY <1>1, <2>1 DEF CompleteSyncTask, Has
    <3>2. /\ DOMAIN done = DOMAIN logs
          /\ \A u \in DOMAIN logs :
              /\ done[u].status = With({t}, "done")[u].status
              /\ done[u].kb = With({t}, "done")[u].kb
              /\ done[u].type = With({t}, "done")[u].type
      <4>1. With({t}, "done") \in [DOMAIN logs -> Row]
        BY <1>0, WithRows
      <4> QED BY <4>1 DEF Row
    <3>3. \A u \in DOMAIN logs :
              /\ done[u].status = IF u = t THEN "done" ELSE logs[u].status
              /\ done[u].kb = logs[u].kb
              /\ done[u].type = logs[u].type
      <4>1. \A u \in DOMAIN logs :
              /\ With({t}, "done")[u].status = IF u \in {t} THEN "done" ELSE logs[u].status
              /\ With({t}, "done")[u].kb = logs[u].kb
              /\ With({t}, "done")[u].type = logs[u].type
        BY <1>0, WithRows
      <4> HIDE DEF t, done
      <4> QED BY <3>2, <4>1
    <3> HIDE DEF t, done
    <3>4. Completed(t, job[w].kb, "sync")
      BY <1>0, <3>1, <3>2, <3>3, CreateOutcome
    <3> QED BY <3>4 DEF t
  <2> QED BY <1>1, <2>1 DEF CompleteSyncTask
<1>2. CASE job[w].type = "prune" /\ CompletePruneTask(T(w), job[w].kb)
  <2>1. ASSUME Has(T(w), "running") PROVE Completed(T(w), job[w].kb, "prune")
    <3>1. T(w) \in DOMAIN logs
      BY <2>1 DEF Has
    <3>2. \/ job[w].kb \in linked /\ CreateScheduledTask(With({T(w)}, "done"), job[w].kb, "prune", 0)
          \/ /\ ~SyncDeletedFiles /\ logs' = With({T(w)}, "done") /\ SetConn("done")
             /\ created' = created
      BY <1>2, <2>1 DEF CompletePruneTask
    <3>3. /\ DOMAIN With({T(w)}, "done") = DOMAIN logs
          /\ \A u \in DOMAIN logs :
              /\ With({T(w)}, "done")[u].status = IF u = T(w) THEN "done" ELSE logs[u].status
              /\ With({T(w)}, "done")[u].kb = logs[u].kb
              /\ With({T(w)}, "done")[u].type = logs[u].type
      BY <1>0, WithRows
    <3>4. CASE CreateScheduledTask(With({T(w)}, "done"), job[w].kb, "prune", 0) /\ job[w].kb \in linked
      BY <1>0, <3>1, <3>3, <3>4, CreateOutcome
    <3>5. CASE ~SyncDeletedFiles /\ logs' = With({T(w)}, "done") /\ SetConn("done") /\ created' = created
      <4>1. conn' \in {"done", "schedule", "gone"} /\ (conn' = "gone" => conn = "gone")
        BY <3>5 DEF SetConn
      <4> QED BY <3>1, <3>3, <3>5, <4>1 DEF Completed
    <3> QED BY <3>2, <3>4, <3>5
  <2> QED BY <1>2, <2>1 DEF CompletePruneTask
<1> QED BY <1>1, <1>2 DEF Complete, CompleteLost

\* While there are no requests but links: every row keeps its context.
LinkedRows == conn # "gone" /\ \A t \in DOMAIN logs : logs[t].kb \in linked
LinksInv   == LinkedRows /\ request.step \in {"none", "publish"}

LEMMA InPlaceLinks ==
    ASSUME DbInv, LinkedRows, InPlace, conn' # "gone", linked \subseteq linked'
    PROVE  LinkedRows'
BY DEF LinkedRows, InPlace

LEMMA WorkerLinks ==
    ASSUME DbInv, JobInv, LinkedRows, NEW w \in Worker, WorkerStep(w) PROVE LinkedRows'
<1>0. /\ pc[w] # "idle" => T(w) \in TaskId
      /\ TypeOK /\ conn # "gone"
  BY DEF JobInv, DbInv, LinkedRows
<1>1. ASSUME NEW t \in TaskId, Claim(w, t) PROVE LinkedRows'
  <2>1. CASE ClaimTask(t)
    <3>1. /\ logs' = With({t}, "running") /\ UNCHANGED <<conn, linked>>
          /\ "running" \in Status
      BY <2>1 DEF ClaimTask, Status
    <3> QED BY <1>0, <3>1, WithRows DEF LinkedRows
  <2>2. CASE UNCHANGED dbVars \/ CountUnlinked(t)
    BY <2>2 DEF LinkedRows, dbVars, CountUnlinked
  <2> QED BY <1>1, <2>1, <2>2 DEF Claim
<1>2. CASE ClaimContext(w)
  BY <1>0, <1>2, MarkStep, InPlaceLinks DEF ClaimContext, MarkConnectorRunning, SetConn
<1>3. CASE GetContextError(w) \/ LockMiss(w) \/ LockMissError(w) \/ RunError(w)
  <2>1. T(w) \in TaskId
    BY <1>0, <1>3 DEF GetContextError, LockMiss, LockMissError, RunError, At
  <2>2. \/ RescheduleClaimed(T(w)) \/ HandleTransientFailure(T(w)) \/ UNCHANGED dbVars
        \/ FailTask(T(w), FALSE) \/ FailTask(T(w), TRUE)
    BY <1>3 DEF GetContextError, LockMiss, LockMissError, RunError
  <2>3. InPlace \/ UNCHANGED dbVars
    BY <2>1, <2>2, RescheduleStep, TransientStep, FailStep
  <2>4. conn' # "gone" /\ linked' = linked
    BY <1>0, <2>2 DEF RescheduleClaimed, HandleTransientFailure, FailTask, SetConn, AfterTransient,
                      dbVars
  <2>5. CASE UNCHANGED dbVars
    BY <2>5 DEF LinkedRows, dbVars
  <2> QED BY <2>3, <2>4, <2>5, InPlaceLinks
<1>4. CASE Complete(w) \/ CompleteLost(w)
  BY <1>0, <1>4, CompleteOutcome DEF LinkedRows, Completed
<1>5. CASE UNCHANGED dbVars
  BY <1>5 DEF LinkedRows, dbVars
<1>6. CASE ClaimUnlinked(w)
  <2>1. /\ UNCHANGED <<conn, linked>> /\ "running" \in Status
        /\ logs' = logs \/ logs' = With({T(w)}, "running")
    BY <1>6 DEF ClaimUnlinked, ClaimCounted, Status
  <2> QED BY <1>0, <2>1, WithRows DEF LinkedRows
<1>7. CASE ClaimRolledBack(w)
  BY <1>7 DEF ClaimRolledBack, AbortClaims, LinkedRows
<1> QED BY <1>1, <1>2, <1>3, <1>4, <1>5, <1>6, <1>7 DEF WorkerStep, Recheck, ClaimError, GetContext, StartRun,
           ScheduleNext, Unlock, Release

\* Only links are requested, when no request of another kind is allowed.
LEMMA OnlyLinks ==
    ASSUME MaxRequest = 0, RestOK, request.step \in {"none", "publish"}, ApiStep
    PROVE  (\E k \in Kb : ApiLink(k)) \/ ApiPublish
<1>1. ~NewRequest
  BY DEF NewRequest, RestOK, Spent
<1> QED BY <1>1 DEF ApiStep, ApiCancelLogs, ApiCancelConnector, ApiDelete, ApiSchedule,
           ApiUnlink, ApiRebuild, ApiResume, ApiWakeup

LEMMA LinkRows ==
    ASSUME DbInv, NEW k \in Kb, LinkKb(k)
    PROVE  /\ conn' = conn /\ linked' = linked \cup {k}
           /\ \A t \in DOMAIN logs : t \in DOMAIN logs' /\ logs'[t] = logs[t]
           /\ \A t \in DOMAIN logs' \ DOMAIN logs :
                 logs'[t].kb = k /\ logs'[t].type \in Scheduled /\ logs'[t].status = "schedule"
<1> DEFINE need == Missing({k})
           ids == created + 1 .. created + Cardinality(need)
<1>1. ScheduleMissing(need, TRUE) /\ conn' = conn /\ linked' = linked \cup {k}
  BY DEF LinkKb
<1>2. need \subseteq {k} \X Scheduled
  BY DEF Missing
<1>3. created \in Nat /\ DOMAIN logs \subseteq 1..created
  BY SyncTasksAssumption DEF DbInv, TypeOK
<1>4. PICK at \in [ids -> need], from \in [need -> Time] :
         logs' = [t \in DOMAIN logs \cup ids |->
                    IF t \in ids THEN NewRow(at[t][1], at[t][2], TRUE /\ at[t][2] = "sync", from[at[t]])
                                 ELSE logs[t]]
  BY <1>1 DEF ScheduleMissing
<1> HIDE DEF need
<1>5. \A t \in DOMAIN logs : t \notin ids
  BY <1>3
<1> HIDE DEF ids
<1>6. \A t \in ids : at[t][1] = k /\ at[t][2] \in Scheduled
  BY <1>2, <1>4
<1>7. \A t \in ids : logs'[t].kb = k /\ logs'[t].type \in Scheduled /\ logs'[t].status = "schedule"
  BY <1>4, <1>6 DEF NewRow
<1>8. \A t \in DOMAIN logs : t \in DOMAIN logs' /\ logs'[t] = logs[t]
  BY <1>4, <1>5
<1>9. \A t \in DOMAIN logs' \ DOMAIN logs : t \in ids
  BY <1>4
<1> QED BY <1>1, <1>7, <1>8, <1>9

LEMMA LinksStep ==
    ASSUME MaxRequest = 0, Typed, LinksInv, [Next]_vars PROVE LinksInv'
<1>0. DbInv /\ JobInv /\ RestOK /\ LinkedRows /\ request.step \in {"none", "publish"}
  BY DEF Typed, LinksInv
<1>1. ASSUME NEW w \in Worker, WorkerStep(w) PROVE LinksInv'
  <2>1. request' = request
    BY <1>1 DEF WorkerStep, Claim, Recheck, ClaimContext, ClaimError, GetContext, GetContextError,
       StartRun, LockMiss, Complete, RunError, ScheduleNext, Unlock, Release, ClaimUnlinked,
       ClaimRolledBack, LockMissError, CompleteLost
  <2> QED BY <1>0, <1>1, <2>1, WorkerLinks DEF LinksInv
<1>2. ASSUME NEW p \in Proc, ProcStep(p) PROVE LinksInv'
  <2>1. request' = request
    BY <1>2 DEF ProcStep, TimerFires, Stop, Exit, Crash, Start, ScanRunning, Recover,
       RecoverError, PublishStartup
  <2>2. RecoverRunning(scan[p]) \/ (\E S : AbortClaims(S)) \/ UNCHANGED dbVars
    BY <1>2 DEF ProcStep, TimerFires, Stop, Exit, Crash, Start, ScanRunning, Recover,
       RecoverError, PublishStartup
  <2>3. CASE RecoverRunning(scan[p])
    BY <1>0, <2>1, <2>3, RecoverStep, InPlaceLinks DEF RecoverRunning, LinksInv, LinkedRows
  <2>5. CASE \E S : AbortClaims(S)
    BY <1>0, <2>1, <2>5 DEF AbortClaims, LinksInv, LinkedRows
  <2>4. CASE UNCHANGED dbVars
    BY <1>0, <2>1, <2>4 DEF LinksInv, LinkedRows, dbVars
  <2> QED BY <2>2, <2>3, <2>4, <2>5
<1>3. CASE ApiStep
  <2>1. ASSUME NEW k \in Kb, ApiLink(k) PROVE LinksInv'
    BY <1>0, <2>1, LinkRows DEF ApiLink, Idle, LinksInv, LinkedRows
  <2>2. CASE ApiPublish
    BY <1>0, <2>2 DEF ApiPublish, Idle, LinksInv, LinkedRows, dbVars
  <2> QED BY <1>0, <1>3, <2>1, <2>2, OnlyLinks
<1>4. CASE \/ \E w \in Worker : Redeliver(w)
           \/ \E k \in Kb : KeyExpires(k)
           \/ \E t \in TaskId : ForgetMsgId(t)
           \/ Tick
           \/ UNCHANGED vars
  <2>1. UNCHANGED <<dbVars, request>>
    BY <1>4 DEF Redeliver, KeyExpires, ForgetMsgId, Tick, vars
  <2> QED BY <1>0, <2>1 DEF LinksInv, LinkedRows, dbVars
<1> QED BY <1>1, <1>2, <1>3, <1>4 DEF Next

\* A handler of t that ends: either the row is no longer RUNNING or the process
\* is on its way out.
LEMMA HandlerEnds ==
    ASSUME MaxDbFault = 0, Typed, LinkedRows, NEW w \in Worker, WorkerStep(w),
           NEW t, Handles(w, t), ~Handles(w, t)', ~Stopping(w)
    PROVE  ~Has(t, "running")'
<1>0. /\ DbInv /\ JobInv /\ ~DbFault
      /\ pc \in [Worker -> Label] /\ job \in [Worker -> Jobs]
  BY JobInvParts DEF Typed, RestOK, Spent, DbFault
<1>1. t = T(w) /\ pc[w] \in {"claimed", "context", "lock", "run"} /\ t \in TaskId
  BY DEF Handles, JobInv, Typed
<1>2. TypeOK
  BY <1>0 DEF DbInv
<1>3. ASSUME FailTask(t, FALSE) \/ FailTask(t, TRUE) PROVE ~Has(t, "running")'
  BY <1>2, <1>3, RowOutcome DEF OnlyRow, Has
<1>4. ASSUME RescheduleClaimed(t) PROVE ~Has(t, "running")'
  BY <1>2, <1>4, RowOutcome DEF OnlyRow, Has
<1>5. ASSUME HandleTransientFailure(t) PROVE ~Has(t, "running")'
  BY <1>2, <1>5, RowOutcome DEF OnlyRow, Has
<1>6. CASE ClaimError(w)
  <2>1. ~HasContext(t)
    BY <1>0, <1>1, <1>6 DEF ClaimError
  <2> QED BY <1>6, <2>1 DEF HasContext, LinkedRows, ClaimError, Has, dbVars
<1>7. CASE GetContextError(w)
  BY <1>1, <1>3, <1>4, <1>7 DEF GetContextError
<1>8. CASE LockMiss(w)
  <2>1. Alive(w)
    BY <1>0, <1>8, WorkersAssumption DEF LockMiss, At, Alive, Stopping, Typed, RestOK, ProcOK, Phases, P
  <2> QED BY <1>1, <1>4, <1>8, <2>1 DEF LockMiss
<1>9. CASE RunError(w)
  BY <1>1, <1>3, <1>4, <1>5, <1>9 DEF RunError, Has, dbVars
<1>10. CASE Complete(w)
  <2>1. t # created + 1 \/ ~Has(t, "running")
    BY <1>2, SyncTasksAssumption DEF Has, TypeOK
  <2> QED BY <1>0, <1>1, <1>10, <2>1, CompleteOutcome DEF Completed, Has
<1>11. CASE ClaimContext(w) \/ GetContext(w) \/ StartRun(w)
  <2>1. Handles(w, t)'
    <3>1. pc'[w] \in {"context", "lock", "run"}
      BY <1>0, <1>11 DEF ClaimContext, GetContext, StartRun, Goto
    <3>2. job'[w].task = job[w].task
      BY <1>0, <1>11 DEF ClaimContext, GetContext, StartRun, Jobs
    <3> QED BY <1>1, <3>1, <3>2 DEF Handles, T
  <2> QED BY <2>1
<1>12. ~ (\E u \in TaskId : Claim(w, u)) /\ ~LockMissError(w) /\ ~CompleteLost(w)
  BY <1>0, <1>1 DEF Claim, LockMissError, CompleteLost
<1> QED BY <1>1, <1>6, <1>7, <1>8, <1>9, <1>10, <1>11, <1>12 DEF WorkerStep, Recheck, ScheduleNext,
           Unlock, Release, ClaimUnlinked, ClaimRolledBack, At

LEMMA OwnedStep ==
    ASSUME MaxDbFault = 0, MaxRequest = 0, Typed, LinksInv, OwnedRunning, [Next]_vars
    PROVE  OwnedRunning'
<1> DEFINE Due(p, t) == \/ proc[p] \in {"stopping", "down", "recover"}
                        \/ proc[p] = "reset" /\ t \in scan[p]
<1>0. /\ DbInv /\ JobInv /\ RestOK /\ LinkedRows /\ proc \in [Proc -> Phases]
      /\ scan \in [Proc -> SUBSET TaskId] /\ ~DbFault
  BY DEF Typed, LinksInv, RestOK, ProcOK, JobInv, Spent, DbFault
<1> SUFFICES ASSUME NEW t, Has(t, "running")', \A p \in Proc : ~Due(p, t)'
             PROVE  \E w \in Worker : Handles(w, t)'
  BY DEF OwnedRunning
<1>1. ASSUME NEW w \in Worker, WorkerStep(w) PROVE \E v \in Worker : Handles(v, t)'
  <2>0. /\ pc \in [Worker -> Label] /\ job \in [Worker -> Jobs]
        /\ proc' = proc /\ scan' = scan /\ P(w) \in Proc
    BY <1>0, <1>1, JobInvParts, WorkersAssumption DEF P, procVars, WorkerStep, Claim, Recheck,
       ClaimContext, ClaimError, GetContext, GetContextError,
       StartRun, LockMiss, Complete, RunError, ScheduleNext, Unlock, Release, ClaimUnlinked,
       ClaimRolledBack, LockMissError, CompleteLost
  <2>1. \A v \in Worker : v # w => pc'[v] = pc[v] /\ job'[v] = job[v]
    BY <1>1, <2>0 DEF WorkerStep, Claim, Recheck, ClaimContext, ClaimError, GetContext,
       GetContextError, StartRun, LockMiss, Complete, RunError, ScheduleNext, Unlock, Release,
       ClaimUnlinked, ClaimRolledBack, LockMissError, CompleteLost, Goto, Leave
  <2>2. ASSUME Has(t, "running") PROVE \E v \in Worker : Handles(v, t)
    BY <2>0, <2>2 DEF OwnedRunning, Has
  <2>3. ASSUME Has(t, "running"), pc[w] \in {"idle", "counted"}
        PROVE  \E v \in Worker : Handles(v, t)'
    <3>1. PICK v \in Worker : Handles(v, t)
      BY <2>2, <2>3
    <3> QED BY <2>1, <2>3, <3>1 DEF Handles, T
  <2>4. CASE \E u \in TaskId : Claim(w, u)
    <3>1. PICK u \in TaskId : Claim(w, u)
      BY <2>4
    <3>2. pc[w] = "idle"
      BY <3>1 DEF Claim
    <3>3. CASE ~Has(t, "running")
      <4>1. ClaimTask(u) /\ pc' = [pc EXCEPT ![w] = "claimed"]
        BY <3>1, <3>3 DEF Claim, Goto, Has, dbVars, CountUnlinked
      <4>2. u = t
        BY <3>3, <4>1 DEF ClaimTask, With, Has
      <4>3. job'[w].task = u
        BY <2>0, <3>1 DEF Claim, NoJob
      <4> QED BY <2>0, <4>1, <4>2, <4>3 DEF Handles, T
    <3> QED BY <2>3, <3>2, <3>3
  <2>5. CASE ClaimUnlinked(w)
    <3>1. pc[w] = "counted"
      BY <2>5 DEF ClaimUnlinked, At
    <3>2. CASE ~Has(t, "running")
      <4>1. Has(T(w), "schedule") /\ T(w) = t
        BY <2>5, <3>2 DEF ClaimUnlinked, ClaimCounted, With, Has
      <4>2. pc' = [pc EXCEPT ![w] = "claimed"] /\ job' = job
        BY <2>5, <4>1 DEF ClaimUnlinked, Goto
      <4> QED BY <2>0, <4>1, <4>2 DEF Handles, T
    <3> QED BY <2>3, <3>1, <3>2
  <2>6. CASE ~ (\E u \in TaskId : Claim(w, u)) /\ ~ClaimUnlinked(w)
    <3>1. Has(t, "running")
      BY <1>0, <1>1, <2>6, WorkerRunning DEF NoNewRunning
    <3>2. PICK v \in Worker : Handles(v, t)
      BY <2>2, <3>1
    <3>3. CASE v # w
      BY <2>1, <3>2, <3>3 DEF Handles, T
    <3>4. CASE v = w
      BY <1>1, <2>0, <3>2, <3>4, <1>0, HandlerEnds DEF Stopping
    <3> QED BY <3>3, <3>4
  <2> QED BY <2>4, <2>5, <2>6
<1>2. ASSUME UNCHANGED <<pc, job, proc, scan>>, NoNewRunning PROVE \E v \in Worker : Handles(v, t)'
  <2>1. PICK v \in Worker : Handles(v, t)
    BY <1>2 DEF OwnedRunning, NoNewRunning, Has
  <2> QED BY <1>2, <2>1 DEF Handles, T
<1>3. CASE ApiStep
  <2>1. UNCHANGED <<pc, job, proc, scan>>
    BY <1>3 DEF ApiStep, ApiCancelLogs, ApiCancelConnector, ApiDelete, ApiSchedule, ApiLink,
       ApiUnlink, ApiRebuild, ApiPublish, ApiResume, ApiWakeup, workersIdle, workVars, procVars
  <2> QED BY <1>0, <1>2, <1>3, <2>1, ApiRunning
<1>4. CASE \/ \E w \in Worker : Redeliver(w)
           \/ \E k \in Kb : KeyExpires(k)
           \/ \E u \in TaskId : ForgetMsgId(u)
           \/ Tick
           \/ UNCHANGED vars
  <2>1. UNCHANGED <<dbVars, pc, job, proc, scan>>
    BY <1>4 DEF Redeliver, KeyExpires, ForgetMsgId, Tick, vars, workVars, procVars
  <2>2. NoNewRunning
    BY <1>0, <2>1, KindsRunning DEF dbVars
  <2> QED BY <1>2, <2>1, <2>2
<1>5. ASSUME NEW p \in Proc, ProcStep(p) PROVE \E v \in Worker : Handles(v, t)'
  <2>0. ~RecoverError(p)
    BY <1>0 DEF RecoverError
  <2>1. ASSUME UNCHANGED <<pc, job>>, Has(t, "running"),
               \A q \in Proc \ {p} : proc'[q] = proc[q] /\ scan'[q] = scan[q], ~Due(p, t)
        PROVE  \E v \in Worker : Handles(v, t)'
    <3>1. PICK v \in Worker : Handles(v, t)
      BY <2>1 DEF OwnedRunning, Has
    <3> QED BY <2>1, <3>1 DEF Handles, T
  <2>2. CASE Recover(p)
    <3>1. /\ UNCHANGED <<pc, job>> /\ RecoverRunning(scan[p])
          /\ scan' = [scan EXCEPT ![p] = {}] /\ proc' = [proc EXCEPT ![p] = "publish"]
          /\ proc[p] = "reset"
      BY <2>2 DEF Recover, workVars
    <3>2. Has(t, "running") /\ t \notin scan[p]
      BY <1>0, <3>1 DEF RecoverRunning, With, Has, DbInv, TypeOK
    <3> QED BY <1>0, <2>1, <3>1, <3>2
  <2>3. CASE Stop(p) \/ Exit(p) \/ Crash(p) \/ Start(p)
    <3>1. proc'[p] \in {"stopping", "down", "recover"}
      BY <1>0, <2>3 DEF Stop, Exit, Crash, Start
    <3> QED BY <3>1
  <2>4. CASE ScanRunning(p)
    <3> DEFINE running == {u \in DOMAIN logs : Has(u, "running")}
    <3>1. /\ logs' = logs /\ scan' = [scan EXCEPT ![p] = running]
          /\ proc' = [proc EXCEPT ![p] = IF running = {} THEN "publish" ELSE "reset"]
      BY <2>4 DEF ScanRunning, dbVars
    <3>2. t \in running
      BY <3>1 DEF Has
    <3>3. proc'[p] = "reset" /\ t \in scan'[p]
      BY <1>0, <3>1, <3>2
    <3> QED BY <3>3
  <2>5. CASE PublishStartup(p)
    <3>1. /\ UNCHANGED <<dbVars, pc, job, scan>>
          /\ proc[p] = "publish" /\ proc' = [proc EXCEPT ![p] = "up"]
      BY <2>5 DEF PublishStartup, workVars
    <3>2. Has(t, "running")
      BY <3>1 DEF Has, dbVars
    <3> QED BY <1>0, <2>1, <3>1, <3>2
  <2>6. ASSUME NEW u \in TaskId, TimerFires(p, u) PROVE \E v \in Worker : Handles(v, t)'
    <3>1. UNCHANGED <<dbVars, pc, job, proc, scan>>
      BY <2>6 DEF TimerFires, workVars
    <3>2. NoNewRunning
      BY <1>0, <3>1, KindsRunning DEF dbVars
    <3> QED BY <1>2, <3>1, <3>2
  <2> QED BY <1>5, <2>0, <2>2, <2>3, <2>4, <2>5, <2>6 DEF ProcStep
<1> QED BY <1>1, <1>3, <1>4, <1>5 DEF Next

\* A RUNNING row has a handler or a startup recovery to come, for any processes,
\* workers, stops, crashes and source errors, as long as the database answers and
\* the requests are links: TaskWorker.handle never drops a claimed row, and
\* publishStartupTasks takes back what a dead process left.
THEOREM OwnedRunningAlways ==
    ASSUME MaxDbFault = 0, MaxRequest = 0
    PROVE  Spec => []OwnedRunning
<1>1. Init => LinksInv /\ OwnedRunning
  BY DEF Init, DbInit, LinksInv, LinkedRows, Idle, OwnedRunning
<1>2. Typed /\ LinksInv /\ OwnedRunning /\ [Next]_vars => (LinksInv /\ OwnedRunning)'
  BY LinksStep, OwnedStep
<1> QED BY <1>1, <1>2, TypedAlways, PTL DEF Spec

-----------------------------------------------------------------------------
(* Without restarts a task has one handler.                                *)

Handling(w) == pc[w] \in {"claimed", "context", "lock", "run", "unsure"}

\* While no process stops: a handler's row, if it is still there, is RUNNING or
\* was canceled behind its back, DONE if its commit went through without an
\* answer, and nobody else handles it.
Held(w) == IF pc[w] = "unsure" THEN {"done"} ELSE {"running", "cancel"}
HandlerOf(w) ==
    Handling(w) => /\ T(w) <= created
                   /\ T(w) \in DOMAIN logs => logs[T(w)].status \in Held(w)
Sole ==
    /\ \A p \in Proc : proc[p] = "up"
    /\ \A w \in Worker : HandlerOf(w)
    /\ \A v, w \in Worker : Handling(v) /\ Handling(w) /\ T(v) = T(w) => v = w
SoleInv == spent.stop = 0 => Sole

\* What a worker's step does to the rows.
LEMMA WorkerRows ==
    ASSUME DbInv, JobInv, NEW w \in Worker, WorkerStep(w),
           ~ \E t \in TaskId : Claim(w, t), ~ClaimUnlinked(w)
    PROVE  \A u \in DOMAIN logs :
              /\ u \in DOMAIN logs'
              /\ u # T(w) \/ ~Handling(w) => logs'[u].status = logs[u].status
<1>0. TypeOK
  BY DEF DbInv
<1>1. CASE GetContextError(w) \/ LockMiss(w) \/ LockMissError(w) \/ RunError(w)
  <2>1. Handling(w)
    BY <1>1 DEF GetContextError, LockMiss, LockMissError, RunError, At, Handling
  <2>2. \/ RescheduleClaimed(T(w)) \/ HandleTransientFailure(T(w)) \/ UNCHANGED dbVars
        \/ FailTask(T(w), FALSE) \/ FailTask(T(w), TRUE)
    BY <1>1 DEF GetContextError, LockMiss, LockMissError, RunError
  <2>3. logs' = logs \/ \E s : OnlyRow(T(w), s)
    BY <1>0, <2>2, RowOutcome DEF dbVars
  <2> QED BY <2>1, <2>3 DEF OnlyRow
<1>2. CASE Complete(w) \/ CompleteLost(w)
  <2>1. Handling(w)
    BY <1>2 DEF Complete, CompleteLost, At, Handling
  <2> QED BY <1>2, <2>1, CompleteOutcome DEF Completed
<1>3. CASE logs' = logs
  BY <1>3
<1> QED BY <1>1, <1>2, <1>3 DEF WorkerStep, Recheck, ClaimContext, MarkConnectorRunning, ClaimError,
           GetContext, StartRun, ScheduleNext, Unlock, Release, ClaimRolledBack, AbortClaims, dbVars

LEMMA ScheduleRows ==
    ASSUME DbInv, NEW need, NEW full, ScheduleMissing(need, full)
    PROVE  \A t \in DOMAIN logs : t \in DOMAIN logs' /\ logs'[t] = logs[t]
<1> DEFINE ids == created + 1 .. created + Cardinality(need)
<1>1. PICK at \in [ids -> need], from \in [need -> Time] :
         logs' = [t \in DOMAIN logs \cup ids |->
                    IF t \in ids THEN NewRow(at[t][1], at[t][2], full /\ at[t][2] = "sync", from[at[t]])
                                 ELSE logs[t]]
  BY DEF ScheduleMissing
<1>2. \A t \in DOMAIN logs : t \notin ids
  BY SyncTasksAssumption DEF DbInv, TypeOK
<1> QED BY <1>1, <1>2

\* What a request does to the rows that it does not delete.
ApiRow(t) ==
    \/ logs'[t].status = logs[t].status
    \/ logs[t].status \in {"schedule", "running"} /\ logs'[t].status = "cancel"
    \/ logs[t].status = "fail" /\ logs'[t].status = "schedule"

LEMMA ApiRows ==
    ASSUME DbInv, ApiStep PROVE \A t \in DOMAIN logs \cap DOMAIN logs' : ApiRow(t)
<1>0. TypeOK /\ {"cancel", "schedule"} \subseteq Status /\ 0 \in Nat
  BY DEF DbInv, Status
<1>1. ASSUME NEW S, logs' = With(Active(S), "cancel")
      PROVE  \A t \in DOMAIN logs \cap DOMAIN logs' : ApiRow(t)
  BY <1>0, <1>1, WithRows DEF Active, ApiRow
<1>2. ASSUME NEW kind, ApiCancelLogs(kind) PROVE \A t \in DOMAIN logs \cap DOMAIN logs' : ApiRow(t)
  BY <1>1, <1>2 DEF ApiCancelLogs, CancelRunningOrScheduledLogs
<1>3. ASSUME NEW k \in Kb, ApiUnlink(k) PROVE \A t \in DOMAIN logs \cap DOMAIN logs' : ApiRow(t)
  BY <1>1, <1>3 DEF ApiUnlink, UnlinkKb
<1>4. ASSUME NEW u \in TaskId, ApiResume(u) PROVE \A t \in DOMAIN logs \cap DOMAIN logs' : ApiRow(t)
  <2>1. u \in DOMAIN logs /\ logs[u].status = "fail" /\ OnlyRow(u, "schedule")
    BY <1>0, <1>4, WithErrs DEF ApiResume, ResumeFailedSyncTask, Has
  <2> QED BY <2>1 DEF OnlyRow, ApiRow
<1>5. ASSUME NEW k \in Kb, ApiRebuild(k) PROVE \A t \in DOMAIN logs \cap DOMAIN logs' : ApiRow(t)
  <2>1. PICK ids :
          /\ DOMAIN logs' = {t \in DOMAIN logs : logs[t].kb # k} \cup ids
          /\ \A t \in ids : created < t
          /\ \A t \in DOMAIN logs : logs[t].kb # k => logs'[t] = logs[t]
    BY <1>5, RebuildRows DEF ApiRebuild
  <2>2. \A t \in DOMAIN logs : t \notin ids
    BY <1>0, <2>1, SyncTasksAssumption DEF TypeOK
  <2> QED BY <2>1, <2>2 DEF ApiRow
<1>6. CASE ApiSchedule
  BY <1>6, ScheduleRows DEF ApiSchedule, ScheduleConnectorTasks, ApiRow
<1>7. ASSUME NEW k \in Kb, ApiLink(k) PROVE \A t \in DOMAIN logs \cap DOMAIN logs' : ApiRow(t)
  BY <1>7, ScheduleRows DEF ApiLink, LinkKb, ApiRow
<1>8. CASE logs' = logs
  BY <1>8 DEF ApiRow
<1> QED BY <1>2, <1>3, <1>4, <1>5, <1>6, <1>7, <1>8 DEF ApiStep, ApiCancelConnector, CancelConnector,
           ApiDelete, DeleteConnectorRow, ApiPublish, ApiWakeup, dbVars

\* Without stops only timers fire.
LEMMA OnlyTimers ==
    ASSUME Sole, NEW p \in Proc, ProcStep(p)
    PROVE  (\E t \in TaskId : TimerFires(p, t)) \/ ((Stop(p) \/ Crash(p)) /\ logs' = logs)
<1>1. proc[p] = "up"
  BY DEF Sole
<1> QED BY <1>1 DEF ProcStep, Stop, Exit, Crash, Start, ScanRunning, Recover, RecoverError,
           PublishStartup, AbortClaims, dbVars

\* Stops are only counted up.
LEMMA StopCount ==
    ASSUME RestOK, [Next]_vars
    PROVE  /\ spent'.stop = 0 => spent.stop = 0
           /\ \A p \in Proc : Stop(p) \/ Crash(p) => spent'.stop # 0
<1>0. spent \in Spent
  BY DEF RestOK
<1>1. \/ spent' = spent \/ Fault \/ DbFault \/ StopOnce \/ NewRequest
  <2>1. ASSUME NEW w \in Worker, WorkerStep(w) PROVE spent' = spent \/ Fault \/ DbFault
    BY <2>1 DEF WorkerStep, Claim, Recheck, ClaimContext, ClaimError, GetContext,
       GetContextError, StartRun, LockMiss, Complete, RunError, ScheduleNext, Unlock, Release,
       Failing, ClaimUnlinked, ClaimRolledBack, LockMissError, CompleteLost
  <2>2. ASSUME NEW p \in Proc, ProcStep(p) PROVE spent' = spent \/ StopOnce \/ DbFault
    BY <2>2 DEF ProcStep, TimerFires, Stop, Exit, Crash, Start, ScanRunning, Recover,
       RecoverError, PublishStartup
  <2>3. CASE ApiStep
    BY <2>3 DEF ApiStep, ApiCancelLogs, ApiCancelConnector, ApiDelete, ApiSchedule, ApiLink,
       ApiUnlink, ApiRebuild, ApiPublish, ApiResume, ApiWakeup
  <2>4. CASE \/ \E w \in Worker : Redeliver(w)
             \/ \E k \in Kb : KeyExpires(k)
             \/ \E u \in TaskId : ForgetMsgId(u)
             \/ Tick
             \/ UNCHANGED vars
    BY <2>4 DEF Redeliver, KeyExpires, ForgetMsgId, Tick, vars
  <2> QED BY <2>1, <2>2, <2>3, <2>4 DEF Next
<1>2. spent'.stop \in {spent.stop, spent.stop + 1}
  BY <1>0, <1>1 DEF Spent, Fault, DbFault, StopOnce, NewRequest
<1>3. StopOnce => spent'.stop # 0
  BY <1>0 DEF StopOnce, Spent
<1> QED BY <1>0, <1>2, <1>3 DEF Spent, Stop, Crash

LEMMA WorkerOthers ==
    ASSUME JobInv, NextOK, NEW w \in Worker, WorkerStep(w)
    PROVE  \A v \in Worker : v # w => /\ pc'[v] = pc[v] /\ T(v)' = T(v)
                                      /\ Handling(v)' = Handling(v)
                                      /\ nextTask'[v] = nextTask[v]
<1>1. \A v \in Worker : v # w => pc'[v] = pc[v] /\ job'[v] = job[v] /\ nextTask'[v] = nextTask[v]
  BY DEF JobInv, NextOK, WorkerStep, Claim, Recheck, ClaimContext, ClaimError, GetContext,
     GetContextError, StartRun, LockMiss, Complete, RunError, ScheduleNext, Unlock, Release,
     ClaimUnlinked, ClaimRolledBack, LockMissError, CompleteLost, Goto, Leave
<1> QED BY <1>1 DEF T, Handling

\* The handler itself: it goes on with its row, completes it without knowing, or
\* it is no longer a handler.
LEMMA HandlerSelf ==
    ASSUME DbInv, JobInv, NEW w \in Worker, WorkerStep(w), ~ \E t \in TaskId : Claim(w, t),
           ~ClaimUnlinked(w), Handling(w)'
    PROVE  /\ Handling(w) /\ T(w)' = T(w)
           /\ \/ logs' = logs /\ Held(w)' = Held(w)
              \/ /\ Held(w)' = {"done"} /\ Has(T(w), "running")
                 /\ Has(T(w), "done")'
<1>0. pc \in [Worker -> Label] /\ job \in [Worker -> Jobs]
  BY JobInvParts
<1>1. CASE ClaimContext(w) \/ GetContext(w) \/ StartRun(w)
  <2>1. /\ Handling(w) /\ logs' = logs
        /\ pc[w] \in {"claimed", "context", "lock"} /\ pc'[w] \in {"context", "lock", "run"}
    BY <1>0, <1>1 DEF ClaimContext, MarkConnectorRunning, GetContext, StartRun, Handling, At, dbVars,
       Goto
  <2>2. job'[w].task = job[w].task
    BY <1>0, <1>1 DEF ClaimContext, GetContext, StartRun, Jobs
  <2> QED BY <2>1, <2>2 DEF T, Held
<1>2. CASE CompleteLost(w)
  <2>1. pc[w] = "run" /\ pc'[w] = "unsure" /\ job' = job /\ Has(T(w), "running")
    BY <1>0, <1>2 DEF CompleteLost, At, Goto
  <2>2. Completed(T(w), job[w].kb, job[w].type)
    BY <1>2, <2>1, CompleteOutcome
  <2>3. Has(T(w), "done")'
    BY <2>1, <2>2 DEF Completed, Has, T
  <2> QED BY <2>1, <2>3 DEF T, Held, Handling
<1>3. CASE \/ Recheck(w) \/ ClaimError(w) \/ GetContextError(w) \/ LockMiss(w) \/ Complete(w)
           \/ RunError(w) \/ ScheduleNext(w) \/ Unlock(w) \/ Release(w) \/ LockMissError(w)
           \/ ClaimRolledBack(w)
  BY <1>0, <1>3 DEF Recheck, ClaimError, GetContextError, LockMiss, Complete, RunError,
     ScheduleNext, Unlock, Release, LockMissError, ClaimRolledBack, Leave, Goto, Handling
<1> QED BY <1>1, <1>2, <1>3 DEF WorkerStep

\* A handler that goes on, with rows that nobody else changed.
LEMMA HandlerFrame ==
    ASSUME JobInv, RowsKept, NEW v \in Worker, HandlerOf(v), Handling(v), T(v)' = T(v),
           Held(v)' = Held(v),
           \A u \in DOMAIN logs \cap DOMAIN logs' : u = T(v) /\ logs[u].status \in Held(v)
              => logs'[u].status \in Held(v)
    PROVE  HandlerOf(v)'
<1>1. T(v) \in Nat /\ T(v) <= created /\ created \in Nat /\ created' \in Nat
  BY SyncTasksAssumption DEF JobInv, T, HandlerOf, RowsKept
<1>2. T(v)' \in DOMAIN logs' => T(v) \in DOMAIN logs /\ T(v) \in DOMAIN logs'
  BY <1>1 DEF RowsKept
<1>3. T(v)' <= created'
  BY <1>1 DEF RowsKept
<1>4. T(v)' \in DOMAIN logs' => logs'[T(v)'].status \in Held(v)'
  BY <1>2 DEF HandlerOf
<1> QED BY <1>3, <1>4 DEF HandlerOf

\* A claim: the row was scheduled, so it had no handler.
LEMMA SoleClaim ==
    ASSUME Typed, Sole, RowsKept, NEW w \in Worker, proc' = proc,
           \A v \in Worker : v # w => pc'[v] = pc[v] /\ T(v)' = T(v),
           NEW t, Has(t, "schedule"), logs' = With({t}, "running"), created' = created,
           pc'[w] = "claimed", T(w)' = t
    PROVE  Sole'
<1>0. /\ DbInv /\ JobInv /\ TypeOK
      /\ \A p \in Proc : proc[p] = "up"
      /\ \A v \in Worker : HandlerOf(v)
      /\ \A u, v \in Worker : Handling(u) /\ Handling(v) /\ T(u) = T(v) => u = v
  BY DEF Typed, DbInv, Sole
<1>1. \A v \in Worker : v # w => Handling(v)' = Handling(v) /\ Held(v)' = Held(v)
  BY DEF Handling, Held
<1>2. t \in DOMAIN logs /\ logs[t].status = "schedule"
  BY DEF Has
<1>3. /\ DOMAIN logs' = DOMAIN logs
      /\ \A u \in DOMAIN logs : logs'[u].status = IF u = t THEN "running" ELSE logs[u].status
  <2>1. "running" \in Status
    BY DEF Status
  <2> QED BY <1>0, <1>2, <2>1, WithRows
<1>4. \A v \in Worker : Handling(v) => T(v) # t
  BY <1>0, <1>2 DEF HandlerOf, Held
<1>5. HandlerOf(w)'
  <2>1. t <= created'
    BY <1>0, <1>2, SyncTasksAssumption DEF TypeOK
  <2>2. Held(w)' = {"running", "cancel"}
    BY DEF Held
  <2> QED BY <1>2, <1>3, <2>1, <2>2 DEF HandlerOf
<1>6. ASSUME NEW v \in Worker, v # w PROVE HandlerOf(v)'
  <2>1. CASE Handling(v)
    <3>1. T(v) # t
      BY <1>4, <2>1
    <3> QED BY <1>0, <1>1, <1>3, <1>6, <2>1, <3>1, HandlerFrame
  <2>2. CASE ~Handling(v)
    BY <1>1, <1>6, <2>2 DEF HandlerOf
  <2> QED BY <2>1, <2>2
<1>7. ASSUME NEW u \in Worker, NEW v \in Worker, Handling(u)', Handling(v)', T(u)' = T(v)'
      PROVE  u = v
  BY <1>0, <1>1, <1>4, <1>7
<1> QED BY <1>0, <1>5, <1>6, <1>7 DEF Sole

LEMMA SoleWorker ==
    ASSUME Typed, Sole, RowsKept, NEW w \in Worker, WorkerStep(w) PROVE Sole'
<1>0. /\ DbInv /\ JobInv /\ TypeOK
      /\ pc \in [Worker -> Label] /\ job \in [Worker -> Jobs]
      /\ \A p \in Proc : proc[p] = "up"
      /\ \A v \in Worker : HandlerOf(v)
      /\ \A u, v \in Worker : Handling(u) /\ Handling(v) /\ T(u) = T(v) => u = v
  BY JobInvParts DEF Typed, DbInv, Sole
<1>1. proc' = proc
  BY DEF WorkerStep, Claim, Recheck, ClaimContext, ClaimError, GetContext, GetContextError,
     StartRun, LockMiss, Complete, RunError, ScheduleNext, Unlock, Release, procVars,
     ClaimUnlinked, ClaimRolledBack, LockMissError, CompleteLost
<1>2. \A v \in Worker : v # w => /\ pc'[v] = pc[v] /\ T(v)' = T(v) /\ Handling(v)' = Handling(v)
                                  /\ Held(v)' = Held(v)
  <2>1. \A v \in Worker : v # w => pc'[v] = pc[v] /\ T(v)' = T(v) /\ Handling(v)' = Handling(v)
    BY <1>0, WorkerOthers DEF Typed, RestOK
  <2> QED BY <2>1 DEF Held
<1>3. ASSUME ~Handling(w)', logs' = logs PROVE Sole'
  <2>1. ASSUME NEW v \in Worker PROVE HandlerOf(v)'
    <3>1. CASE v # w /\ Handling(v)
      BY <1>0, <1>2, <1>3, <3>1, HandlerFrame
    <3>2. CASE ~Handling(v)'
      BY <3>2 DEF HandlerOf
    <3> QED BY <1>2, <1>3, <3>1, <3>2
  <2>2. ASSUME NEW u \in Worker, NEW v \in Worker, Handling(u)', Handling(v)', T(u)' = T(v)'
        PROVE  u = v
    BY <1>0, <1>2, <1>3, <2>2
  <2> QED BY <1>0, <1>1, <2>1, <2>2 DEF Sole
<1>4. CASE \E t \in TaskId : Claim(w, t)
  <2>1. PICK t \in TaskId : Claim(w, t)
    BY <1>4
  <2>2. job'[w].task = t
    BY <1>0, <2>1 DEF Claim, NoJob
  <2>3. CASE ClaimTask(t) /\ Goto(w, "claimed")
    <3>1. Has(t, "schedule") /\ logs' = With({t}, "running") /\ created' = created
      BY <2>3 DEF ClaimTask, Claimable
    <3>2. pc'[w] = "claimed" /\ T(w)' = t
      BY <1>0, <2>2, <2>3 DEF Goto, T
    <3> QED BY <1>1, <1>2, <3>1, <3>2, SoleClaim
  <2>4. CASE ~(ClaimTask(t) /\ Goto(w, "claimed"))
    <3>1. logs' = logs /\ pc'[w] \in {"recheck", "counted"}
      BY <1>0, <2>1, <2>4 DEF Claim, CountUnlinked, Goto, dbVars
    <3> QED BY <1>3, <3>1 DEF Handling
  <2> QED BY <2>3, <2>4
<1>5. CASE ClaimUnlinked(w)
  <2>1. job' = job
    BY <1>5 DEF ClaimUnlinked
  <2>2. CASE Has(T(w), "schedule")
    <3>1. logs' = With({T(w)}, "running") /\ created' = created
      BY <1>5, <2>2 DEF ClaimUnlinked, ClaimCounted
    <3>2. pc'[w] = "claimed" /\ T(w)' = T(w)
      BY <1>0, <1>5, <2>1, <2>2 DEF ClaimUnlinked, Goto, T
    <3> DEFINE t == T(w)
    <3>3. Has(t, "schedule") /\ logs' = With({t}, "running") /\ T(w)' = t
      BY <2>2, <3>1, <3>2
    <3> HIDE DEF t
    <3> QED BY <1>1, <1>2, <3>1, <3>2, <3>3, SoleClaim
  <2>3. CASE ~Has(T(w), "schedule")
    <3>1. logs' = logs /\ pc'[w] = "recheck"
      BY <1>0, <1>5, <2>3 DEF ClaimUnlinked, ClaimCounted, Goto
    <3> QED BY <1>3, <3>1 DEF Handling
  <2> QED BY <2>2, <2>3
<1>6. CASE ~ (\E t \in TaskId : Claim(w, t)) /\ ~ClaimUnlinked(w)
  <2>1. \A u \in DOMAIN logs :
              /\ u \in DOMAIN logs'
              /\ u # T(w) \/ ~Handling(w) => logs'[u].status = logs[u].status
    BY <1>0, <1>6, WorkerRows
  <2>2. ASSUME Handling(w)' PROVE Handling(w) /\ T(w)' = T(w) /\ HandlerOf(w)'
    <3>1. /\ Handling(w) /\ T(w)' = T(w)
          /\ \/ logs' = logs /\ Held(w)' = Held(w)
             \/ /\ Held(w)' = {"done"} /\ Has(T(w), "running")
                /\ Has(T(w), "done")'
      BY <1>0, <1>6, <2>2, HandlerSelf
    <3>2. CASE logs' = logs /\ Held(w)' = Held(w)
      BY <1>0, <3>1, <3>2, HandlerFrame
    <3>3. CASE Held(w)' = {"done"} /\ Has(T(w), "running") /\ Has(T(w), "done")'
      <4>1. T(w) \in Nat /\ T(w) <= created /\ created \in Nat /\ created' \in Nat /\ created <= created'
        BY <1>0, <3>1, SyncTasksAssumption DEF JobInv, T, HandlerOf, RowsKept
      <4> QED BY <3>1, <3>3, <4>1 DEF HandlerOf, Has
    <3> QED BY <3>1, <3>2, <3>3
  <2>3. ASSUME NEW v \in Worker PROVE HandlerOf(v)'
    <3>1. CASE v = w
      BY <2>2, <3>1 DEF HandlerOf
    <3>2. CASE v # w /\ Handling(v)
      <4>1. T(v) # T(w) \/ ~Handling(w)
        BY <1>0, <3>2
      <4> QED BY <1>0, <1>2, <2>1, <3>2, <4>1, HandlerFrame
    <3>3. CASE v # w /\ ~Handling(v)
      BY <1>2, <3>3 DEF HandlerOf
    <3> QED BY <3>1, <3>2, <3>3
  <2>4. ASSUME NEW u \in Worker, NEW v \in Worker, Handling(u)', Handling(v)', T(u)' = T(v)'
        PROVE  u = v
    BY <1>0, <1>2, <2>2, <2>4
  <2> QED BY <1>0, <1>1, <2>3, <2>4 DEF Sole
<1> QED BY <1>4, <1>5, <1>6

LEMMA SoleStep ==
    ASSUME Typed, Sole, [Next]_vars, spent'.stop = 0 PROVE Sole'
<1>0. DbInv /\ JobInv /\ RestOK /\ RowsKept
  BY NextUsesDb, DbStepKeepsRows DEF Typed
<1>1. ASSUME NEW w \in Worker, WorkerStep(w) PROVE Sole'
  BY <1>0, <1>1, SoleWorker
<1>2. ASSUME UNCHANGED <<pc, job, proc>>,
             \A t \in DOMAIN logs \cap DOMAIN logs' : ApiRow(t)
      PROVE  Sole'
  <2>1. \A v \in Worker : T(v)' = T(v) /\ Handling(v)' = Handling(v) /\ Held(v)' = Held(v)
    BY <1>2 DEF T, Handling, Held
  <2>2. ASSUME NEW v \in Worker PROVE HandlerOf(v)'
    <3>1. CASE Handling(v)
      <4>1. HandlerOf(v)
        BY DEF Sole
      <4>2. \A u \in DOMAIN logs \cap DOMAIN logs' :
               logs[u].status \in Held(v) => logs'[u].status \in Held(v)
        BY <1>2 DEF ApiRow, Held
      <4> QED BY <1>0, <2>1, <3>1, <4>1, <4>2, HandlerFrame
    <3>2. CASE ~Handling(v)
      BY <2>1, <3>2 DEF HandlerOf
    <3> QED BY <3>1, <3>2
  <2>3. \A u, v \in Worker : Handling(u)' /\ Handling(v)' /\ T(u)' = T(v)' => u = v
    BY <2>1 DEF Sole
  <2> QED BY <1>2, <2>2, <2>3 DEF Sole
<1>3. CASE ApiStep
  <2>1. UNCHANGED <<pc, job, proc>>
    BY <1>3 DEF ApiStep, ApiCancelLogs, ApiCancelConnector, ApiDelete, ApiSchedule, ApiLink,
       ApiUnlink, ApiRebuild, ApiPublish, ApiResume, ApiWakeup, workersIdle, workVars, procVars
  <2> QED BY <1>0, <1>2, <1>3, <2>1, ApiRows
<1>4. CASE \/ \E w \in Worker : Redeliver(w)
           \/ \E k \in Kb : KeyExpires(k)
           \/ \E u \in TaskId : ForgetMsgId(u)
           \/ \E p \in Proc, u \in TaskId : TimerFires(p, u)
           \/ Tick
           \/ UNCHANGED vars
  <2>1. UNCHANGED <<logs, pc, job, proc>>
    BY <1>4 DEF Redeliver, KeyExpires, ForgetMsgId, TimerFires, Tick, vars, workVars, procVars, dbVars
  <2>2. \A t \in DOMAIN logs \cap DOMAIN logs' : ApiRow(t)
    BY <2>1 DEF ApiRow
  <2> QED BY <1>2, <2>1, <2>2
<1>5. \A p \in Proc : ~Stop(p) /\ ~Crash(p)
  BY <1>0, StopCount
<1> QED BY <1>0, <1>1, <1>3, <1>4, <1>5, OnlyTimers DEF Next

\* While no process stops a DONE row stays DONE or is deleted, for any processes,
\* workers, redeliveries, faults and requests: FailTask is then called only by the
\* one handler of the row, which has not completed it or has not heard of it.
THEOREM DoneIsFinalAlways == Spec => DoneIsFinal
<1> DEFINE Late(t) == \E w \in Worker : pc[w] = "unsure" /\ T(w) = t /\ pc'[w] = "unlock"
           Keeps == \A t \in DOMAIN logs : spent.stop = 0 /\ Has(t, "done") =>
                       \/ t \notin DOMAIN logs'
                       \/ Has(t, "done")'
                       \/ \E w \in Worker : pc[w] = "unsure" /\ T(w) = t /\ pc'[w] = "unlock"
<1>1. Init => SoleInv
  BY DEF Init, SoleInv, Sole, HandlerOf, Handling
<1>2. Typed /\ SoleInv /\ [Next]_vars => SoleInv'
  BY SoleStep, StopCount DEF SoleInv, Typed
<1>3. ASSUME Typed, SoleInv, [Next]_vars PROVE Keeps
  <2> SUFFICES ASSUME Sole PROVE Keeps
    BY <1>3 DEF SoleInv
  <2>0. /\ DbInv /\ JobInv /\ RestOK /\ TypeOK
        /\ pc \in [Worker -> Label]
    BY <1>3 DEF Typed, DbInv, JobInv
  <2>1. ASSUME NEW w \in Worker, WorkerStep(w) PROVE Keeps
    <3>1. CASE (\E t \in TaskId : Claim(w, t)) \/ ClaimUnlinked(w)
      <4>1. logs' = logs \/ \E t : Has(t, "schedule") /\ logs' = With({t}, "running")
        BY <3>1 DEF Claim, ClaimTask, Claimable, CountUnlinked, ClaimUnlinked, ClaimCounted, dbVars
      <4> QED BY <4>1 DEF Has, With
    <3>2. CASE ~ (\E t \in TaskId : Claim(w, t)) /\ ~ClaimUnlinked(w)
      <4>1. Handling(w) /\ pc[w] # "unsure" => ~Has(T(w), "done")
        <5>1. HandlerOf(w)
          BY DEF Sole
        <5> QED BY <5>1 DEF HandlerOf, Held, Has
      <4>2. pc[w] = "unsure" => pc'[w] = "unlock"
        BY <2>0, <2>1, <3>2 DEF WorkerStep, Recheck, ClaimContext, ClaimError, GetContext,
           GetContextError, StartRun, LockMiss, Complete, RunError, ScheduleNext, Unlock, Release,
           ClaimRolledBack, LockMissError, CompleteLost, At, Goto
      <4>3. ASSUME NEW t \in DOMAIN logs, Has(t, "done"), ~Late(t)
            PROVE  t \notin DOMAIN logs' \/ Has(t, "done")'
        <5>1. t # T(w) \/ ~Handling(w)
          BY <4>1, <4>2, <4>3
        <5> QED BY <2>0, <2>1, <3>2, <4>3, <5>1, WorkerRows DEF Has
      <4> QED BY <4>3
    <3> QED BY <3>1, <3>2
  <2>2. CASE ApiStep
    BY <2>0, <2>2, ApiRows DEF ApiRow, Has
  <2>3. CASE \/ \E w \in Worker : Redeliver(w)
             \/ \E k \in Kb : KeyExpires(k)
             \/ \E u \in TaskId : ForgetMsgId(u)
             \/ \E p \in Proc, u \in TaskId : TimerFires(p, u)
             \/ Tick
             \/ UNCHANGED vars
    <3>1. logs' = logs
      BY <2>3 DEF Redeliver, KeyExpires, ForgetMsgId, TimerFires, Tick, vars, dbVars
    <3> QED BY <3>1 DEF Has
  <2>4. CASE logs' = logs
    BY <2>4 DEF Has
  <2> QED BY <1>3, <2>0, <2>1, <2>2, <2>3, <2>4, OnlyTimers DEF Next
<1>4. Typed /\ SoleInv /\ [Next]_vars => [Keeps]_vars
  BY <1>3
<1> QED BY <1>1, <1>2, <1>4, TypedAlways, PTL DEF Spec, DoneIsFinal

-----------------------------------------------------------------------------
(* No scheduled task is forgotten.                                         *)

\* One knowledge base with SYNC tasks only, so that the connector's status, which
\* Listed asks for, follows the one active task; no restarts, database errors or
\* requests but the link; the broker stores a message it is given.
Quiet ==
    /\ MaxStop = 0 /\ MaxDbFault = 0 /\ MaxRequest = 0 /\ MaxCopies > 0
    /\ ~SyncDeletedFiles
    /\ \A j, k \in Kb : j = k

ActiveRow(t) == Has(t, "schedule") \/ Has(t, "running")

\* One active row at a time, and a handler's row is RUNNING.
RowInv ==
    /\ \A t \in DOMAIN logs : logs[t].type = "sync"
    /\ \A t, u : ActiveRow(t) /\ ActiveRow(u) => t = u
    /\ \A w \in Worker : Handling(w) => Has(T(w), "running")
    /\ \A w \in Worker : pc[w] \notin {"counted", "unsure"}

\* Somebody has heard of task t.
Touched(t) ==
    \/ ready[t] > 0
    \/ t \in recent
    \/ t \in request.pub
    \/ \E p \in Proc : t \in timers[p]
    \/ \E v \in Worker : T(v) = t

\* Worker w has completed a run and has yet to announce the next task.
Follows(w) == pc[w] = "next" /\ nextTask[w] # 0

TouchInv ==
    /\ \A t \in TaskId : Touched(t) => t <= created
    /\ request.pub \cap recent = {}
FollowInv ==
    /\ \A w \in Worker : Follows(w) => /\ Has(nextTask[w], "schedule")
                                       /\ conn = "schedule"
                                       /\ ~Touched(nextTask[w])
    /\ \A v, w \in Worker : Follows(v) /\ Follows(w) => v = w

QuietInv == LinksInv /\ Sole /\ RowInv /\ TouchInv /\ FollowInv

LEMMA RowIds == ASSUME DbInv PROVE /\ created \in Nat /\ DOMAIN logs \subseteq 1..created
                                   /\ DOMAIN logs \subseteq TaskId /\ TypeOK
BY SyncTasksAssumption DEF DbInv, TypeOK, TaskId

\* The link creates the first row of the table.
LEMMA FirstLink ==
    ASSUME Quiet, DbInv, LinkedRows, NEW k \in Kb, LinkKb(k)
    PROVE  /\ DOMAIN logs = {}
           /\ DOMAIN logs' = {created + 1} /\ created' = created + 1
           /\ logs'[created + 1].kb = k
           /\ logs'[created + 1].type = "sync"
           /\ logs'[created + 1].status = "schedule"
<1>1. linked = {} /\ DOMAIN logs = {}
  BY DEF Quiet, DbInv, TypeOK, LinkKb, LinkedRows
<1>2. Missing({k}) = {<<k, "sync">>}
  BY <1>1 DEF Missing, Scheduled, Quiet, TypedRows, Rows
<1>3. Cardinality({<<k, "sync">>}) = 1
  BY FS_Singleton
<1>4. created \in Nat /\ created + 1 .. created + 1 = {created + 1}
  BY RowIds
<1>5. ScheduleMissing({<<k, "sync">>}, TRUE)
  BY <1>2 DEF LinkKb
<1>6. DOMAIN logs' = {created + 1} /\ created' = created + 1
  BY <1>1, <1>3, <1>4, <1>5 DEF ScheduleMissing
<1>7. \A t \in DOMAIN logs' \ DOMAIN logs :
                 logs'[t].kb = k /\ logs'[t].type \in Scheduled /\ logs'[t].status = "schedule"
  BY LinkRows
<1> QED BY <1>1, <1>6, <1>7 DEF Scheduled, Quiet

\* The steps of a worker in a quiet system.
QuietStep(w) ==
    \/ Recheck(w) \/ ClaimContext(w) \/ ClaimError(w) \/ GetContext(w) \/ GetContextError(w)
    \/ StartRun(w) \/ LockMiss(w) \/ Complete(w) \/ RunError(w) \/ ScheduleNext(w)
    \/ Unlock(w) \/ Release(w)

LEMMA QuietSteps ==
    ASSUME Quiet, RestOK, LinkedRows, RowInv, NEW w \in Worker, WorkerStep(w)
    PROVE  /\ (\E t \in TaskId : Claim(w, t)) \/ QuietStep(w)
           /\ ~ClaimUnlinked(w) /\ \A t : ~CountUnlinked(t)
<1>1. ~DbFault /\ pc[w] \notin {"counted", "unsure"}
  BY DEF RestOK, Spent, DbFault, Quiet, RowInv
<1>2. \A t : ~CountUnlinked(t)
  BY DEF CountUnlinked, Claimable, Has, LinkedRows
<1> QED BY <1>1, <1>2 DEF WorkerStep, QuietStep, ClaimUnlinked, ClaimRolledBack, LockMissError,
           CompleteLost, At

\* A worker that handles nothing and claims nothing leaves the table alone.
LEMMA IdleRows ==
    ASSUME NEW w \in Worker, QuietStep(w), ~Handling(w)
    PROVE  UNCHANGED dbVars
BY DEF QuietStep, Recheck, ClaimContext, ClaimError, GetContext, GetContextError, StartRun,
   LockMiss, Complete, RunError, ScheduleNext, Unlock, Release, Handling, At

\* A completion in a quiet system: the completed row was the only active one,
\* and the row it inserts takes its place.
LEMMA QuietComplete ==
    ASSUME Quiet, DbInv, JobInv, LinkedRows, RowInv, NEW w \in Worker, Complete(w)
    PROVE  /\ T(w) \in DOMAIN logs /\ created' = created + 1
           /\ DOMAIN logs' = DOMAIN logs \cup {created + 1}
           /\ \A u \in DOMAIN logs :
                 /\ logs'[u].type = "sync"
                 /\ logs'[u].status \notin {"schedule", "running"}
           /\ logs'[created + 1].type = "sync" /\ logs'[created + 1].status = "schedule"
           /\ conn' = "schedule"
           /\ nextTask' = [nextTask EXCEPT ![w] = created + 1]
<1>0. /\ Has(T(w), "running") /\ Completed(T(w), job[w].kb, job[w].type)
      /\ job[w].type = logs[T(w)].type /\ job[w].kb = logs[T(w)].kb
      /\ T(w) \in DOMAIN logs /\ conn # "gone"
      /\ logs[T(w)].type = "sync"
  <2>1. pc[w] = "run"
    BY DEF Complete, At
  <2>2. Has(T(w), "running")
    BY <2>1 DEF RowInv, Handling
  <2> QED BY <2>1, <2>2, CompleteOutcome DEF JobInv, Has, RowInv, LinkedRows
<1>1. \A u \in DOMAIN logs : u # T(w) => logs[u].status \notin {"schedule", "running"}
  BY <1>0 DEF RowInv, ActiveRow, Has
<1>2. TypedRows(job[w].kb, job[w].type, "schedule") = {}
  BY <1>0, <1>1 DEF TypedRows, Rows, Has
<1>3. NextTaskIds(T(w)) = {created + 1}
  BY <1>0, <1>2 DEF NextTaskIds
<1>4. nextTask' = [nextTask EXCEPT ![w] = created + 1]
  BY <1>3 DEF Complete
<1> QED BY <1>0, <1>1, <1>2, <1>4 DEF Completed, RowInv

\* Rows of a handler's update, in a quiet system.
LEMMA QuietUpdate ==
    ASSUME DbInv, JobInv, RowInv, NEW w \in Worker, QuietStep(w), ~Complete(w)
    PROVE  /\ DOMAIN logs' = DOMAIN logs /\ created' = created
           /\ \A u \in DOMAIN logs : logs'[u].type = logs[u].type
           /\ \A u : ActiveRow(u)' => ActiveRow(u)
<1>0. TypeOK /\ (pc[w] # "idle" => T(w) \in TaskId)
  BY DEF DbInv, JobInv
<1>1. CASE GetContextError(w) \/ LockMiss(w) \/ RunError(w)
  <2>1. Handling(w) /\ T(w) \in TaskId
    BY <1>0, <1>1 DEF GetContextError, LockMiss, RunError, At, Handling
  <2>2. \/ RescheduleClaimed(T(w)) \/ HandleTransientFailure(T(w)) \/ UNCHANGED dbVars
        \/ FailTask(T(w), FALSE) \/ FailTask(T(w), TRUE)
    BY <1>1 DEF GetContextError, LockMiss, RunError
  <2>3. logs' = logs \/ \E s : OnlyRow(T(w), s)
    BY <1>0, <2>2, RowOutcome DEF dbVars
  <2>4. InPlace \/ UNCHANGED dbVars
    BY <2>1, <2>2, RescheduleStep, TransientStep, FailStep
  <2>5. /\ DOMAIN logs' = DOMAIN logs /\ created' = created
        /\ \A u \in DOMAIN logs : logs'[u].type = logs[u].type
    BY <2>4 DEF InPlace, dbVars
  <2>6. ActiveRow(T(w))
    BY <2>1 DEF RowInv, ActiveRow
  <2>7. ASSUME NEW u, ActiveRow(u)' PROVE ActiveRow(u)
    <3>1. CASE u = T(w)
      BY <2>6, <3>1
    <3>2. CASE u # T(w)
      <4>1. u \in DOMAIN logs /\ logs'[u].status = logs[u].status
        BY <2>3, <2>5, <2>7, <3>2 DEF OnlyRow, ActiveRow, Has
      <4> QED BY <2>7, <4>1 DEF ActiveRow, Has
    <3> QED BY <3>1, <3>2
  <2> QED BY <2>5, <2>7
<1>2. CASE logs' = logs /\ created' = created
  BY <1>2 DEF ActiveRow, Has
<1> QED BY <1>1, <1>2 DEF QuietStep, Recheck, ClaimContext, MarkConnectorRunning, ClaimError,
           GetContext, StartRun, ScheduleNext, Unlock, Release, dbVars

LEMMA RowsWorker ==
    ASSUME Quiet, DbInv, JobInv, RestOK, LinkedRows, Sole, RowInv, NEW w \in Worker,
           WorkerStep(w)
    PROVE  RowInv'
<1>0. /\ (\E t \in TaskId : Claim(w, t)) \/ QuietStep(w)
      /\ ~ClaimUnlinked(w) /\ \A t : ~CountUnlinked(t)
  BY QuietSteps
<1>1. \A v \in Worker : v # w => /\ pc'[v] = pc[v] /\ T(v)' = T(v)
                                  /\ Handling(v)' = Handling(v)
  BY WorkerOthers DEF RestOK
<1>4. \A v \in Worker : pc'[v] \notin {"counted", "unsure"}
  <2>1. pc \in [Worker -> Label] /\ \A v \in Worker : pc[v] \notin {"counted", "unsure"}
    BY JobInvParts DEF RowInv
  <2>2. pc'[w] \notin {"counted", "unsure"}
    BY <1>0, <2>1 DEF QuietStep, Claim, Recheck, ClaimContext, ClaimError, GetContext,
       GetContextError, StartRun, LockMiss, Complete, RunError, ScheduleNext, Unlock, Release,
       Goto, Leave
  <2> QED BY <1>1, <2>1, <2>2
<1>2. CASE \E t \in TaskId : Claim(w, t)
  <2>1. PICK t \in TaskId : Claim(w, t)
    BY <1>2
  <2>2. pc \in [Worker -> Label] /\ job \in [Worker -> Jobs]
    BY JobInvParts
  <2>3. CASE ClaimTask(t)
    <3>1. Has(t, "schedule") /\ logs' = With({t}, "running") /\ "running" \in Status /\ TypeOK
      BY <2>3 DEF ClaimTask, Claimable, Status, DbInv
    <3>2. /\ DOMAIN logs' = DOMAIN logs
          /\ \A u \in DOMAIN logs : /\ logs'[u].status = IF u = t THEN "running" ELSE logs[u].status
                                    /\ logs'[u].type = logs[u].type
      BY <3>1, WithRows
    <3>3. \A u : ActiveRow(u)' => ActiveRow(u)
      BY <3>1, <3>2 DEF ActiveRow, Has
    <3>4. \A v \in Worker : Handling(v) => T(v) \in DOMAIN logs' /\ logs'[T(v)].status = "running"
      BY <3>2 DEF RowInv, Has
    <3>5. Has(T(w), "running")'
      <4>1. T(w)' = t
        BY <2>1, <2>2 DEF Claim, NoJob, T
      <4>2. t \in DOMAIN logs' /\ logs'[t].status = "running"
        BY <3>1, <3>2 DEF Has
      <4> QED BY <4>1, <4>2 DEF Has
    <3>6. \A v \in Worker : Handling(v)' => Has(T(v), "running")'
      BY <1>1, <3>4, <3>5 DEF Has
    <3> QED BY <1>4, <3>2, <3>3, <3>6 DEF RowInv, Has
  <2>4. CASE pc' = [pc EXCEPT ![w] = "recheck"] /\ UNCHANGED dbVars
    <3>1. ~Handling(w)' /\ logs' = logs
      BY <2>2, <2>4 DEF Handling, dbVars
    <3> QED BY <1>1, <1>4, <3>1 DEF RowInv, ActiveRow, Has
  <2> QED BY <1>0, <2>1, <2>3, <2>4 DEF Claim, Goto
<1>3. CASE ~ \E t \in TaskId : Claim(w, t)
  <2>1. \A u \in DOMAIN logs :
              /\ u \in DOMAIN logs'
              /\ u # T(w) \/ ~Handling(w) => logs'[u].status = logs[u].status
    BY <1>0, <1>3, WorkerRows
  <2>2. ASSUME NEW v \in Worker, Handling(v)' PROVE Has(T(v), "running")'
    <3>1. CASE v = w
      <4>1. /\ Handling(w) /\ T(w)' = T(w)
            /\ logs' = logs \/ Held(w)' = {"done"}
        BY <1>0, <1>3, <2>2, <3>1, HandlerSelf
      <4>2. Held(w)' # {"done"}
        BY <1>4 DEF Held
      <4> QED BY <3>1, <4>1, <4>2 DEF RowInv, Has
    <3>2. CASE v # w
      <4>1. Handling(v) /\ T(v)' = T(v) /\ Has(T(v), "running")
        BY <1>1, <2>2, <3>2 DEF RowInv
      <4>2. T(v) # T(w) \/ ~Handling(w)
        BY <3>2, <4>1 DEF Sole
      <4> QED BY <2>1, <4>1, <4>2 DEF Has
    <3> QED BY <3>1, <3>2
  <2>3. CASE Complete(w)
    BY <1>4, <2>2, <2>3, QuietComplete DEF RowInv, ActiveRow, Has
  <2>4. CASE ~Complete(w)
    BY <1>0, <1>3, <1>4, <2>2, <2>4, QuietUpdate DEF RowInv, Has
  <2> QED BY <2>3, <2>4
<1> QED BY <1>2, <1>3

\* A worker tells the broker and the timers of a task that was known already,
\* or of the next task.
Announces(w, t) == ScheduleNext(w) /\ nextTask[w] \in Listed /\ t = nextTask[w]

LEMMA RecentWorker ==
    ASSUME NEW w \in Worker, WorkerStep(w)
    PROVE  request' = request /\ \A t \in recent' : t \in recent \/ Announces(w, t)
<1>1. CASE ScheduleNext(w)
  BY <1>1 DEF ScheduleNext, Announces, PublishSyncerTasks, Acked, mqVars
<1>2. CASE recent' = recent /\ request' = request
  BY <1>2
<1> QED BY <1>1, <1>2 DEF WorkerStep, Claim, Take, Recheck, ClaimContext, ClaimError, Nack,
           GetContext, GetContextError, StartRun, LockMiss, Acked, Complete, RunError, Unlock,
           Release, ClaimUnlinked, ClaimRolledBack, LockMissError, CompleteLost, mqVars

LEMMA TouchWorker ==
    ASSUME Typed, NEW w \in Worker, WorkerStep(w), NEW t \in TaskId, Touched(t)'
    PROVE  Touched(t) \/ Announces(w, t)
<1>0. /\ JobInv /\ pc \in [Worker -> Label] /\ job \in [Worker -> Jobs]
      /\ ready \in [TaskId -> 0..MaxCopies] /\ timers \in [Proc -> SUBSET TaskId] /\ P(w) \in Proc
      /\ NextOK
  BY JobInvParts, WorkersAssumption DEF Typed, RestOK, BrokerOK, ProcOK, P
<1>1. \A S : More(S)[t] > 0 => ready[t] > 0 \/ t \in S
  BY <1>0, MoreType
<1>2. ASSUME NEW u \in TaskId, Take(u) PROVE ready'[t] > 0 => ready[t] > 0
  BY <1>0, <1>2, WorkersAssumption DEF Take
<1>3. ready'[t] > 0 => ready[t] > 0 \/ t = T(w) \/ Announces(w, t)
  <2>1. ASSUME NEW u \in TaskId, Claim(w, u) PROVE ready'[t] > 0 => ready[t] > 0
    BY <1>2, <2>1 DEF Claim
  <2>2. CASE ClaimRolledBack(w) \/ ClaimError(w) \/ GetContextError(w) \/ RunError(w)
    BY <1>1, <2>2 DEF ClaimRolledBack, ClaimError, GetContextError, RunError, Nack, Acked, mqVars
  <2>3. CASE ScheduleNext(w)
    BY <1>1, <2>3 DEF ScheduleNext, Announces, PublishSyncerTasks, Acked, mqVars
  <2>4. CASE ready' = ready
    BY <2>4
  <2> QED BY <2>1, <2>2, <2>3, <2>4 DEF WorkerStep, Recheck, ClaimContext, GetContext, StartRun,
             LockMiss, Acked, Complete, Unlock, Release, mqVars, ClaimUnlinked, LockMissError,
             CompleteLost
<1>4. t \in recent' => t \in recent \/ Announces(w, t)
  BY RecentWorker
<1>5. request' = request
  BY RecentWorker
<1>6. \A p \in Proc : t \in timers'[p] => t \in timers[p] \/ t = T(w) \/ Announces(w, t)
  <2>1. ASSUME NEW S, Arm(w, S) PROVE \A p \in Proc : t \in timers'[p] => t \in timers[p] \/ t \in S
    BY <1>0, <2>1 DEF Arm
  <2>2. CASE Recheck(w) \/ LockMiss(w) \/ LockMissError(w) \/ RunError(w)
    <3>1. Arm(w, {T(w)}) \/ timers' = timers
      BY <2>2 DEF Recheck, LockMiss, LockMissError, RunError
    <3> QED BY <2>1, <3>1
  <2>3. CASE ScheduleNext(w)
    <3>1. (nextTask[w] \in Listed /\ Arm(w, {nextTask[w]})) \/ timers' = timers
      BY <2>3 DEF ScheduleNext
    <3> QED BY <2>1, <2>3, <3>1 DEF Announces
  <2>4. CASE timers' = timers
    BY <2>4
  <2> QED BY <2>2, <2>3, <2>4 DEF WorkerStep, Claim, ClaimContext, ClaimError, GetContext,
             GetContextError, StartRun, Complete, Unlock, Release, ClaimUnlinked,
             ClaimRolledBack, CompleteLost, procVars
<1>7. \A v \in Worker : T(v)' = t => Touched(t)
  <2>1. \A v \in Worker : v # w => T(v)' = T(v)
    BY <1>0, WorkerOthers
  <2>2. T(w)' = t => T(w) = t \/ ready[t] > 0
    <3>1. ASSUME NEW u \in TaskId, Claim(w, u) PROVE T(w)' = t => ready[t] > 0
      <4>1. T(w)' = u
        BY <1>0, <3>1 DEF Claim, NoJob, T
      <4> QED BY <3>1, <4>1 DEF Claim
    <3>2. ASSUME Leave(w) PROVE T(w)' # t
      BY <1>0, <3>2 DEF Leave, NoJob, T, TaskId
    <3>3. CASE GetContext(w)
      BY <1>0, <3>3 DEF GetContext, T, Jobs
    <3>4. CASE job' = job
      BY <3>4 DEF T
    <3> QED BY <3>1, <3>2, <3>3, <3>4 DEF WorkerStep, Recheck, ClaimContext, ClaimError,
               GetContextError, StartRun, LockMiss, Complete, RunError, ScheduleNext, Unlock,
               Release, ClaimUnlinked, ClaimRolledBack, LockMissError, CompleteLost
  <2> QED BY <2>1, <2>2 DEF Touched
<1> QED BY <1>3, <1>4, <1>5, <1>6, <1>7 DEF Touched

\* Steps of the others, in a quiet system.
Still ==
    \/ \E p \in Proc, u \in TaskId : TimerFires(p, u)
    \/ \E k \in Kb : KeyExpires(k)
    \/ \E u \in TaskId : ForgetMsgId(u)
    \/ Tick
    \/ ApiPublish
    \/ UNCHANGED vars

LEMMA TouchOthers ==
    ASSUME Typed, NEW t \in TaskId, Touched(t)', Still PROVE Touched(t)
<1>0. /\ ready \in [TaskId -> 0..MaxCopies] /\ timers \in [Proc -> SUBSET TaskId]
  BY DEF Typed, RestOK, BrokerOK, ProcOK
<1>1. \A S : More(S)[t] > 0 => ready[t] > 0 \/ t \in S
  BY <1>0, MoreType
<1>2. \A v \in Worker : T(v)' = T(v)
  BY DEF Still, TimerFires, KeyExpires, ForgetMsgId, Tick, ApiPublish, vars, workVars, workersIdle, T
<1>3. ASSUME NEW p \in Proc, NEW u \in TaskId, TimerFires(p, u) PROVE Touched(t)
  <2>1. /\ u \in timers[p] /\ timers' = [timers EXCEPT ![p] = @ \ {u}]
        /\ ready' = More({u}) /\ recent' = recent /\ request' = request
    BY <1>3 DEF TimerFires, PublishSyncerTaskWakeup
  <2>2. \A q \in Proc : timers'[q] \subseteq timers[q]
    BY <1>0, <2>1
  <2> QED BY <1>1, <1>2, <2>1, <2>2 DEF Touched
<1>4. CASE ApiPublish
  <2>1. /\ ready' = More(request.pub \ recent) /\ recent' = recent \cup request.pub
        /\ request' = Idle /\ timers' = timers
    BY <1>4 DEF ApiPublish, PublishSyncerTasks, workersIdle, procVars
  <2> QED BY <1>1, <1>2, <2>1 DEF Touched, Idle
<1>5. CASE UNCHANGED <<ready, request, timers>> /\ recent' \subseteq recent
  BY <1>2, <1>5 DEF Touched
<1> QED BY <1>3, <1>4, <1>5 DEF Still, KeyExpires, ForgetMsgId, Tick, vars, mqVars, procVars

LEMMA QuietKinds ==
    ASSUME Quiet, RestOK, LinksInv, Sole, [Next]_vars
    PROVE  (\E w \in Worker : WorkerStep(w)) \/ (\E k \in Kb : ApiLink(k)) \/ Still
<1>1. ~DbFault /\ MaxRequest = 0 /\ MaxStop = 0 /\ request.step \in {"none", "publish"}
  BY DEF RestOK, Spent, DbFault, Quiet, LinksInv
<1>2. \A p \in Proc : ~Stop(p) /\ ~Crash(p)
  BY <1>1, WorkersAssumption DEF RestOK, Spent, StopOnce, Stop, Crash
<1> QED BY <1>1, <1>2, OnlyLinks, OnlyTimers DEF Next, Redeliver, Still

LEMMA StillWorkers == ASSUME Still PROVE UNCHANGED <<dbVars, pc, job, nextTask, proc>>
BY DEF Still, TimerFires, KeyExpires, ForgetMsgId, Tick, ApiPublish, vars, workVars, workersIdle,
   procVars

LEMMA RowInvStep ==
    ASSUME Quiet, Typed, LinksInv, Sole, RowInv, [Next]_vars PROVE RowInv'
<1>0. DbInv /\ JobInv /\ RestOK /\ NextOK /\ LinkedRows
  BY DEF Typed, RestOK, LinksInv
<1>1. ASSUME NEW w \in Worker, WorkerStep(w) PROVE RowInv'
  BY <1>0, <1>1, RowsWorker
<1>2. ASSUME NEW k \in Kb, ApiLink(k) PROVE RowInv'
  <2>1. /\ DOMAIN logs = {} /\ DOMAIN logs' = {created + 1}
        /\ logs'[created + 1].type = "sync"
    BY <1>0, <1>2, FirstLink DEF ApiLink
  <2>2. pc' = pc /\ \A w \in Worker : ~Handling(w)
    BY <1>2, <2>1 DEF ApiLink, workersIdle, workVars, RowInv, Has
  <2> QED BY <2>1, <2>2 DEF RowInv, Handling, ActiveRow, Has
<1>3. CASE Still
  BY <1>3, StillWorkers DEF RowInv, Handling, ActiveRow, Has, T, dbVars
<1> QED BY <1>0, <1>1, <1>2, <1>3, QuietKinds

\* The next task is announced by the worker that follows with it, untouched so far.
LEMMA AnnouncesNew ==
    ASSUME DbInv, FollowInv, NEW w \in Worker, NEW t, Announces(w, t)
    PROVE  Follows(w) /\ ~Touched(t) /\ t \in DOMAIN logs /\ t \in TaskId
<1>1. t \in DOMAIN logs /\ t = nextTask[w] /\ pc[w] = "next"
  BY DEF Announces, Listed, ScheduleNext, At
<1>2. t # 0 /\ t \in TaskId
  BY <1>1, RowIds
<1> QED BY <1>1, <1>2 DEF FollowInv, Follows

LEMMA TouchInvStep ==
    ASSUME Quiet, Typed, QuietInv, [Next]_vars PROVE TouchInv'
<1>0. /\ DbInv /\ JobInv /\ RestOK /\ LinksInv /\ LinkedRows /\ Sole /\ TouchInv /\ FollowInv
      /\ RowsKept /\ created \in Nat /\ DOMAIN logs \subseteq 1..created
      /\ created' \in Nat /\ created <= created'
      /\ \A t \in TaskId : t \in Nat
  BY NextUsesDb, DbStepKeepsRows, RowIds, SyncTasksAssumption
     DEF Typed, QuietInv, LinksInv, RowsKept, TaskId
<1>1. ASSUME NEW w \in Worker, WorkerStep(w) PROVE TouchInv'
  <2>1. ASSUME NEW t \in TaskId, Touched(t)' PROVE t <= created'
    <3>1. t <= created
      BY <1>0, <1>1, <2>1, TouchWorker, AnnouncesNew DEF TouchInv
    <3> QED BY <1>0, <3>1
  <2>2. request' = request /\ \A t \in recent' : t \in recent \/ Announces(w, t)
    BY <1>1, RecentWorker
  <2>3. request.pub \cap recent' = {}
    BY <1>0, <2>2, AnnouncesNew DEF TouchInv, Touched
  <2> QED BY <2>1, <2>2, <2>3 DEF TouchInv
<1>2. ASSUME NEW k \in Kb, ApiLink(k) PROVE TouchInv'
  <2>1. DOMAIN logs' = {created + 1} /\ created' = created + 1
    BY <1>0, <1>2, FirstLink DEF ApiLink
  <2>2. /\ request'.pub \subseteq {created + 1}
        /\ UNCHANGED <<ready, recent, timers, job>>
    BY <1>2, <2>1 DEF ApiLink, Idle, Rows, workersIdle, workVars, procVars, mqVars
  <2>3. \A t \in TaskId : Touched(t)' => Touched(t) \/ t = created + 1
    BY <2>2 DEF Touched, T
  <2>4. recent \subseteq TaskId
    BY <1>0 DEF RestOK, BrokerOK
  <2>5. created + 1 \notin recent
    BY <1>0, <2>4 DEF TouchInv, Touched
  <2>6. \A t \in TaskId : Touched(t)' => t <= created'
    BY <1>0, <2>1, <2>3 DEF TouchInv
  <2> QED BY <2>2, <2>5, <2>6 DEF TouchInv
<1>3. CASE Still
  <2>1. \A t \in TaskId : Touched(t)' => t <= created'
    BY <1>0, <1>3, TouchOthers DEF TouchInv
  <2>2. (request' = request /\ recent' \subseteq recent) \/ request'.pub = {}
    <3>1. ASSUME NEW t \in TaskId, ForgetMsgId(t) PROVE request' = request /\ recent' \subseteq recent
      BY <3>1 DEF ForgetMsgId
    <3>2. CASE ApiPublish
      BY <3>2 DEF ApiPublish, Idle
    <3> QED BY <1>3, <3>1, <3>2 DEF Still, TimerFires, PublishSyncerTaskWakeup, KeyExpires, Tick,
               vars, mqVars
  <2> QED BY <1>0, <2>1, <2>2 DEF TouchInv
<1> QED BY <1>0, <1>1, <1>2, <1>3, QuietKinds

LEMMA FollowInvStep ==
    ASSUME Quiet, Typed, QuietInv, [Next]_vars PROVE FollowInv'
<1>0. /\ DbInv /\ JobInv /\ RestOK /\ NextOK /\ LinksInv /\ LinkedRows /\ Sole
      /\ TouchInv /\ FollowInv /\ RowInv
      /\ created \in Nat /\ DOMAIN logs \subseteq TaskId
      /\ \A u, v \in Worker : Follows(u) /\ Follows(v) => u = v
  BY RowIds DEF Typed, RestOK, QuietInv, LinksInv, FollowInv
<1>1. ASSUME NEW w \in Worker, WorkerStep(w) PROVE FollowInv'
  <2>0. /\ \A v \in Worker : v # w => Follows(v)' = Follows(v) /\ nextTask'[v] = nextTask[v]
        /\ pc \in [Worker -> Label] /\ nextTask \in [Worker -> 0..MaxTask]
    <3>1. \A v \in Worker : v # w => pc'[v] = pc[v] /\ nextTask'[v] = nextTask[v]
      BY <1>0, <1>1, WorkerOthers
    <3> QED BY <1>0, <3>1, JobInvParts DEF Follows, NextOK
  <2>1. CASE Complete(w)
    <3>1. /\ nextTask' = [nextTask EXCEPT ![w] = created + 1] /\ conn' = "schedule"
          /\ created + 1 \in DOMAIN logs' /\ logs'[created + 1].status = "schedule"
          /\ T(w) \in DOMAIN logs
      BY <1>0, <2>1, QuietComplete
    <3>2. nextTask'[w] = created + 1
      BY <2>0, <3>1
    <3>3. created + 1 \in TaskId
      <4>1. DbInv'
        BY <1>0, NextUsesDb, DbInvStep
      <4> QED BY <3>1, <4>1, SyncTasksAssumption DEF DbInv, TypeOK, TaskId
    <3>4. \A t : ~Announces(w, t)
      BY <2>1 DEF Complete, At, Announces, ScheduleNext
    <3>5. ASSUME Touched(nextTask[w])' PROVE FALSE
      <4>0. PICK n : n = created + 1
        OBVIOUS
      <4>1. Touched(n)'
        BY <3>2, <3>5, <4>0 DEF Touched, T
      <4>2. Touched(n)
        BY <1>1, <3>3, <3>4, <4>0, <4>1, TouchWorker
      <4> QED BY <1>0, <3>3, <4>0, <4>2 DEF TouchInv
    <3>6. Has(nextTask[w], "schedule")'
      BY <3>1, <3>2 DEF Has
    <3>7. \A v \in Worker : ~Follows(v)
      <4>1. Has(T(w), "running")
        BY <1>0, <2>1 DEF RowInv, Handling, Complete, At
      <4> QED BY <1>0, <4>1 DEF FollowInv, RowInv, ActiveRow, Has
    <3> QED BY <2>0, <3>1, <3>5, <3>6, <3>7 DEF FollowInv
  <2>2. CASE ~Complete(w)
    <3>0. /\ (\E t \in TaskId : Claim(w, t)) \/ QuietStep(w)
          /\ ~ClaimUnlinked(w) /\ \A t : ~CountUnlinked(t)
      BY <1>0, <1>1, QuietSteps
    <3>1. Follows(w)' => FALSE
      BY <2>0, <2>2, <3>0 DEF Follows, QuietStep, Claim, Recheck, ClaimContext, ClaimError,
         GetContext, GetContextError, StartRun, LockMiss, RunError, ScheduleNext, Unlock,
         Release, Goto, Leave
    <3>2. ASSUME NEW v \in Worker, Follows(v)'
          PROVE  Has(nextTask[v], "schedule")' /\ conn' = "schedule" /\ ~Touched(nextTask[v])'
      <4>0. v # w /\ Follows(v) /\ nextTask'[v] = nextTask[v]
        BY <2>0, <3>1, <3>2
      <4>1. PICK n : n = nextTask[v]
        OBVIOUS
      <4>2. Has(n, "schedule") /\ conn = "schedule" /\ ~Touched(n) /\ n \in TaskId
        BY <1>0, <4>0, <4>1 DEF FollowInv, Has
      <4>3. UNCHANGED dbVars
        <5>1. ASSUME NEW t \in TaskId, Claim(w, t) PROVE UNCHANGED dbVars
          <6>1. t # n
            BY <4>2, <5>1 DEF Claim, Touched
          <6>2. ~Has(t, "schedule")
            BY <1>0, <4>2, <6>1 DEF RowInv, ActiveRow
          <6> QED BY <3>0, <5>1, <6>2 DEF Claim, ClaimTask, Claimable
        <5>2. ~Handling(w)
          BY <1>0, <4>2 DEF RowInv, ActiveRow, Has
        <5> QED BY <3>0, <5>1, <5>2, IdleRows
      <4>4. ~Announces(w, n)
        BY <1>0, <4>0, AnnouncesNew
      <4>5. ASSUME Touched(nextTask[v])' PROVE FALSE
        <5>1. Touched(n)'
          BY <4>0, <4>1, <4>5 DEF Touched, T
        <5> QED BY <1>1, <4>2, <4>4, <5>1, TouchWorker
      <4>6. Has(nextTask[v], "schedule")' /\ conn' = "schedule"
        BY <4>0, <4>1, <4>2, <4>3 DEF Has, dbVars
      <4> QED BY <4>5, <4>6
    <3>3. \A u, v \in Worker : Follows(u)' /\ Follows(v)' => u = v
      BY <1>0, <2>0, <3>1
    <3> QED BY <3>2, <3>3 DEF FollowInv
  <2> QED BY <2>1, <2>2
<1>2. ASSUME NEW k \in Kb, ApiLink(k) PROVE FollowInv'
  <2>1. DOMAIN logs = {}
    BY <1>0, <1>2, FirstLink DEF ApiLink
  <2>2. \A v \in Worker : ~Follows(v)
    BY <1>0, <2>1 DEF FollowInv, Has
  <2>3. \A v \in Worker : ~Follows(v)'
    BY <1>2, <2>2 DEF ApiLink, workersIdle, workVars, Follows
  <2> QED BY <2>3 DEF FollowInv
<1>3. CASE Still
  <2>1. UNCHANGED <<dbVars, pc, nextTask>>
    BY <1>3, StillWorkers
  <2>2. ASSUME NEW v \in Worker, Follows(v)'
        PROVE  Has(nextTask[v], "schedule")' /\ conn' = "schedule" /\ ~Touched(nextTask[v])'
    <3>1. PICK n : n = nextTask[v]
      OBVIOUS
    <3>2. Has(n, "schedule") /\ conn = "schedule" /\ ~Touched(n) /\ n \in TaskId
      BY <1>0, <2>1, <2>2, <3>1 DEF FollowInv, Follows, Has
    <3>3. ASSUME Touched(nextTask[v])' PROVE FALSE
      <4>1. Touched(n)'
        BY <2>1, <3>1, <3>3 DEF Touched, T
      <4> QED BY <1>3, <3>2, <4>1, TouchOthers
    <3>4. Has(nextTask[v], "schedule")' /\ conn' = "schedule"
      BY <2>1, <3>1, <3>2 DEF Has, dbVars
    <3> QED BY <3>3, <3>4
  <2>3. \A u, v \in Worker : Follows(u)' /\ Follows(v)' => u = v
    BY <1>0, <2>1 DEF Follows
  <2> QED BY <2>2, <2>3 DEF FollowInv
<1> QED BY <1>0, <1>1, <1>2, <1>3, QuietKinds

\* Worker v will look after task t.
Minds(v, t) ==
    \/ T(v) = t /\ pc[v] \in {"counted", "recheck", "claimed", "context", "lock", "run"}
    \/ nextTask[v] = t /\ pc[v] = "next"

LEMMA WokenKept ==
    ASSUME Sole, RestOK, NEW t \in TaskId, Woken(t),
           ready'[t] >= ready[t], request' = request, ready' \in [TaskId -> 0..MaxCopies],
           \A p \in Proc : t \in timers[p] => t \in timers'[p],
           \A v \in Worker : Minds(v, t) => Minds(v, t)'
    PROVE  Woken(t)'
<1>1. \A p \in Proc : proc[p] = "up"
  BY DEF Sole
<1>2. Woken(t) => \/ ready[t] > 0 \/ t \in request.pub \/ (\E p \in Proc : t \in timers[p])
                  \/ \E v \in Worker : Minds(v, t)
  BY <1>1 DEF Woken, Minds
<1>3. (\E v \in Worker : Minds(v, t)') => Woken(t)'
  BY DEF Woken, Minds
<1>4. ready[t] > 0 => ready'[t] > 0
  BY WorkersAssumption DEF RestOK, BrokerOK
<1> QED BY <1>2, <1>3, <1>4 DEF Woken

LEMMA WakeWorker ==
    ASSUME Quiet, Typed, Typed', QuietInv, NoLostWakeup, NEW w \in Worker, WorkerStep(w),
           NEW t, Has(t, "schedule")'
    PROVE  Woken(t)'
<1>0. /\ DbInv /\ JobInv /\ RestOK /\ NextOK /\ LinkedRows /\ Sole /\ RowInv /\ TouchInv /\ FollowInv
      /\ pc \in [Worker -> Label] /\ job \in [Worker -> Jobs]
      /\ ready \in [TaskId -> 0..MaxCopies] /\ ready' \in [TaskId -> 0..MaxCopies]
      /\ timers \in [Proc -> SUBSET TaskId] /\ nextTask \in [Worker -> 0..MaxTask]
      /\ P(w) \in Proc /\ proc[P(w)] = "up"
      /\ pc[w] # "idle" => T(w) \in TaskId
  BY JobInvParts, WorkersAssumption
     DEF Typed, RestOK, QuietInv, LinksInv, BrokerOK, ProcOK, NextOK, Sole, P, JobInv
<1>1. /\ Alive(w) /\ ~Stopping(w) /\ ~DbFault
      /\ (\E u \in TaskId : Claim(w, u)) \/ QuietStep(w)
      /\ ~ClaimUnlinked(w) /\ \A u : ~CountUnlinked(u)
      /\ pc[w] # "unsure"
  BY <1>0, QuietSteps DEF Alive, Stopping, RestOK, Spent, DbFault, Quiet, RowInv
<1>2. Has(t, "schedule") => Woken(t) /\ t \in TaskId
  BY <1>0, RowIds DEF NoLostWakeup, HasContext, LinkedRows, Has
<1>3. \A v \in Worker : v # w /\ Minds(v, t) => Minds(v, t)'
  BY <1>0, WorkerOthers DEF Minds
<1>4. request' = request
  BY RecentWorker
<1>5. ASSUME Arm(w, {t}) PROVE Woken(t)'
  <2>1. t \in timers'[P(w)]
    BY <1>0, <1>5 DEF Arm
  <2> QED BY <1>0, <2>1 DEF Woken
<1>6. ASSUME Arm(w, {T(w)}) \/ timers' = timers PROVE \A p \in Proc : timers[p] \subseteq timers'[p]
  BY <1>0, <1>6 DEF Arm
<1>7. ASSUME NEW u \in TaskId, Claim(w, u) PROVE Woken(t)'
  <2>1. pc'[w] \in {"claimed", "recheck"} /\ T(w)' = u
    BY <1>0, <1>1, <1>7 DEF Claim, Goto, NoJob, T
  <2>2. CASE u = t
    BY <2>1, <2>2 DEF Woken
  <2>3. CASE u # t
    <3>1. Has(t, "schedule")
      <4>1. logs' = logs \/ logs' = With({u}, "running")
        BY <1>1, <1>7 DEF Claim, ClaimTask, dbVars
      <4> QED BY <2>3, <4>1 DEF Has, With
    <3>2. ready'[t] = ready[t] /\ timers' = timers
      BY <1>0, <1>2, <1>7, <2>3, <3>1 DEF Claim, Take, procVars
    <3>3. ~Minds(w, t)
      BY <1>7 DEF Claim, Minds
    <3>4. ready'[t] >= ready[t]
      BY <1>0, <1>2, <3>1, <3>2, WorkersAssumption
    <3> QED BY <1>0, <1>2, <1>3, <1>4, <3>1, <3>2, <3>3, <3>4, WokenKept
  <2> QED BY <2>2, <2>3
<1>8. CASE Handling(w)
  <2>0. /\ Has(T(w), "running") /\ T(w) \in DOMAIN logs /\ T(w) \in TaskId
        /\ HasContext(T(w))
    BY <1>0, <1>8 DEF RowInv, Has, Handling, HasContext, LinkedRows
  <2>1. ~Has(t, "schedule")
    BY <1>0, <2>0 DEF RowInv, ActiveRow, Has
  <2>2. logs' # logs
    BY <2>1 DEF Has
  <2>3. ASSUME t # T(w), ~Complete(w) PROVE FALSE
    <3>1. ~ \E u \in TaskId : Claim(w, u)
      BY <1>8 DEF Claim, Handling
    <3>2. DOMAIN logs' = DOMAIN logs
      BY <1>0, <1>1, <2>3, <3>1, QuietUpdate
    <3> QED BY <1>0, <1>1, <2>1, <2>3, <3>1, <3>2, WorkerRows DEF Has
  <2>4. CASE LockMiss(w)
    <3>1. ~Complete(w)
      BY <2>4 DEF LockMiss, Complete, At
    <3> QED BY <1>1, <1>5, <2>3, <2>4, <3>1 DEF LockMiss
  <2>5. CASE RunError(w)
    <3>1. ~Complete(w)
      BY <1>0, <2>5 DEF RunError, Complete, Goto
    <3>2. t = T(w)
      BY <2>3, <3>1
    <3>3. ~FailTask(T(w), TRUE)
      <4>1. ASSUME FailTask(T(w), TRUE) PROVE ~Has(t, "schedule")'
        BY <1>0, <2>0, <3>2, <4>1, RowOutcome, RowIds DEF OnlyRow, Has
      <4> QED BY <4>1
    <3>4. ~Has(T(w), "cancel")
      BY <2>0 DEF Has
    <3>5. HandleTransientFailure(T(w)) /\ ~(Has(T(w), "running") /\ AfterTransient(T(w)) = "fail")
          => Woken(t)'
      BY <1>1, <1>5, <2>5, <3>2, <3>3, <3>4 DEF RunError
    <3>6. HandleTransientFailure(T(w)) => AfterTransient(T(w)) # "fail"
      <4>1. ASSUME HandleTransientFailure(T(w)), AfterTransient(T(w)) = "fail"
            PROVE  ~Has(t, "schedule")'
        BY <1>0, <2>0, <3>2, <4>1, RowOutcome, RowIds DEF OnlyRow, Has
      <4> QED BY <4>1
    <3> QED BY <1>1, <2>5, <3>3, <3>4, <3>5, <3>6 DEF RunError
  <2>6. CASE Complete(w)
    <3>1. /\ DOMAIN logs' = DOMAIN logs \cup {created + 1}
          /\ \A u \in DOMAIN logs : logs'[u].status \notin {"schedule", "running"}
          /\ nextTask' = [nextTask EXCEPT ![w] = created + 1]
      BY <1>0, <2>6, QuietComplete
    <3>2. t = created + 1
      BY <3>1 DEF Has
    <3>3. nextTask'[w] = t /\ pc'[w] = "next"
      BY <1>0, <2>6, <3>1, <3>2 DEF Complete, Goto
    <3> QED BY <3>3 DEF Woken
  <2>7. CASE GetContextError(w)
    BY <1>1, <2>0, <2>7 DEF GetContextError
  <2>8. \/ LockMiss(w) \/ RunError(w) \/ Complete(w) \/ GetContextError(w)
    BY <1>1, <1>8, <2>2 DEF QuietStep, Claim, Recheck, ClaimContext, MarkConnectorRunning, ClaimError,
       GetContext, StartRun, ScheduleNext, Unlock, Release, At, Handling, dbVars
  <2> QED BY <2>4, <2>5, <2>6, <2>7, <2>8
<1>9. CASE ~Handling(w) /\ ~ \E u \in TaskId : Claim(w, u)
  <2>0. UNCHANGED dbVars
    BY <1>1, <1>9, IdleRows
  <2>1. Has(t, "schedule") /\ Woken(t) /\ t \in TaskId /\ HasContext(t)
    BY <1>0, <1>2, <2>0 DEF Has, HasContext, LinkedRows, dbVars
  <2>2. CASE Recheck(w)
    <3>1. CASE T(w) = t
      BY <1>1, <1>5, <2>1, <2>2, <3>1 DEF Recheck
    <3>2. CASE T(w) # t
      <4>1. ready' = ready /\ \A p \in Proc : timers[p] \subseteq timers'[p]
        BY <1>6, <2>2 DEF Recheck, mqVars
      <4>2. ~Minds(w, t)
        BY <2>2, <3>2 DEF Recheck, At, Minds
      <4>3. ready'[t] >= ready[t]
        BY <1>0, <2>1, <4>1, WorkersAssumption
      <4> QED BY <1>0, <1>3, <1>4, <2>1, <4>1, <4>2, <4>3, WokenKept
    <3> QED BY <3>1, <3>2
  <2>3. CASE ScheduleNext(w)
    <3>1. pc[w] = "next" /\ BrokerOK
      BY <1>0, <2>3 DEF ScheduleNext, At, RestOK
    <3>2. \/ /\ nextTask[w] \in Listed /\ timers' = timers
             /\ ready' = More({nextTask[w]} \ recent)
          \/ nextTask[w] \in Listed /\ Arm(w, {nextTask[w]}) /\ ready' = ready
          \/ ~(nextTask[w] \in Listed /\ Alive(w)) /\ ready' = ready /\ timers' = timers
      BY <1>1, <2>3 DEF ScheduleNext, PublishSyncerTasks, Acked, mqVars
    <3>3. CASE nextTask[w] = t
      <4>1. Follows(w)
        BY <2>1, <3>1, <3>3 DEF Follows, TaskId
      <4>2. t \in Listed /\ t \notin recent
        BY <1>0, <2>1, <3>3, <4>1 DEF FollowInv, Listed, Touched, Has
      <4>3. CASE Arm(w, {nextTask[w]})
        BY <1>5, <3>3, <4>3
      <4>4. CASE ready' = More({nextTask[w]} \ recent)
        <5>1. ready'[t] > 0
          BY <1>0, <2>1, <3>3, <4>2, <4>4, MoreType DEF Quiet
        <5> QED BY <5>1 DEF Woken
      <4> QED BY <1>1, <3>2, <3>3, <4>2, <4>3, <4>4
    <3>4. CASE nextTask[w] # t
      <4>1. ready'[t] >= ready[t]
        BY <1>0, <2>1, <3>2, MoreType, WorkersAssumption
      <4>2. \A p \in Proc : timers[p] \subseteq timers'[p]
        BY <1>0, <3>2 DEF Arm
      <4>3. ~Minds(w, t)
        BY <3>1, <3>4 DEF Minds
      <4> QED BY <1>0, <1>3, <1>4, <2>1, <4>1, <4>2, <4>3, WokenKept
    <3> QED BY <3>3, <3>4
  <2>4. CASE Unlock(w) \/ Release(w)
    <3>1. ready' = ready /\ timers' = timers /\ ~Minds(w, t)
      BY <2>4 DEF Unlock, Release, At, Minds, mqVars, procVars
    <3>2. ready'[t] >= ready[t]
      BY <1>0, <2>1, <3>1, WorkersAssumption
    <3> QED BY <1>0, <1>3, <1>4, <2>1, <3>1, <3>2, WokenKept
  <2> QED BY <1>1, <1>9, <2>2, <2>3, <2>4 DEF QuietStep, ClaimContext, ClaimError, GetContext,
             GetContextError, StartRun, LockMiss, Complete, RunError, At, Handling
<1> QED BY <1>7, <1>8, <1>9

LEMMA WakeStep ==
    ASSUME Quiet, Typed, QuietInv, NoLostWakeup, [Next]_vars PROVE NoLostWakeup'
<1> SUFFICES ASSUME NEW t, Has(t, "schedule")' PROVE Woken(t)'
  BY DEF NoLostWakeup
<1>0. /\ DbInv /\ JobInv /\ RestOK /\ LinksInv /\ LinkedRows /\ Sole /\ TouchInv /\ Typed'
      /\ ready \in [TaskId -> 0..MaxCopies] /\ ready' \in [TaskId -> 0..MaxCopies]
      /\ timers \in [Proc -> SUBSET TaskId]
  BY TypedStep DEF Typed, QuietInv, LinksInv, RestOK, BrokerOK, ProcOK
<1>1. ASSUME NEW w \in Worker, WorkerStep(w) PROVE Woken(t)'
  BY <1>0, <1>1, WakeWorker
<1>2. ASSUME NEW k \in Kb, ApiLink(k) PROVE Woken(t)'
  <2>1. DOMAIN logs' = {created + 1} /\ logs'[created + 1].kb = k
    BY <1>0, <1>2, FirstLink DEF ApiLink
  <2>2. t \in request'.pub
    BY <1>2, <2>1 DEF ApiLink, Idle, Rows, Has
  <2> QED BY <2>2 DEF Woken
<1>3. CASE Still
  <2>1. /\ UNCHANGED <<dbVars, pc, job, nextTask, proc>>
        /\ \A v \in Worker : Minds(v, t) => Minds(v, t)'
    BY <1>3, StillWorkers DEF Minds, T
  <2>2. Has(t, "schedule") /\ t \in TaskId /\ Woken(t)
    BY <1>0, <2>1, RowIds DEF NoLostWakeup, HasContext, LinkedRows, Has, dbVars
  <2>3. \A S : More(S)[t] >= ready[t] /\ (t \in S => More(S)[t] > 0)
    BY <1>0, <2>2, MoreType DEF Quiet
  <2>4. ASSUME NEW p \in Proc, NEW u \in TaskId, TimerFires(p, u) PROVE Woken(t)'
    <3>1. /\ ready' = More({u}) /\ request' = request
          /\ timers' = [timers EXCEPT ![p] = @ \ {u}]
      BY <2>4 DEF TimerFires, PublishSyncerTaskWakeup
    <3>2. CASE u = t
      <4>1. ready'[t] > 0
        BY <2>3, <3>1, <3>2
      <4> QED BY <4>1 DEF Woken
    <3>3. CASE u # t
      <4>1. \A q \in Proc : t \in timers[q] => t \in timers'[q]
        BY <1>0, <3>1, <3>3
      <4> QED BY <1>0, <2>1, <2>2, <2>3, <3>1, <4>1, WokenKept
    <3> QED BY <3>2, <3>3
  <2>5. CASE ApiPublish
    <3>1. ready' = More(request.pub \ recent) /\ timers' = timers
      BY <2>5 DEF ApiPublish, PublishSyncerTasks, workersIdle, procVars
    <3>2. CASE t \in request.pub
      <4>1. ready'[t] > 0
        BY <1>0, <2>3, <3>1, <3>2 DEF TouchInv
      <4> QED BY <4>1 DEF Woken
    <3>3. CASE ready[t] > 0
      <4>0. ready'[t] \in 0..MaxCopies /\ ready[t] \in 0..MaxCopies
        BY <1>0, <2>2
      <4>1. ready'[t] \in Nat /\ ready[t] \in Nat /\ ready'[t] >= ready[t]
        BY <2>3, <3>1, <4>0, WorkersAssumption
      <4>2. ready'[t] > 0
        BY <3>3, <4>1
      <4> QED BY <4>2 DEF Woken
    <3>4. CASE t \notin request.pub /\ ~(ready[t] > 0)
      <4>1. (\E p \in Proc : t \in timers[p]) \/ \E v \in Worker : Minds(v, t)
        BY <1>0, <2>2, <3>4 DEF Woken, Minds, Sole
      <4> QED BY <2>1, <3>1, <4>1 DEF Woken, Minds
    <3> QED BY <3>2, <3>3, <3>4
  <2>6. CASE UNCHANGED <<ready, request, timers>>
    <3>1. ready'[t] >= ready[t]
      BY <1>0, <2>2, <2>6, WorkersAssumption
    <3> QED BY <1>0, <2>1, <2>2, <2>6, <3>1, WokenKept
  <2> QED BY <1>3, <2>4, <2>5, <2>6 DEF Still, KeyExpires, ForgetMsgId, Tick, vars, mqVars, procVars
<1> QED BY <1>0, <1>1, <1>2, <1>3, QuietKinds

\* A scheduled task always has a message, a timer, a handler or a request that
\* will wake it, for any processes, workers, rows and source errors, in a quiet
\* system: every way a handler ends (a refused lock, a retry, a completion) arms
\* a timer or publishes, and the stream drops none of those messages as a
\* duplicate.
THEOREM NoLostWakeupAlways ==
    ASSUME Quiet
    PROVE  Spec => []NoLostWakeup
<1>1. Init => QuietInv /\ NoLostWakeup
  <2>1. ASSUME Init PROVE QuietInv /\ NoLostWakeup
    <3>1. LinksInv /\ Sole
      BY <2>1 DEF Init, DbInit, LinksInv, LinkedRows, Idle, Sole, HandlerOf, Handling
    <3>2. RowInv /\ FollowInv /\ NoLostWakeup
      BY <2>1 DEF Init, DbInit, RowInv, ActiveRow, Handling, Has, FollowInv, Follows, NoLostWakeup
    <3>3. \A t \in TaskId : ~Touched(t)
      BY <2>1 DEF Init, Touched, Idle, NoJob, T, TaskId
    <3>4. recent = {}
      BY <2>1 DEF Init
    <3> QED BY <3>1, <3>2, <3>3, <3>4 DEF QuietInv, TouchInv
  <2> QED BY <2>1
<1>2. Typed /\ QuietInv /\ NoLostWakeup /\ [Next]_vars => (QuietInv /\ NoLostWakeup)'
  <2>1. ASSUME Typed, QuietInv, NoLostWakeup, [Next]_vars PROVE (QuietInv /\ NoLostWakeup)'
    <3>1. LinksInv' /\ Sole' /\ RowInv'
      <4>1. spent'.stop = 0
        BY <2>1, TypedStep DEF Typed, RestOK, Spent, Quiet
      <4> QED BY <2>1, <4>1, LinksStep, SoleStep, RowInvStep DEF Quiet, QuietInv
    <3>2. TouchInv' /\ FollowInv' /\ NoLostWakeup'
      BY <2>1, TouchInvStep, FollowInvStep, WakeStep
    <3> QED BY <3>1, <3>2 DEF QuietInv
  <2> QED BY <2>1
<1> QED BY <1>1, <1>2, TypedAlways, PTL DEF Spec
=============================================================================
