---------------------------- MODULE TaskWorkers ----------------------------
(***************************************************************************)
(* The syncer as a distributed program: task workers of several processes, *)
(* the scheduler's startup recovery and timers, the broker, the            *)
(* connector/knowledge-base lock, process stops and crashes, and the       *)
(* requests of the API server, around the sync_logs table of one connector *)
(* (SyncTasks).                                                            *)
(*                                                                         *)
(* A step of a worker is one database transaction of TaskWorker.handle     *)
(* with the messaging calls that follow it.  The message a worker took     *)
(* from the broker stays unacknowledged until the handler acks it: a Nack  *)
(* or a crash makes it deliverable again.  The in-process task queue is    *)
(* part of the broker here, since an envelope that no worker has taken is  *)
(* unacknowledged too.                                                     *)
(***************************************************************************)
EXTENDS SyncTasks

CONSTANTS
    Proc,         \* syncer processes
    Worker,       \* task workers of all processes
    ProcOf,       \* ProcOf[w]: the process of worker w
    MaxCopies,    \* bound: deliverable messages of one task
    MaxFault,     \* bound: errors of the source
    MaxDbFault,   \* bound: errors of the database, of Redis and of the broker
    MaxStop,      \* bound: process stops and crashes
    MaxRequest    \* bound: API requests after the links

NoOne == "none"   \* the lock key is absent
Dead  == "dead"   \* the lock key names a process that has exited
NoKb  == "nokb"

ASSUME WorkersAssumption ==
    /\ ProcOf \in [Worker -> Proc]
    /\ NoOne \notin Proc /\ Dead \notin Proc
    /\ {MaxCopies, MaxFault, MaxDbFault, MaxStop, MaxRequest} \subseteq Nat

VARIABLES
    proc,      \* proc[p]: lifecycle of a process
    scan,      \* scan[p]: the rows p's startup recovery found running
    pc,        \* pc[w]: where worker w is in handle
    job,       \* job[w]: the task context the handler works with
    nextTask,  \* nextTask[w]: NextTaskID of a finished run, 0 for none
    ready,     \* ready[t]: deliverable broker messages naming t
    recent,    \* message ids inside the stream's duplicate window
    timers,    \* timers[p]: tasks with an armed timer in p
    local,     \* local[p]: knowledge bases in p's local lock map
    key,       \* key[k]: holder of the Redis lock of k
    window,    \* window[t]: WindowEnd in t's saved checkpoint, 0 for none
    clock,     \* the wall clock, as far as waterlines tell it apart
    request,   \* the API request in progress
    spent      \* faults, stops and requests so far (ghost of the bounds)

procVars == <<proc, scan, timers>>
workVars == <<pc, job, nextTask>>
mqVars   == <<ready, recent>>
lockVars == <<local, key>>
vars == <<dbVars, procVars, workVars, mqVars, lockVars, window, clock, request, spent>>

Label == {"idle", "counted", "recheck", "claimed", "context", "lock",
          "run", "unsure", "next", "unlock", "release"}
NoJob == [task |-> 0, kb |-> NoKb, type |-> "none"]
Idle  == [step |-> "none", kind |-> "none", pub |-> {}, old |-> {}]

WorkersTypeOK ==
    /\ TypeOK
    /\ proc \in [Proc -> {"down", "recover", "reset", "publish", "up", "stopping"}]
    /\ scan \in [Proc -> SUBSET TaskId]
    /\ pc \in [Worker -> Label]
    /\ job \in [Worker -> [task : 0..MaxTask, kb : Kb \cup {NoKb},
                           type : TaskType \cup {"none"}]]
    /\ nextTask \in [Worker -> 0..MaxTask]
    /\ ready \in [TaskId -> 0..MaxCopies]
    /\ recent \subseteq TaskId
    /\ timers \in [Proc -> SUBSET TaskId]
    /\ local \in [Proc -> SUBSET Kb]
    /\ key \in [Kb -> Proc \cup {NoOne, Dead}]
    /\ window \in [TaskId -> Time]
    /\ clock \in Time
    /\ request \in [step : {"none", "cancel", "schedule", "delete", "publish", "wakeup"},
                    kind : {"none", "cancel", "reschedule", "delete"},
                    pub  : SUBSET TaskId,    \* tasks to publish
                    old  : SUBSET TaskId]    \* checkpoints to delete
    /\ spent \in [fault : 0..MaxFault, db : 0..MaxDbFault, stop : 0..MaxStop, request : 0..MaxRequest]

Init ==
    /\ DbInit
    /\ proc = [p \in Proc |-> "up"]
    /\ scan = [p \in Proc |-> {}]
    /\ pc = [w \in Worker |-> "idle"]
    /\ job = [w \in Worker |-> NoJob]
    /\ nextTask = [w \in Worker |-> 0]
    /\ ready = [t \in TaskId |-> 0]
    /\ recent = {}
    /\ timers = [p \in Proc |-> {}]
    /\ local = [p \in Proc |-> {}]
    /\ key = [k \in Kb |-> NoOne]
    /\ window = [t \in TaskId |-> 0]
    /\ clock = IF MaxTime = 0 THEN 0 ELSE 1
    /\ request = Idle
    /\ spent = [fault |-> 0, db |-> 0, stop |-> 0, request |-> 0]

-----------------------------------------------------------------------------
(* The broker, from the stream configuration in engine/nats/syncer.go.     *)

More(S) == [t \in TaskId |->
              IF t \in S /\ ready[t] < MaxCopies THEN ready[t] + 1 ELSE ready[t]]

\* PublishSyncerTask: the message id is the task id, so a second publication
\* inside the duplicate window is dropped by the stream.
PublishSyncerTasks(S) == ready' = More(S \ recent) /\ recent' = recent \cup S

\* PublishSyncerTaskWakeup: a fresh message id every time.
PublishSyncerTaskWakeup(t) == ready' = More({t}) /\ UNCHANGED recent

Take(t) == ready' = [ready EXCEPT ![t] = @ - 1] /\ UNCHANGED recent
Nack(t) == ready' = More({t}) /\ UNCHANGED recent
Acked   == UNCHANGED mqVars   \* the message was taken when it was delivered

\* The duplicate window of 10 minutes passes.
ForgetMsgId(t) ==
    /\ t \in recent
    /\ recent' = recent \ {t}
    /\ UNCHANGED <<dbVars, procVars, workVars, ready, lockVars, window, clock, request, spent>>

-----------------------------------------------------------------------------
(* TaskWorker.handle.                                                      *)

P(w)        == ProcOf[w]
Alive(w)    == proc[P(w)] \in {"recover", "reset", "publish", "up"}
Stopping(w) == proc[P(w)] = "stopping"     \* ctx.Err() # nil
T(w)        == job[w].task

At(w, l)    == pc[w] = l /\ proc[P(w)] # "down"
Goto(w, l)  == pc' = [pc EXCEPT ![w] = l]
Leave(w)    == Goto(w, "idle") /\ job' = [job EXCEPT ![w] = NoJob]
Arm(w, S)   == timers' = [timers EXCEPT ![P(w)] = @ \cup S]
Fault       == /\ spent.fault < MaxFault
               /\ spent' = [spent EXCEPT !.fault = @ + 1]
DbFault     == /\ spent.db < MaxDbFault
               /\ spent' = [spent EXCEPT !.db = @ + 1]

\* A message is delivered to an idle worker, which claims the task.  A refused
\* claim acks the message; the worker then looks the task up again.
Claim(w, t) ==
    /\ pc[w] = "idle"
    /\ Alive(w)
    /\ ready[t] > 0
    /\ Take(t)
    /\ \/ /\ ClaimTask(t)
          /\ Goto(w, "claimed")
       \/ /\ CountUnlinked(t)
          /\ Goto(w, "counted")
       \/ /\ ~Claimable(t)
          /\ t \notin counted
          /\ Goto(w, "recheck")
          /\ UNCHANGED dbVars
    /\ job' = [job EXCEPT ![w] = [NoJob EXCEPT !.task = t]]
    /\ UNCHANGED <<procVars, nextTask, lockVars, window, clock, request, spent>>

\* The claim of a task without a connector2kb row commits.
ClaimUnlinked(w) ==
    /\ At(w, "counted")
    /\ Alive(w)
    /\ ClaimCounted(T(w))
    /\ Goto(w, IF Has(T(w), "schedule") THEN "claimed" ELSE "recheck")
    /\ UNCHANGED <<procVars, job, nextTask, mqVars, lockVars, window, clock, request, spent>>

\* It fails instead, and the message is nacked.
ClaimRolledBack(w) ==
    /\ At(w, "counted")
    /\ (Stopping(w) /\ UNCHANGED spent) \/ DbFault
    /\ AbortClaims({T(w)})
    /\ Nack(T(w))
    /\ Leave(w)
    /\ UNCHANGED <<procVars, nextTask, lockVars, window, clock, request>>

\* scheduleRetryIfTaskScheduled; a failed lookup arms no timer.
Recheck(w) ==
    /\ At(w, "recheck")
    /\ \/ /\ IF Alive(w) /\ HasContext(T(w)) /\ Has(T(w), "schedule")
             THEN Arm(w, {T(w)})
             ELSE UNCHANGED timers
          /\ UNCHANGED spent
       \/ DbFault /\ UNCHANGED timers
    /\ Leave(w)
    /\ UNCHANGED <<dbVars, proc, scan, nextTask, mqVars, lockVars, window, clock, request>>

\* The second half of SyncTaskService.Claim.
ClaimContext(w) ==
    /\ At(w, "claimed")
    /\ Alive(w)
    /\ HasContext(T(w))
    /\ MarkConnectorRunning
    /\ Goto(w, "context")
    /\ UNCHANGED <<procVars, job, nextTask, mqVars, lockVars, window, clock, request, spent>>

\* Claim returns an error although the row is already RUNNING: the message is
\* nacked and the row is not rescheduled.
ClaimError(w) ==
    /\ At(w, "claimed")
    /\ \/ (Stopping(w) \/ ~HasContext(T(w))) /\ UNCHANGED spent
       \/ DbFault
    /\ Nack(T(w))
    /\ Leave(w)
    /\ UNCHANGED <<dbVars, procVars, nextTask, lockVars, window, clock, request>>

GetContext(w) ==
    /\ At(w, "context")
    /\ Alive(w)
    /\ HasContext(T(w))
    /\ job' = [job EXCEPT ![w].kb = logs[T(w)].kb, ![w].type = logs[T(w)].type]
    /\ Goto(w, "lock")
    /\ UNCHANGED <<dbVars, procVars, nextTask, mqVars, lockVars, window, clock, request, spent>>

\* GetContext fails: exit reschedules and nacks; any other error fails the
\* task, or reschedules and nacks when even that is impossible.
GetContextError(w) ==
    /\ At(w, "context")
    /\ \/ /\ Stopping(w)
          /\ RescheduleClaimed(T(w))
          /\ Nack(T(w))
          /\ UNCHANGED spent
       \/ /\ Alive(w)
          /\ (~HasContext(T(w)) /\ UNCHANGED spent) \/ DbFault
          /\ FailTask(T(w), FALSE)
          /\ Acked
       \/ /\ Alive(w)
          /\ DbFault
          /\ RescheduleClaimed(T(w))
          /\ Nack(T(w))
    /\ Leave(w)
    /\ UNCHANGED <<procVars, nextTask, lockVars, window, clock, request>>

\* Mutant: the lock is only the process's own map.
StartRunLocal(w) ==
    LET k == job[w].kb
    IN /\ At(w, "lock")
       /\ k \notin local[P(w)]
       /\ local' = [local EXCEPT ![P(w)] = @ \cup {k}]
       /\ key' = [key EXCEPT ![k] = P(w)]
       /\ window' = [window EXCEPT ![T(w)] = clock]
       /\ Goto(w, "run")
       /\ UNCHANGED <<dbVars, procVars, job, nextTask, mqVars, clock, request, spent>>

\* Mutant: the lock is only the Redis key, which names the process.
StartRunRemote(w) ==
    LET k == job[w].kb
    IN /\ At(w, "lock")
       /\ key[k] \in {NoOne, P(w)}
       /\ local' = [local EXCEPT ![P(w)] = @ \cup {k}]
       /\ key' = [key EXCEPT ![k] = P(w)]
       /\ window' = [window EXCEPT ![T(w)] = clock]
       /\ Goto(w, "run")
       /\ UNCHANGED <<dbVars, procVars, job, nextTask, mqVars, clock, request, spent>>

\* TryLock succeeds (ConnectorLock models it step by step) and the run begins:
\* prepareCheckpoint fixes the window of a SYNC task that has none yet.
StartRun(w) ==
    LET k == job[w].kb
    IN /\ At(w, "lock")
       /\ k \notin local[P(w)]
       /\ key[k] \in {NoOne, P(w)}
       /\ local' = [local EXCEPT ![P(w)] = @ \cup {k}]
       /\ key' = [key EXCEPT ![k] = P(w)]
       /\ window' = IF job[w].type = "sync" /\ window[T(w)] = 0
                    THEN [window EXCEPT ![T(w)] = clock]
                    ELSE window
       /\ Goto(w, "run")
       /\ UNCHANGED <<dbVars, procVars, job, nextTask, mqVars, clock, request, spent>>

\* Mutant: a refused lock arms no timer.
LockMissSilent(w) ==
    LET k == job[w].kb
    IN /\ At(w, "lock")
       /\ k \in local[P(w)] \/ key[k] \notin {NoOne, P(w)}
       /\ RescheduleClaimed(T(w))
       /\ Leave(w)
       /\ UNCHANGED <<procVars, nextTask, mqVars, lockVars, window, clock, request, spent>>

\* Mutant: a refused lock leaves the claim in place.
LockMissKeepsClaim(w) ==
    LET k == job[w].kb
    IN /\ At(w, "lock")
       /\ k \in local[P(w)] \/ key[k] \notin {NoOne, P(w)}
       /\ Arm(w, {T(w)})
       /\ Leave(w)
       /\ UNCHANGED <<dbVars, proc, scan, nextTask, mqVars, lockVars, window, clock,
                      request, spent>>

\* Another worker holds the lock: back to SCHEDULE, retry in 3 seconds, ack.
\* Under a canceled context neither the update nor the timer takes effect.
LockMiss(w) ==
    LET k == job[w].kb
    IN /\ At(w, "lock")
       /\ k \in local[P(w)] \/ key[k] \notin {NoOne, P(w)}
       /\ IF Alive(w)
          THEN RescheduleClaimed(T(w)) /\ Arm(w, {T(w)})
          ELSE UNCHANGED <<dbVars, timers>>
       /\ Acked
       /\ Leave(w)
       /\ UNCHANGED <<proc, scan, nextTask, lockVars, window, clock, request, spent>>

\* The same with an error: the reschedule fails and its error is ignored, or the
\* lock is refused because Redis does not answer, with or without setting the
\* key.
LockMissError(w) ==
    LET k == job[w].kb
    IN /\ At(w, "lock")
       /\ Alive(w)
       /\ DbFault
       /\ \/ /\ k \in local[P(w)] \/ key[k] \notin {NoOne, P(w)}
             /\ UNCHANGED <<dbVars, key>>
          \/ /\ RescheduleClaimed(T(w))
             /\ key' \in {key, [key EXCEPT ![k] = IF @ = NoOne THEN P(w) ELSE @]}
       /\ Arm(w, {T(w)})
       /\ Acked
       /\ Leave(w)
       /\ UNCHANGED <<proc, scan, nextTask, local, window, clock, request>>

\* Mutant: a completed run whose checkpoint cannot be deleted returns an error.
CompleteThenError(w) ==
    /\ At(w, "run")
    /\ Alive(w)
    /\ job[w].type = "sync"
    /\ CompleteSyncTask(T(w), job[w].kb, window[T(w)])
    /\ UNCHANGED <<procVars, workVars, mqVars, lockVars, window, clock, request, spent>>

\* The runner's last transaction; the checkpoint is deleted after a SYNC.
Complete(w) ==
    /\ At(w, "run")
    /\ Alive(w)
    /\ \/ /\ job[w].type = "sync"
          /\ CompleteSyncTask(T(w), job[w].kb, window[T(w)])
          /\ window' = [window EXCEPT ![T(w)] = 0]
       \/ /\ job[w].type = "prune"
          /\ CompletePruneTask(T(w), job[w].kb)
          /\ UNCHANGED window
    /\ \E n \in NextTaskIds(T(w)) : nextTask' = [nextTask EXCEPT ![w] = n]
    /\ Goto(w, "next")
    /\ UNCHANGED <<procVars, job, mqVars, lockVars, clock, request, spent>>

\* The same commit, but its answer is lost: the row is DONE, the runner returns
\* the error and keeps the checkpoint.
CompleteLost(w) ==
    /\ At(w, "run")
    /\ Alive(w)
    /\ Has(T(w), "running")
    /\ DbFault
    /\ \/ job[w].type = "sync" /\ CompleteSyncTask(T(w), job[w].kb, window[T(w)])
       \/ job[w].type = "prune" /\ CompletePruneTask(T(w), job[w].kb)
    /\ Goto(w, "unsure")
    /\ UNCHANGED <<procVars, job, nextTask, mqVars, lockVars, window, clock, request>>

\* What makes Execute return an error: the source, or the lost commit.
Failing(w) == IF pc[w] = "unsure" THEN UNCHANGED spent ELSE Fault

\* Execute returns an error.  A canceled task is only acked.  An exit
\* reschedules and arms a timer that outlives the context.  A transient error
\* retries until the cap; any other error, a vanished row or a missing mapping
\* included, fails the task.  If recording the outcome fails, the row is
\* rescheduled and the message nacked.
RunError(w) ==
    /\ At(w, "run") \/ At(w, "unsure")
    /\ \/ /\ pc[w] = "run"
          /\ Has(T(w), "cancel")
          /\ Acked
          /\ UNCHANGED <<dbVars, timers, spent>>
       \/ /\ Stopping(w)
          /\ RescheduleClaimed(T(w))
          /\ Arm(w, {T(w)})
          /\ Acked
          /\ UNCHANGED spent
       \/ /\ Alive(w)
          /\ Failing(w)
          /\ HandleTransientFailure(T(w))
          /\ IF Has(T(w), "running") /\ AfterTransient(T(w)) = "fail"
             THEN UNCHANGED timers
             ELSE Arm(w, {T(w)})
          /\ Acked
       \/ /\ Alive(w)
          /\ (~HasContext(T(w)) /\ UNCHANGED spent) \/ Failing(w)
          /\ FailTask(T(w), TRUE)
          /\ Acked
          /\ UNCHANGED timers
       \/ /\ Alive(w)
          /\ DbFault
          /\ RescheduleClaimed(T(w))
          /\ Nack(T(w))
          /\ UNCHANGED timers
    /\ Goto(w, "unlock")
    /\ UNCHANGED <<proc, scan, job, nextTask, lockVars, window, clock, request>>

\* scheduleNext: publish when due, else arm a timer; nothing if the lookup of
\* the next task finds no row or fails, or the publication fails.  Then the
\* message is acked.
ScheduleNext(w) ==
    /\ At(w, "next")
    /\ \/ /\ nextTask[w] \in Listed
          /\ Alive(w)
          /\ \/ PublishSyncerTasks({nextTask[w]}) /\ UNCHANGED timers
             \/ Arm(w, {nextTask[w]}) /\ Acked
          /\ UNCHANGED spent
       \/ /\ (~(nextTask[w] \in Listed /\ Alive(w)) /\ UNCHANGED spent) \/ DbFault
          /\ Acked
          /\ UNCHANGED timers
    /\ nextTask' = [nextTask EXCEPT ![w] = 0]
    /\ Goto(w, "unlock")
    /\ UNCHANGED <<dbVars, proc, scan, job, lockVars, window, clock, request>>

\* Mutant: the local map entry stays.
UnlockKeepsLocal(w) ==
    /\ At(w, "unlock")
    /\ Goto(w, "release")
    /\ UNCHANGED <<dbVars, procVars, job, nextTask, mqVars, lockVars, window, clock, request, spent>>

\* The deferred Unlock, in its two halves.
Unlock(w) ==
    /\ At(w, "unlock")
    /\ local' = [local EXCEPT ![P(w)] = @ \ {job[w].kb}]
    /\ Goto(w, "release")
    /\ UNCHANGED <<dbVars, procVars, job, nextTask, mqVars, key, window, clock, request, spent>>

Release(w) ==
    /\ At(w, "release")
    /\ key' = [key EXCEPT ![job[w].kb] = IF @ = P(w) THEN NoOne ELSE @]
    /\ Leave(w)
    /\ UNCHANGED <<dbVars, procVars, nextTask, mqVars, local, window, clock, request, spent>>

WorkerStep(w) ==
    \/ \E t \in TaskId : Claim(w, t)
    \/ ClaimUnlinked(w)
    \/ ClaimRolledBack(w)
    \/ Recheck(w)
    \/ ClaimContext(w)
    \/ ClaimError(w)
    \/ GetContext(w)
    \/ GetContextError(w)
    \/ StartRun(w)
    \/ LockMiss(w)
    \/ LockMissError(w)
    \/ Complete(w)
    \/ CompleteLost(w)
    \/ RunError(w)
    \/ ScheduleNext(w)
    \/ Unlock(w)
    \/ Release(w)

\* The message of w's handler is not acknowledged yet.
Unacked(w) == pc[w] \in {"counted", "claimed", "context", "lock", "run", "unsure", "next"}

\* The ack deadline passes although the worker is alive: heartbeats were lost.
Redeliver(w) ==
    /\ Unacked(w)
    /\ DbFault
    /\ Nack(T(w))
    /\ UNCHANGED <<dbVars, procVars, workVars, lockVars, window, clock, request>>

-----------------------------------------------------------------------------
(* The scheduler's timers and the lifecycle of a process.                  *)

\* A timer that was armed with a live context, or with one that outlives it.
TimerFires(p, t) ==
    /\ t \in timers[p]
    /\ timers' = [timers EXCEPT ![p] = @ \ {t}]
    /\ PublishSyncerTaskWakeup(t)
    /\ UNCHANGED <<dbVars, proc, scan, workVars, lockVars, window, clock, request, spent>>

Tick ==
    /\ clock < MaxTime
    /\ clock' = clock + 1
    /\ UNCHANGED <<dbVars, procVars, workVars, mqVars, lockVars, window, request, spent>>

StopOnce == /\ spent.stop < MaxStop
            /\ spent' = [spent EXCEPT !.stop = @ + 1]

\* Syncer.Stop cancels the context: armed timers no longer publish, and a
\* startup that has not finished ends.
Stop(p) ==
    /\ proc[p] \in {"recover", "reset", "publish", "up"}
    /\ StopOnce
    /\ proc' = [proc EXCEPT ![p] = "stopping"]
    /\ scan' = [scan EXCEPT ![p] = {}]
    /\ timers' = [timers EXCEPT ![p] = {}]
    /\ UNCHANGED <<dbVars, workVars, mqVars, lockVars, window, clock, request>>

\* The workers have returned; timers armed since then die with the process.
Exit(p) ==
    /\ proc[p] = "stopping"
    /\ \A w \in Worker : P(w) = p => pc[w] = "idle"
    /\ proc' = [proc EXCEPT ![p] = "down"]
    /\ timers' = [timers EXCEPT ![p] = {}]
    /\ UNCHANGED <<dbVars, scan, workVars, mqVars, lockVars, window, clock, request, spent>>

\* The process dies: unacknowledged messages are redelivered, open claims are
\* rolled back, its lock keys stay until they expire.
Crash(p) ==
    LET mine == {w \in Worker : P(w) = p}
    IN /\ proc[p] # "down"
       /\ StopOnce
       /\ proc' = [proc EXCEPT ![p] = "down"]
       /\ scan' = [scan EXCEPT ![p] = {}]
       /\ timers' = [timers EXCEPT ![p] = {}]
       /\ pc' = [w \in Worker |-> IF w \in mine THEN "idle" ELSE pc[w]]
       /\ job' = [w \in Worker |-> IF w \in mine THEN NoJob ELSE job[w]]
       /\ nextTask' = [w \in Worker |-> IF w \in mine THEN 0 ELSE nextTask[w]]
       /\ ready' = More({T(w) : w \in {v \in mine : Unacked(v)}})
       /\ local' = [local EXCEPT ![p] = {}]
       /\ key' = [k \in Kb |-> IF key[k] = p THEN Dead ELSE key[k]]
       /\ AbortClaims({T(w) : w \in {v \in mine : pc[v] = "counted"}})
       /\ UNCHANGED <<recent, window, clock, request>>

\* Between TryLock and Unlock.
Holds(w) == pc[w] \in {"run", "unsure", "next", "unlock"}

\* A key that nobody holds any more (of a dead process, or set by a TryLock that
\* did not get the answer) outlives its time to live.
KeyExpires(k) ==
    /\ key[k] # NoOne
    /\ \A w \in Worker : Holds(w) /\ job[w].kb = k => key[k] # P(w)
    /\ key' = [key EXCEPT ![k] = NoOne]
    /\ UNCHANGED <<dbVars, procVars, workVars, mqVars, local, window, clock, request, spent>>

\* runNATS subscribes, then publishStartupTasks looks for the running rows ...
Start(p) ==
    /\ proc[p] = "down"
    /\ proc' = [proc EXCEPT ![p] = "recover"]
    /\ UNCHANGED <<dbVars, scan, timers, workVars, mqVars, lockVars, window, clock,
                   request, spent>>

ScanRunning(p) ==
    LET running == {t \in DOMAIN logs : Has(t, "running")}
    IN /\ proc[p] = "recover"
       /\ scan' = [scan EXCEPT ![p] = running]
       /\ proc' = [proc EXCEPT ![p] = IF running = {} THEN "publish" ELSE "reset"]
       /\ UNCHANGED <<dbVars, timers, workVars, mqVars, lockVars, window, clock,
                      request, spent>>

\* Mutant: a scanned row is reset whatever became of it.
RecoverScanned(p) ==
    /\ proc[p] = "reset"
    /\ logs' = With(scan[p], "schedule")
    /\ conn' = IF conn = "running" THEN "schedule" ELSE conn
    /\ scan' = [scan EXCEPT ![p] = {}]
    /\ proc' = [proc EXCEPT ![p] = "publish"]
    /\ UNCHANGED <<linked, created, covered, counted, timers, workVars, mqVars, lockVars,
                   window, clock, request, spent>>

\* ... resets them ...
Recover(p) ==
    /\ proc[p] = "reset"
    /\ RecoverRunning(scan[p])
    /\ scan' = [scan EXCEPT ![p] = {}]
    /\ proc' = [proc EXCEPT ![p] = "publish"]
    /\ UNCHANGED <<timers, workVars, mqVars, lockVars, window, clock, request, spent>>

\* ... and publishes the due rows of ListScheduledTasks, with a timer for each
\* of the others.  An error ends the loop: the rows that are left wait for the
\* next startup.
PublishStartup(p) ==
    /\ proc[p] = "publish"
    /\ \E due, later \in SUBSET Listed :
          /\ due \cap later = {}
          /\ (due \cup later = Listed /\ UNCHANGED spent) \/ DbFault
          /\ PublishSyncerTasks(due)
          /\ timers' = [timers EXCEPT ![p] = @ \cup later]
    /\ proc' = [proc EXCEPT ![p] = "up"]
    /\ UNCHANGED <<dbVars, scan, workVars, lockVars, window, clock, request>>

\* The scan fails, or the transaction does, with or without its commit: the
\* error is only logged, and the process goes on without the rest of its
\* startup.
RecoverError(p) ==
    /\ proc[p] \in {"recover", "reset"}
    /\ DbFault
    /\ UNCHANGED dbVars \/ (proc[p] = "reset" /\ RecoverRunning(scan[p]))
    /\ scan' = [scan EXCEPT ![p] = {}]
    /\ proc' = [proc EXCEPT ![p] = "up"]
    /\ UNCHANGED <<timers, workVars, mqVars, lockVars, window, clock, request>>

ProcStep(p) ==
    \/ \E t \in TaskId : TimerFires(p, t)
    \/ Stop(p)
    \/ Exit(p)
    \/ Crash(p)
    \/ Start(p)
    \/ ScanRunning(p)
    \/ Recover(p)
    \/ PublishStartup(p)
    \/ RecoverError(p)

-----------------------------------------------------------------------------
(* Requests of the API server, one at a time.  The updates of one request  *)
(* are not one transaction: workers run in between.                        *)

workersIdle == <<procVars, workVars, lockVars, clock>>

NewRequest == /\ request = Idle
              /\ spent.request < MaxRequest
              /\ spent' = [spent EXCEPT !.request = @ + 1]

\* What ScheduleConnectorTasks or a link returns for each knowledge base and
\* type: the row it inserted or the scheduled row it found.
Publishable(pub, pairs) ==
    \A n \in pairs : LET S == TypedRows(n[1], n[2], "schedule")
                     IN S # {} => Cardinality(S \cap pub) = 1

\* cancelConnectorTasks, first update; on behalf of a cancel, a reschedule or
\* a delete.
ApiCancelLogs(kind) ==
    /\ NewRequest
    /\ conn # "gone"
    /\ CancelRunningOrScheduledLogs
    /\ request' = [Idle EXCEPT !.step = "cancel", !.kind = kind]
    /\ UNCHANGED <<workersIdle, mqVars, window>>

ApiCancelConnector ==
    /\ request.step = "cancel"
    /\ CancelConnector
    /\ request' = CASE request.kind = "reschedule" -> [request EXCEPT !.step = "schedule"]
                    [] request.kind = "delete"     -> [request EXCEPT !.step = "delete"]
                    [] OTHER                       -> Idle
    /\ UNCHANGED <<workersIdle, mqVars, window, spent>>

ApiDelete ==
    /\ request.step = "delete"
    /\ DeleteConnectorRow
    /\ request' = Idle
    /\ UNCHANGED <<workersIdle, mqVars, window, spent>>

\* The second half of a reschedule, or a request of its own.
ApiSchedule ==
    /\ \/ request.step = "schedule" /\ UNCHANGED spent
       \/ NewRequest
    /\ ScheduleConnectorTasks
    /\ \E pub \in SUBSET TaskId :
          /\ pub \subseteq {t \in DOMAIN logs' : Has(t, "schedule")' /\ logs'[t].kb \in linked}
          /\ Publishable(pub, linked \X Scheduled)'
          /\ request' = [Idle EXCEPT !.step = "publish", !.pub = pub]
    /\ UNCHANGED <<workersIdle, mqVars, window>>

ApiLink(k) ==
    /\ request = Idle
    /\ LinkKb(k)
    /\ request' = [Idle EXCEPT !.step = "publish", !.pub = (Rows(k, "schedule"))']
    /\ UNCHANGED <<workersIdle, mqVars, window, spent>>

ApiUnlink(k) ==
    /\ NewRequest
    /\ UnlinkKb(k)
    /\ UNCHANGED <<workersIdle, mqVars, window, request>>

ApiRebuild(k) ==
    /\ NewRequest
    /\ RebuildConnector(k)
    /\ request' = [Idle EXCEPT !.step = "publish", !.pub = (Rows(k, "schedule"))',
                               !.old = DOMAIN logs \ DOMAIN logs']
    /\ UNCHANGED <<workersIdle, mqVars, window>>

\* deleteSyncCheckpoints, then publishSyncerTasks.
ApiPublish ==
    /\ request.step = "publish"
    /\ PublishSyncerTasks(request.pub)
    /\ window' = [t \in TaskId |-> IF t \in request.old THEN 0 ELSE window[t]]
    /\ request' = Idle
    /\ UNCHANGED <<dbVars, workersIdle, spent>>

\* ResumeFailedSync asks for a saved checkpoint of the task.
ApiResume(t) ==
    /\ NewRequest
    /\ window[t] # 0
    /\ ResumeFailedSyncTask(t)
    /\ request' = [Idle EXCEPT !.step = "wakeup", !.pub = {t}]
    /\ UNCHANGED <<workersIdle, mqVars, window>>

ApiWakeup ==
    /\ request.step = "wakeup"
    /\ \E t \in request.pub : PublishSyncerTaskWakeup(t)
    /\ request' = Idle
    /\ UNCHANGED <<dbVars, workersIdle, window, spent>>

ApiStep ==
    \/ \E kind \in {"cancel", "reschedule", "delete"} : ApiCancelLogs(kind)
    \/ ApiCancelConnector
    \/ ApiDelete
    \/ ApiSchedule
    \/ \E k \in Kb : ApiLink(k) \/ ApiUnlink(k) \/ ApiRebuild(k)
    \/ ApiPublish
    \/ \E t \in TaskId : ApiResume(t)
    \/ ApiWakeup

-----------------------------------------------------------------------------
Next ==
    \/ \E w \in Worker : WorkerStep(w) \/ Redeliver(w)
    \/ \E p \in Proc : ProcStep(p)
    \/ \E k \in Kb : KeyExpires(k)
    \/ \E t \in TaskId : ForgetMsgId(t)
    \/ Tick
    \/ ApiStep

Spec == Init /\ [][Next]_vars

\* What the runtime guarantees while no process stops: a goroutine that can run
\* does (a run ends within taskExecutionDeadline), an armed timer fires, the
\* API server finishes a request it began.
FairSpec ==
    /\ Spec
    /\ \A w \in Worker : WF_vars(WorkerStep(w))
    /\ \A p \in Proc, t \in TaskId : WF_vars(TimerFires(p, t))
    /\ WF_vars(ApiPublish)
    /\ WF_vars(ApiWakeup)

-----------------------------------------------------------------------------
(***************************************************************************)
(* How far runs of a knowledge base exclude each other, in any deployment: *)
(* two that overlap belong to different processes, at least one of which   *)
(* has several workers.  The table alone does not ensure it: after a       *)
(* cancel, a recovery or a rebuild the old run goes on while the next task *)
(* is claimed, and only the lock keeps them apart.  Workers of one process *)
(* share its Redis key, so the release of one can open the lock another    *)
(* has just taken: more is not true with a pool, see ConnectorLock.        *)
(***************************************************************************)
Alone(w) == \A v \in Worker : P(v) = P(w) => v = w

ExclusiveRun ==
    \A v, w \in Worker :
        v # w /\ pc[v] = "run" /\ pc[w] = "run" /\ job[v].kb = job[w].kb
        => P(v) # P(w) /\ ~(Alone(v) /\ Alone(w))

(***************************************************************************)
(* A RUNNING row has a worker that will end it, or a process that has yet  *)
(* to go through its startup recovery and will find it.  Otherwise the row *)
(* stays RUNNING: every later claim for the knowledge base is refused      *)
(* because of it.                                                          *)
(***************************************************************************)
Handles(w, t) == T(w) = t /\ pc[w] \in {"claimed", "context", "lock", "run"}

OwnedRunning ==
    \A t \in DOMAIN logs :
        Has(t, "running") => \/ \E w \in Worker : Handles(w, t)
                             \/ \E p \in Proc : \/ proc[p] \in {"stopping", "down", "recover"}
                                                \/ proc[p] = "reset" /\ t \in scan[p]

(***************************************************************************)
(* A scheduled task is never forgotten: a message, a timer, a handler or a *)
(* request in progress, or a startup scan to come will wake it.            *)
(***************************************************************************)
Woken(t) ==
    \/ ready[t] > 0
    \/ t \in request.pub
    \/ \E p \in Proc : t \in timers[p] \/ proc[p] # "up"
    \/ \E w \in Worker : \/ T(w) = t /\ pc[w] \in {"counted", "recheck", "claimed", "context",
                                                 "lock", "run"}
                         \/ nextTask[w] = t /\ pc[w] = "next"

NoLostWakeup ==
    \A t \in DOMAIN logs : Has(t, "schedule") /\ HasContext(t) => Woken(t)

(***************************************************************************)
(* While no process stops, a task that is DONE stays DONE: the failure     *)
(* path of FailTask, which spares only canceled rows, never runs for a     *)
(* task that another handler has completed.  The one exception is the      *)
(* handler whose own commit went through without an answer.  (A startup    *)
(* recovery gives a task a second handler, and the promise is gone.)       *)
(***************************************************************************)
DoneIsFinal ==
    [][\A t \in DOMAIN logs : spent.stop = 0 /\ Has(t, "done") =>
          \/ t \notin DOMAIN logs'
          \/ Has(t, "done")'
          \/ \E w \in Worker : pc[w] = "unsure" /\ T(w) = t /\ pc'[w] = "unlock"]_vars

(***************************************************************************)
(* Every scheduled task of a linked knowledge base comes to an end: it is  *)
(* delivered, claimed, locked and run, retried after transient errors, and *)
(* finally DONE or FAILED.  (The row with the last id cannot complete: its *)
(* completion would need an id beyond the bound.)                          *)
(***************************************************************************)
ScheduledSettles ==
    \A t \in TaskId \ {MaxTask} :
        (Has(t, "schedule") /\ HasContext(t)) ~> (Has(t, "done") \/ Has(t, "fail"))

-----------------------------------------------------------------------------
(* The strengthenings the proofs use.                                      *)

\* The task context a handler works with still describes its row, if the row
\* is still there: ids are never reused.
JobInv ==
    /\ pc \in [Worker -> Label]
    /\ job \in [Worker -> [task : 0..MaxTask, kb : Kb \cup {NoKb},
                           type : TaskType \cup {"none"}]]
    /\ window \in [TaskId -> Time]
    /\ clock \in Time
    /\ scan \in [Proc -> SUBSET TaskId]
    /\ \A w \in Worker : pc[w] # "idle" => T(w) \in TaskId
    /\ \A w \in Worker : pc[w] \in {"lock", "run"} =>
          /\ job[w].kb \in Kb /\ job[w].type \in TaskType
          /\ T(w) <= created
          /\ T(w) \in DOMAIN logs =>
                logs[T(w)].kb = job[w].kb /\ logs[T(w)].type = job[w].type

\* While a worker holds the lock, the local map of its process has the entry,
\* for it alone, and if it is alone the key names the process.
LockInv ==
    /\ local \in [Proc -> SUBSET Kb]
    /\ key \in [Kb -> Proc \cup {NoOne, Dead}]
    /\ \A w \in Worker : Holds(w) =>
          /\ job[w].kb \in local[P(w)]
          /\ Alone(w) => key[job[w].kb] = P(w)
    /\ \A v, w \in Worker :
          v # w /\ Holds(v) /\ Holds(w) /\ P(v) = P(w) => job[v].kb # job[w].kb
=============================================================================
