----------------------------- MODULE SyncTimers -----------------------------
(***************************************************************************)
(* The one-shot timers of a syncer process's Scheduler                     *)
(* (internal/syncer/scheduler.go): a map from task to timer, guarded by    *)
(* timerMu, and callbacks that run in goroutines of their own.  The        *)
(* entries of different tasks do not interact, so the module follows one   *)
(* task.  Delays are abstract: an armed timer may expire at any moment.    *)
(* ScheduleTaskAfter without delay publishes at once and touches no timer; *)
(* that path is part of TaskWorkers.                                       *)
(***************************************************************************)
EXTENDS Naturals, FiniteSets

CONSTANTS
    MaxTimer,     \* bound: timers created
    MaxFault      \* bound: failed publications

ASSUME SyncTimersAssumption ==
    /\ MaxTimer \in Nat
    /\ MaxFault \in Nat

Timer == 1..MaxTimer
None  == 0

VARIABLES
    alive,    \* the scheduler's context
    running,  \* runNATS has not returned: stopTimers is to come
    timer,    \* s.timers[taskID], or None
    st,       \* st[i]: the state of timer i
    count,    \* timers created so far
    owed,     \* a wakeup was asked for and not published since
    faults

vars == <<alive, running, timer, st, count, owed, faults>>

\* armed -> publish (callback running) -> clean (before the delete) -> done;
\* publish -> retry (publication failed, before it schedules again) -> done;
\* armed -> done (stopped).
States == {"none", "armed", "publish", "retry", "clean", "done"}

TypeOK ==
    /\ alive \in BOOLEAN
    /\ running \in BOOLEAN
    /\ timer \in Timer \cup {None}
    /\ st \in [Timer -> States]
    /\ count \in 0..MaxTimer
    /\ owed \in BOOLEAN
    /\ faults \in 0..MaxFault

Init ==
    /\ alive = TRUE
    /\ running = TRUE
    /\ timer = None
    /\ st = [i \in Timer |-> "none"]
    /\ count = 0
    /\ owed = FALSE
    /\ faults = 0

\* Timer.Stop on the recorded timer: no effect once its callback runs.
Stopped(s) ==
    IF timer # None /\ s[timer] = "armed" THEN [s EXCEPT ![timer] = "done"] ELSE s

\* Mutant: a task that has a timer keeps it.
ArmOnce(s) ==
    IF timer # None
    THEN st' = s /\ UNCHANGED <<count, timer>>
    ELSE /\ count < MaxTimer
         /\ count' = count + 1
         /\ st' = [s EXCEPT ![count + 1] = "armed"]
         /\ timer' = count + 1

\* ScheduleTaskAfter under timerMu: stop the old timer, arm and record a new one.
Arm(s) ==
    /\ count < MaxTimer
    /\ count' = count + 1
    /\ st' = [Stopped(s) EXCEPT ![count + 1] = "armed"]
    /\ timer' = count + 1

\* Bound: keeps a timer number for every failure that has come or may still come.
Room ==
    count + (MaxFault - faults) + Cardinality({i \in Timer : st[i] = "retry"}) < MaxTimer

\* A call by a worker, by the startup scan or by scheduleNext.
ScheduleTaskAfter ==
    /\ alive
    /\ Room
    /\ Arm(st)
    /\ owed' = TRUE
    /\ UNCHANGED <<alive, running, faults>>

\* The delay is over: the callback starts.
Expire(i) ==
    /\ st[i] = "armed"
    /\ st' = [st EXCEPT ![i] = "publish"]
    /\ UNCHANGED <<alive, running, timer, count, owed, faults>>

\* publishTaskWakeup succeeds.
Publish(i) ==
    /\ st[i] = "publish"
    /\ alive
    /\ st' = [st EXCEPT ![i] = "clean"]
    /\ owed' = FALSE
    /\ UNCHANGED <<alive, running, timer, count, faults>>

\* publishTaskWakeup fails with the context alive.
PublishFails(i) ==
    /\ st[i] = "publish"
    /\ alive
    /\ faults < MaxFault
    /\ faults' = faults + 1
    /\ st' = [st EXCEPT ![i] = "retry"]
    /\ UNCHANGED <<alive, running, timer, count, owed>>

\* The callback schedules the task again, in place of the timer that a later
\* call may have recorded meanwhile.
Retry(i) ==
    /\ st[i] = "retry"
    /\ Arm([st EXCEPT ![i] = "done"])
    /\ UNCHANGED <<alive, running, owed, faults>>

\* The context is over: publishTaskWakeup only returns its error, and the
\* callback goes on to the delete.
PublishOver(i) ==
    /\ st[i] = "publish"
    /\ ~alive
    /\ st' = [st EXCEPT ![i] = "clean"]
    /\ UNCHANGED <<alive, running, timer, count, owed, faults>>

\* The end of the callback: delete(s.timers, taskID), whichever timer is there.
Forget(i) ==
    /\ st[i] = "clean"
    /\ st' = [st EXCEPT ![i] = "done"]
    /\ timer' = None
    /\ UNCHANGED <<alive, running, count, owed, faults>>

\* Stop cancels the context ...
Cancel ==
    /\ alive
    /\ alive' = FALSE
    /\ UNCHANGED <<running, timer, st, count, owed, faults>>

\* ... and runNATS stops the timers of the map.
StopTimers ==
    /\ ~alive
    /\ running
    /\ running' = FALSE
    /\ st' = Stopped(st)
    /\ timer' = None
    /\ UNCHANGED <<alive, count, owed, faults>>

Callback(i) == Publish(i) \/ PublishFails(i) \/ PublishOver(i) \/ Retry(i) \/ Forget(i)

Next ==
    \/ ScheduleTaskAfter
    \/ \E i \in Timer : Expire(i) \/ Callback(i)
    \/ Cancel
    \/ StopTimers

Spec == Init /\ [][Next]_vars

\* Delays end and callback goroutines run.
FairSpec ==
    /\ Spec
    /\ \A i \in Timer :
          /\ WF_vars(Expire(i))
          /\ WF_vars(Publish(i) \/ PublishOver(i) \/ Forget(i))
          /\ WF_vars(Retry(i))
    /\ WF_vars(StopTimers)

-----------------------------------------------------------------------------

\* The safety half of it: while a wakeup is owed and the scheduler lives, some
\* timer is armed or its callback has yet to publish or to schedule again.  The
\* map alone does not show it, since a callback's delete may have dropped the
\* entry of the timer that is armed.
OwedHasTimer ==
    owed /\ alive => \E i \in Timer : st[i] \in {"armed", "publish", "retry"}

\* A wakeup that was asked for is published unless the scheduler stops, although
\* a later call stops the timer, a callback's delete drops the entry of a newer
\* one, and a failed publication replaces a newer timer by its own.
WakeupComes == owed ~> (~owed \/ ~alive)
=============================================================================
