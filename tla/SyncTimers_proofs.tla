-------------------------- MODULE SyncTimers_proofs --------------------------
(***************************************************************************)
(* Proofs about the scheduler's timers, for any number of timers and of    *)
(* failed publications.                                                    *)
(***************************************************************************)
EXTENDS SyncTimers, TLAPS

TimerInv == TypeOK /\ OwedHasTimer

\* Arming a timer from a table s of timer states (st, or st with one callback
\* finished) keeps the types and leaves an armed timer.
LEMMA ArmArms ==
    ASSUME TypeOK, NEW s \in [Timer -> States], Arm(s)
    PROVE  /\ count' \in 0..MaxTimer
           /\ timer' \in Timer \cup {None}
           /\ st' \in [Timer -> States]
           /\ \E i \in Timer : st'[i] = "armed"
<1>1. count + 1 \in Timer
  BY SyncTimersAssumption DEF TypeOK, Arm, Timer
<1>2. Stopped(s) \in [Timer -> States]
  BY DEF Stopped, States, TypeOK
<1>3. st'[count + 1] = "armed"
  BY <1>1, <1>2 DEF Arm
<1> QED
  BY <1>1, <1>2, <1>3, SyncTimersAssumption DEF Arm, TypeOK, States, Timer

\* No step of a caller, of a callback or of the shutdown breaks the invariant.
LEMMA TimerStep ==
    ASSUME TimerInv, [Next]_vars
    PROVE  TimerInv'
<1> USE DEF TimerInv
<1>1. CASE ScheduleTaskAfter
  <2>1. st \in [Timer -> States]
    BY DEF TypeOK
  <2>2. Arm(st)
    BY <1>1 DEF ScheduleTaskAfter
  <2> QED
    BY <1>1, <2>1, <2>2, ArmArms DEF ScheduleTaskAfter, TypeOK, OwedHasTimer
<1>2. ASSUME NEW i \in Timer, Expire(i) PROVE TimerInv'
  BY <1>2 DEF Expire, TypeOK, OwedHasTimer, States
<1>3. ASSUME NEW i \in Timer, Publish(i) PROVE TimerInv'
  BY <1>3 DEF Publish, TypeOK, OwedHasTimer, States
<1>4. ASSUME NEW i \in Timer, PublishFails(i) PROVE TimerInv'
  BY <1>4, SyncTimersAssumption DEF PublishFails, TypeOK, OwedHasTimer, States
<1>5. ASSUME NEW i \in Timer, PublishOver(i) PROVE TimerInv'
  BY <1>5 DEF PublishOver, TypeOK, OwedHasTimer, States
<1>6. ASSUME NEW i \in Timer, Retry(i) PROVE TimerInv'
  <2> DEFINE s == [st EXCEPT ![i] = "done"]
  <2>1. s \in [Timer -> States]
    BY DEF TypeOK, States
  <2>2. Arm(s)
    BY <1>6 DEF Retry
  <2> HIDE DEF s
  <2> QED
    BY <1>6, <2>1, <2>2, ArmArms DEF Retry, TypeOK, OwedHasTimer
<1>7. ASSUME NEW i \in Timer, Forget(i) PROVE TimerInv'
  BY <1>7 DEF Forget, TypeOK, OwedHasTimer, States
<1>8. CASE Cancel
  BY <1>8 DEF Cancel, TypeOK, OwedHasTimer
<1>9. CASE StopTimers
  <2>1. Stopped(st) \in [Timer -> States]
    BY DEF Stopped, States, TypeOK
  <2> QED
    BY <1>9, <2>1 DEF StopTimers, TypeOK, OwedHasTimer
<1>10. CASE UNCHANGED vars
  BY <1>10 DEF vars, TypeOK, OwedHasTimer
<1> QED
  BY <1>1, <1>2, <1>3, <1>4, <1>5, <1>6, <1>7, <1>8, <1>9, <1>10 DEF Next, Callback

\* Type correctness and OwedHasTimer: an owed wakeup always has a timer or a
\* callback behind it while the scheduler lives (ScheduleTaskAfter,
\* publishTaskWakeup and stopTimers in scheduler.go), for any numbers of calls
\* and of failed publications.
THEOREM OwedHasTimerAlways == Spec => [](TypeOK /\ OwedHasTimer)
<1>1. Init => TimerInv
  <2>1. Init => OwedHasTimer
    BY DEF Init, OwedHasTimer
  <2>2. Init => count \in 0..MaxTimer /\ faults \in 0..MaxFault
    BY SyncTimersAssumption DEF Init
  <2>3. Init => st \in [Timer -> States]
    BY DEF Init, States
  <2>4. Init => timer \in Timer \cup {None} /\ {alive, running, owed} \subseteq BOOLEAN
    BY Zenon DEF Init
  <2> QED
    BY <2>1, <2>2, <2>3, <2>4, Zenon DEF TimerInv, TypeOK
<1>2. TimerInv /\ [Next]_vars => TimerInv'
  BY TimerStep
<1> QED
  BY <1>1, <1>2, PTL DEF Spec, TimerInv
=============================================================================
