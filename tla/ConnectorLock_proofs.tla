----------------------- MODULE ConnectorLock_proofs -----------------------
(***************************************************************************)
(* What ConnectorLock guarantees for every set of processes and workers.   *)
(***************************************************************************)
EXTENDS ConnectorLock, TLAPS

(***************************************************************************)
(* The inductive invariant of the local level: the local entry of a        *)
(* process is set exactly while one of its workers is inside, and no two   *)
(* workers of a process are inside together.                               *)
(***************************************************************************)
OneInside ==
    \A v, w \in Worker :
        ProcOf[v] = ProcOf[w] /\ pc[v] \in Inside /\ pc[w] \in Inside => v = w

LocalInv == TypeOK /\ LocalOwned /\ OneInside

LEMMA LocalInvInit == Init => LocalInv
  BY LockAssumption, HolderAssumption
     DEF Init, LocalInv, TypeOK, LocalOwned, OneInside, Inside, PC

(* Every step of the lock keeps the types of its variables.                *)
LEMMA TypeStep == ASSUME TypeOK, [Next]_vars PROVE TypeOK'
<1> USE LockAssumption DEF TypeOK, PC, Goto, DeleteIfEqual
<1>1. ASSUME NEW w \in Worker, TryLock(w) PROVE TypeOK'
  <2>1. CASE TryLocal(w)
    BY <2>1 DEF TryLocal
  <2>2. CASE AcquireDelete(w)
    BY <2>2 DEF AcquireDelete
  <2>3. CASE AcquireSetNX(w)
    BY <2>3 DEF AcquireSetNX
  <2>4. CASE TryLockFail(w) \/ TryLockStore(w)
    BY <2>4 DEF TryLockFail, TryLockStore
  <2>5. QED
    BY <1>1, <2>1, <2>2, <2>3, <2>4 DEF TryLock
<1>2. ASSUME NEW w \in Worker, Unlock(w) PROVE TypeOK'
  BY <1>2 DEF Unlock, UnlockLocal, UnlockRelease
<1>3. ASSUME NEW p \in Proc, Crash(p) PROVE TypeOK'
  BY <1>3 DEF Crash
<1>4. CASE Expire
  BY <1>4 DEF Expire
<1>5. CASE UNCHANGED vars
  BY <1>5 DEF vars
<1>6. QED
  BY <1>1, <1>2, <1>3, <1>4, <1>5 DEF Next

LEMMA LocalInvStep == ASSUME LocalInv, [Next]_vars PROVE LocalInv'
<1> USE LockAssumption DEF LocalInv, TypeOK, LocalOwned, OneInside, Inside
<1>1. TypeOK'
  BY TypeStep
<1>2. ASSUME NEW w \in Worker, TryLocal(w) PROVE (LocalOwned /\ OneInside)'
  BY <1>1, <1>2 DEF TryLocal, Goto
<1>3. ASSUME NEW w \in Worker, TryLockFail(w) PROVE (LocalOwned /\ OneInside)'
  BY <1>1, <1>3 DEF TryLockFail, Goto
<1>4. ASSUME NEW w \in Worker, UnlockLocal(w) PROVE (LocalOwned /\ OneInside)'
  BY <1>1, <1>4 DEF UnlockLocal, Goto
<1>5. ASSUME NEW w \in Worker,
             \/ AcquireDelete(w) \/ AcquireSetNX(w)
             \/ TryLockStore(w) \/ UnlockRelease(w)
      PROVE  (LocalOwned /\ OneInside)'
  BY <1>1, <1>5 DEF AcquireDelete, AcquireSetNX, TryLockStore, UnlockRelease, Goto
<1>6. ASSUME NEW p \in Proc, Crash(p) PROVE (LocalOwned /\ OneInside)'
  BY <1>1, <1>6 DEF Crash
<1>7. CASE Expire
  BY <1>1, <1>7 DEF Expire
<1>8. CASE UNCHANGED vars
  BY <1>1, <1>8 DEF vars
<1>9. QED
  BY <1>1, <1>2, <1>3, <1>4, <1>5, <1>6, <1>7, <1>8 DEF Next, TryLock, Unlock

(***************************************************************************)
(* The local map of every process names exactly the workers inside the     *)
(* lock, through every interleaving, Redis failure and crash.              *)
(***************************************************************************)
THEOREM LocalOwnedAlways == Spec => []LocalOwned
<1>1. LocalInv => LocalOwned
  BY DEF LocalInv
<1>2. QED
  BY LocalInvInit, LocalInvStep, <1>1, PTL DEF Spec

(***************************************************************************)
(* Workers of one process exclude each other, however many workers and     *)
(* processes there are.                                                    *)
(***************************************************************************)
THEOREM LocalExclusionAlways == Spec => []LocalExclusion
<1>1. LocalInv => LocalExclusion
  BY DEF LocalInv, OneInside, LocalExclusion, Inside
<1>2. QED
  BY LocalInvInit, LocalInvStep, <1>1, PTL DEF Spec

-----------------------------------------------------------------------------
LEMMA SoloInvInit == Init => SoloInv
  BY LockAssumption, HolderAssumption DEF Init, SoloInv, TypeOK, PC

LEMMA SoloInvStep ==
  ASSUME RedisConfigured, SoloInv, [Next]_vars
  PROVE  SoloInv'
<1> USE LockAssumption, HolderAssumption DEF SoloInv, TypeOK, Solo
<1>1. TypeOK'
  BY TypeStep
<1>2. ASSUME NEW w \in Worker, TryLock(w) PROVE SoloInv'
  <2>1. CASE TryLocal(w)
    BY <1>1, <2>1 DEF TryLocal, Goto
  <2>2. CASE AcquireDelete(w)
    BY <1>1, <2>2 DEF AcquireDelete, DeleteIfEqual, Goto
  <2>3. CASE AcquireSetNX(w)
    BY <1>1, <2>3 DEF AcquireSetNX, Goto
  <2>4. CASE TryLockFail(w) \/ TryLockStore(w)
    BY <1>1, <2>4 DEF TryLockFail, TryLockStore, Goto
  <2>5. QED
    BY <1>2, <2>1, <2>2, <2>3, <2>4 DEF TryLock
<1>3. ASSUME NEW w \in Worker, Unlock(w) PROVE SoloInv'
  BY <1>1, <1>3 DEF Unlock, UnlockLocal, UnlockRelease, DeleteIfEqual, Goto
<1>4. ASSUME NEW p \in Proc, Crash(p) PROVE SoloInv'
  BY <1>1, <1>4 DEF Crash
<1>5. CASE Expire
  BY <1>1, <1>5 DEF Expire, InUse
<1>6. CASE UNCHANGED vars
  BY <1>1, <1>6 DEF vars
<1>7. QED
  BY <1>2, <1>3, <1>4, <1>5, <1>6 DEF Next

(***************************************************************************)
(* With Redis configured, workers that are alone in their process          *)
(* (max_concurrent_syncs = 1) exclude each other, for any number of        *)
(* processes, in spite of crashes, restarts, lost Redis commands, TTL      *)
(* expiry and other processes with several workers.  For the latter it     *)
(* does not hold: run lock_shared.                                         *)
(***************************************************************************)
THEOREM SoloExclusionAlways ==
  ASSUME RedisConfigured
  PROVE  Spec => []SoloExclusion
<1>1. SoloInv => SoloExclusion
  BY LockAssumption DEF SoloInv, TypeOK, SoloExclusion, Solo
<1>2. SoloInv /\ [Next]_vars => SoloInv'
  BY SoloInvStep
<1>3. QED
  BY SoloInvInit, <1>1, <1>2, PTL DEF Spec
=============================================================================
