-------------------------- MODULE SyncTasks_proofs --------------------------
(***************************************************************************)
(* The sync_logs transactions keep their promises for any number of        *)
(* knowledge bases, rows, waterlines and retries, under arbitrary callers. *)
(* DbInv is the inductive invariant; each transaction preserves it.        *)
(***************************************************************************)
EXTENDS SyncTasks, FiniteSetTheorems, TLAPS

\* Every status change of a set of rows keeps the table well-typed.
LEMMA WithRows ==
    ASSUME NEW S, NEW s \in Status, TypeOK
    PROVE  /\ With(S, s) \in [DOMAIN logs -> Row]
           /\ DOMAIN With(S, s) = DOMAIN logs
           /\ \A t \in DOMAIN logs :
                 /\ With(S, s)[t].kb = logs[t].kb
                 /\ With(S, s)[t].type = logs[t].type
                 /\ With(S, s)[t].full = logs[t].full
                 /\ With(S, s)[t].start = logs[t].start
                 /\ With(S, s)[t].end = logs[t].end
                 /\ With(S, s)[t].errs = logs[t].errs
                 /\ With(S, s)[t].status = IF t \in S THEN s ELSE logs[t].status
BY DEF With, TypeOK, Row

LEMMA InitInv == DbInit => DbInv
BY SyncTasksAssumption
   DEF DbInit, DbInv, TypeOK, ChainContinues, NoGap, DoneCovered, Row, ConnStatus, Time

-----------------------------------------------------------------------------
(* What the transactions that only change rows in place have in common.    *)

InPlace ==
    /\ logs' \in [DOMAIN logs -> Row]
    /\ conn' \in ConnStatus
    /\ linked' \subseteq Kb
    /\ created' = created
    /\ covered' = covered
    /\ counted' \subseteq TaskId
    /\ \A t \in DOMAIN logs :
          /\ logs'[t].kb = logs[t].kb
          /\ logs'[t].type = logs[t].type
          /\ logs'[t].full = logs[t].full
          /\ logs'[t].start = logs[t].start
          /\ logs'[t].end = logs[t].end

\* No row starts running, comes back from a cancel or becomes DONE.
Settling ==
    \A t \in DOMAIN logs :
        /\ logs'[t].status = "running" => logs[t].status = "running"
        /\ logs[t].status = "cancel" => logs'[t].status = "cancel"
        /\ logs'[t].status = "done" => logs[t].status = "done"

LEMMA InPlaceStep ==
    ASSUME DbInv, InPlace, Settling PROVE DbInv'
<1> USE DEF DbInv, InPlace, Settling
<1>0. DOMAIN logs' = DOMAIN logs
  OBVIOUS
<1>1. TypeOK'
  BY <1>0 DEF TypeOK
<1>2. ChainContinues'
  BY <1>0 DEF ChainContinues
<1>3. NoGap'
  BY <1>0 DEF NoGap, DoneCovered, TypeOK, Row, Status
<1>4. DoneCovered'
  BY <1>0 DEF DoneCovered
<1> QED BY <1>1, <1>2, <1>3, <1>4

\* A status update of rows S that is not a claim or a completion is in place.
LEMMA WithInPlace ==
    ASSUME TypeOK, NEW S, NEW s \in {"schedule", "cancel", "fail"},
           s # "cancel" => \A t \in S \cap DOMAIN logs : logs[t].status # "cancel",
           logs' = With(S, s), conn' \in ConnStatus, linked' \subseteq Kb,
           created' = created, covered' = covered, counted' \subseteq TaskId
    PROVE  InPlace /\ Settling
<1>1. s \in Status
  BY DEF Status
<1> QED BY <1>1, WithRows DEF InPlace, Settling

\* The same with a new error count for one row.
LEMMA WithErrsInPlace ==
    ASSUME TypeOK, NEW t \in DOMAIN logs, NEW s \in {"schedule", "fail"}, NEW e \in Nat,
           logs[t].status # "cancel",
           logs' = [With({t}, s) EXCEPT ![t].errs = e], conn' \in ConnStatus,
           UNCHANGED <<linked, created, covered, counted>>
    PROVE  InPlace /\ Settling
<1>1. s \in Status
  BY DEF Status
<1>2. With({t}, s) \in [DOMAIN logs -> Row]
  BY <1>1, WithRows
<1>3. /\ logs' \in [DOMAIN logs -> Row]
      /\ \A u \in DOMAIN logs :
            /\ logs'[u].kb = With({t}, s)[u].kb
            /\ logs'[u].type = With({t}, s)[u].type
            /\ logs'[u].full = With({t}, s)[u].full
            /\ logs'[u].start = With({t}, s)[u].start
            /\ logs'[u].end = With({t}, s)[u].end
            /\ logs'[u].status = With({t}, s)[u].status
  BY <1>2 DEF Row
<1> QED BY <1>1, <1>3, WithRows DEF InPlace, Settling, TypeOK

LEMMA SameRows ==
    ASSUME TypeOK, logs' = logs, conn' \in ConnStatus, linked' \subseteq Kb,
           created' = created, covered' = covered, counted' \subseteq TaskId
    PROVE  InPlace /\ Settling
BY DEF TypeOK, InPlace, Settling

-----------------------------------------------------------------------------
(* One lemma per transaction.                                              *)

\* A claim that takes effect, of a linked knowledge base or of another.
Claims(t) ==
    /\ Has(t, "schedule")
    /\ logs' = With({t}, "running")
    /\ UNCHANGED <<conn, linked, created, covered>>
    /\ counted' \subseteq counted

LEMMA ClaimStep ==
    ASSUME DbInv, NEW t \in TaskId, Claims(t) PROVE DbInv'
<1> USE DEF DbInv
<1>1. /\ logs' = With({t}, "running") /\ UNCHANGED <<conn, linked, created, covered>>
      /\ t \in DOMAIN logs /\ logs[t].status = "schedule" /\ counted' \subseteq counted
  BY DEF Claims, Has
<1>2. "running" \in Status
  BY DEF Status
<1>3. TypeOK'
  BY <1>1, <1>2, WithRows DEF TypeOK
<1>4. ChainContinues'
  BY <1>1, <1>2, WithRows DEF ChainContinues
<1>5. NoGap'
  BY <1>1, <1>2, WithRows DEF NoGap
<1>6. DoneCovered'
  BY <1>1, <1>2, WithRows DEF DoneCovered
<1> QED BY <1>3, <1>4, <1>5, <1>6

\* The claims: with the connector2kb row locked, counted, committed.
LEMMA ClaimKinds ==
    ASSUME DbInv, NEW t \in TaskId, ClaimTask(t) \/ CountUnlinked(t) \/ ClaimCounted(t)
    PROVE  Claims(t) \/ (InPlace /\ Settling)
<1>1. CASE ClaimTask(t)
  BY <1>1 DEF ClaimTask, Claimable, Claims
<1>2. CASE CountUnlinked(t)
  BY <1>2, SameRows DEF CountUnlinked, DbInv, TypeOK
<1>3. CASE ClaimCounted(t)
  <2>1. CASE Has(t, "schedule")
    BY <1>3, <2>1 DEF ClaimCounted, Claims
  <2>2. CASE ~Has(t, "schedule")
    BY <1>3, <2>2, SameRows DEF ClaimCounted, DbInv, TypeOK
  <2> QED BY <2>1, <2>2
<1> QED BY <1>1, <1>2, <1>3

LEMMA AbortStep ==
    ASSUME DbInv, NEW S, AbortClaims(S) PROVE InPlace /\ Settling
BY SameRows DEF AbortClaims, DbInv, TypeOK

LEMMA MarkStep == ASSUME DbInv, MarkConnectorRunning PROVE InPlace /\ Settling
BY SameRows DEF DbInv, MarkConnectorRunning, SetConn, TypeOK, ConnStatus, Status

LEMMA RescheduleStep ==
    ASSUME DbInv, NEW t \in TaskId, RescheduleClaimed(t) PROVE InPlace /\ Settling
<1> USE DEF DbInv
<1>1. CASE Has(t, "running")
  <2>1. /\ logs' = With({t}, "schedule") /\ conn' \in ConnStatus
        /\ UNCHANGED <<linked, created, covered, counted>>
    BY <1>1 DEF RescheduleClaimed, TypeOK, ConnStatus, Status
  <2> QED BY <1>1, <2>1, WithInPlace DEF Has, TypeOK
<1>2. CASE ~Has(t, "running")
  BY <1>2, SameRows DEF RescheduleClaimed, TypeOK
<1> QED BY <1>1, <1>2

LEMMA FailStep ==
    ASSUME DbInv, NEW t \in TaskId, NEW touch \in BOOLEAN, FailTask(t, touch)
    PROVE  InPlace /\ Settling
<1> USE DEF DbInv
<1>1. CASE t \in DOMAIN logs /\ ~Has(t, "cancel")
  <2>1. /\ logs' = [With({t}, "fail") EXCEPT ![t].errs = 1] /\ conn' \in ConnStatus
        /\ UNCHANGED <<linked, created, covered, counted>>
    BY <1>1 DEF FailTask, SetConn, TypeOK, ConnStatus, Status
  <2> QED BY <1>1, <2>1, WithErrsInPlace DEF Has
<1>2. CASE ~(t \in DOMAIN logs /\ ~Has(t, "cancel"))
  BY <1>2, SameRows DEF FailTask, TypeOK
<1> QED BY <1>1, <1>2

LEMMA TransientStep ==
    ASSUME DbInv, NEW t \in TaskId, HandleTransientFailure(t) PROVE InPlace /\ Settling
<1> USE DEF DbInv
<1>1. CASE Has(t, "running")
  <2>1. /\ logs' = [With({t}, AfterTransient(t)) EXCEPT ![t].errs = logs[t].errs + 1]
        /\ AfterTransient(t) \in {"schedule", "fail"}
        /\ conn' \in ConnStatus
        /\ UNCHANGED <<linked, created, covered, counted>>
    BY <1>1 DEF HandleTransientFailure, AfterTransient, SetConn, TypeOK, ConnStatus, Status
  <2>2. logs[t].errs + 1 \in Nat /\ t \in DOMAIN logs /\ logs[t].status # "cancel"
    BY <1>1 DEF Has, TypeOK, Row
  <2> QED BY <2>1, <2>2, WithErrsInPlace
<1>2. CASE ~Has(t, "running")
  BY <1>2, SameRows DEF HandleTransientFailure, TypeOK
<1> QED BY <1>1, <1>2

LEMMA RecoverStep == ASSUME DbInv, NEW S, RecoverRunning(S) PROVE InPlace /\ Settling
<1> DEFINE running == {t \in S : Has(t, "running")}
<1>1. /\ logs' = With(running, "schedule") /\ conn' \in ConnStatus
      /\ UNCHANGED <<linked, created, covered, counted>>
  BY DEF RecoverRunning, DbInv, TypeOK, ConnStatus, Status
<1> QED BY <1>1, WithInPlace DEF DbInv, TypeOK, Has

LEMMA CancelLogsStep ==
    ASSUME DbInv, CancelRunningOrScheduledLogs PROVE InPlace /\ Settling
BY WithInPlace DEF CancelRunningOrScheduledLogs, DbInv, TypeOK

LEMMA CancelConnectorStep == ASSUME DbInv, CancelConnector PROVE InPlace /\ Settling
BY SameRows DEF CancelConnector, SetConn, DbInv, TypeOK, ConnStatus, Status

LEMMA DeleteStep == ASSUME DbInv, DeleteConnectorRow PROVE InPlace /\ Settling
BY SameRows DEF DeleteConnectorRow, DbInv, TypeOK, ConnStatus

LEMMA UnlinkStep ==
    ASSUME DbInv, NEW k \in Kb, UnlinkKb(k) PROVE InPlace /\ Settling
<1>1. linked' \subseteq Kb
  BY DEF UnlinkKb, DbInv, TypeOK
<1> QED BY <1>1, WithInPlace DEF UnlinkKb, DbInv, TypeOK

LEMMA ResumeStep ==
    ASSUME DbInv, NEW t \in TaskId, ResumeFailedSyncTask(t) PROVE InPlace /\ Settling
<1>1. /\ logs' = [With({t}, "schedule") EXCEPT ![t].errs = 0] /\ conn' \in ConnStatus
      /\ UNCHANGED <<linked, created, covered, counted>>
  BY DEF ResumeFailedSyncTask, SetConn, DbInv, TypeOK, ConnStatus, Status
<1> QED BY <1>1, WithErrsInPlace DEF ResumeFailedSyncTask, Has, DbInv

-----------------------------------------------------------------------------
(* Transactions that insert rows.                                          *)

\* A completion leaves a scheduled row of its knowledge base and type behind.
Continued ==
    \A t \in DOMAIN logs :
        logs[t].status = "running" /\ logs'[t].status = "done" /\ logs[t].type \in Scheduled =>
            \E u \in DOMAIN logs' : /\ logs'[u].kb = logs[t].kb
                                    /\ logs'[u].type = logs[t].type
                                    /\ logs'[u].status = "schedule"

\* Rows ids are new and wait to be claimed, at most at the waterline; the
\* others keep their window and only a running one completes.
Grows(ids) ==
    /\ DOMAIN logs' = DOMAIN logs \cup ids
    /\ logs' \in [DOMAIN logs \cup ids -> Row]
    /\ ids \cap DOMAIN logs = {}
    /\ created <= created' /\ \A t \in ids : created < t
    /\ DOMAIN logs' \subseteq 1..created'
    /\ created' \in 0..MaxTask
    /\ conn' \in ConnStatus
    /\ linked' \subseteq Kb
    /\ counted' \subseteq TaskId
    /\ Continued
    /\ covered' \in [Kb -> Time]
    /\ \A k \in Kb : covered[k] <= covered'[k]
    /\ \A t \in DOMAIN logs :
          /\ logs'[t].kb = logs[t].kb
          /\ logs'[t].type = logs[t].type
          /\ logs'[t].full = logs[t].full
          /\ logs'[t].start = logs[t].start
          /\ \/ logs'[t].status = logs[t].status /\ logs'[t].end = logs[t].end
             \/ /\ logs[t].status = "running" /\ logs'[t].status = "done"
                /\ logs[t].type = "sync" => logs'[t].end <= covered'[logs[t].kb]
    /\ \A t \in ids :
          /\ logs'[t].status = "schedule"
          /\ logs'[t].type = "sync" /\ ~logs'[t].full => logs'[t].start <= covered'[logs'[t].kb]

LEMMA GrowsStep == ASSUME DbInv, NEW ids, Grows(ids) PROVE DbInv'
<1> USE DEF DbInv, Grows
<1>0. /\ \A k \in Kb : covered[k] \in Nat /\ covered'[k] \in Nat
      /\ \A t \in DOMAIN logs : logs[t].kb \in Kb /\ logs[t].start \in Nat /\ logs[t].end \in Nat
  BY SyncTasksAssumption DEF TypeOK, Row, Time
<1>1. TypeOK'
  BY DEF TypeOK
<1>2. ChainContinues'
  <2> SUFFICES ASSUME NEW t \in DOMAIN logs', logs'[t].type \in Scheduled
               PROVE  \E u \in DOMAIN logs' : /\ logs'[u].kb = logs'[t].kb
                                              /\ logs'[u].type = logs'[t].type
                                              /\ logs'[u].status # "done"
    BY DEF ChainContinues
  <2>1. CASE t \in ids
    BY <2>1
  <2>2. CASE t \in DOMAIN logs
    <3>1. PICK u \in DOMAIN logs : /\ logs[u].kb = logs[t].kb
                                   /\ logs[u].type = logs[t].type
                                   /\ logs[u].status # "done"
      BY <2>2 DEF ChainContinues
    <3>2. CASE logs'[u].status # "done"
      BY <2>2, <3>1, <3>2
    <3>3. CASE logs'[u].status = "done"
      <4>1. logs[u].status = "running" /\ logs[u].type \in Scheduled
        BY <2>2, <3>1, <3>3
      <4>2. PICK v \in DOMAIN logs' : /\ logs'[v].kb = logs[u].kb
                                      /\ logs'[v].type = logs[u].type
                                      /\ logs'[v].status = "schedule"
        BY <3>3, <4>1 DEF Continued
      <4> QED BY <2>2, <3>1, <4>2
    <3> QED BY <3>2, <3>3
  <2> QED BY <2>1, <2>2
<1>3. NoGap'
  <2> SUFFICES ASSUME NEW t \in DOMAIN logs', logs'[t].type = "sync", ~logs'[t].full,
                      logs'[t].status \in {"schedule", "running", "fail"}
               PROVE  logs'[t].start <= covered'[logs'[t].kb]
    BY DEF NoGap
  <2>1. CASE t \in DOMAIN logs
    <3>1. logs[t].start <= covered[logs[t].kb]
      BY <2>1 DEF NoGap
    <3> QED BY <1>0, <2>1, <3>1
  <2> QED BY <2>1
<1>4. DoneCovered'
  <2> SUFFICES ASSUME NEW t \in DOMAIN logs', logs'[t].type = "sync", logs'[t].status = "done"
               PROVE  /\ logs'[t].end <= covered'[logs'[t].kb]
                      /\ logs'[t].full \/ logs'[t].start <= covered'[logs'[t].kb]
    BY DEF DoneCovered
  <2>0. t \in DOMAIN logs
    OBVIOUS
  <2>1. CASE logs[t].status = "running"
    <3>1. logs[t].full \/ logs[t].start <= covered[logs[t].kb]
      BY <2>0, <2>1 DEF NoGap
    <3> QED BY <1>0, <2>0, <2>1, <3>1
  <2>2. CASE logs[t].status = "done"
    <3>1. /\ logs[t].end <= covered[logs[t].kb]
          /\ logs[t].full \/ logs[t].start <= covered[logs[t].kb]
      BY <2>0, <2>2 DEF DoneCovered
    <3> QED BY <1>0, <2>0, <2>2, <3>1
  <2> QED BY <2>0, <2>1, <2>2
<1> QED BY <1>1, <1>2, <1>3, <1>4

\* The waterline that Covers computes reaches the end of the completed window.
LEMMA CoversReaches ==
    ASSUME DbInv, NEW t \in DOMAIN logs, logs[t].type = "sync", logs[t].status = "running",
           NEW end \in Time
    PROVE  /\ Covers(t, end) \in [Kb -> Time]
           /\ \A k \in Kb : covered[k] <= Covers(t, end)[k]
           /\ end <= Covers(t, end)[logs[t].kb]
<1> DEFINE k == logs[t].kb
           from == IF logs[t].full THEN 0 ELSE logs[t].start
<1>1. /\ k \in Kb /\ covered \in [Kb -> Time] /\ logs[t].start \in Nat
      /\ \A j \in Kb : covered[j] \in Nat
      /\ end \in Nat
  BY SyncTasksAssumption DEF DbInv, TypeOK, Row, Time
<1>2. from <= covered[k]
  BY <1>1 DEF DbInv, NoGap
<1> QED BY <1>1, <1>2 DEF Covers

\* A completion: the reused row stays as it is, or the next row is inserted.
LEMMA CompletionStep ==
    ASSUME DbInv, NEW t \in DOMAIN logs, logs[t].status = "running",
           NEW k \in Kb, logs[t].kb = k, NEW y \in TaskType, logs[t].type = y,
           NEW done, NEW start \in Time,
           done \in [DOMAIN logs -> Row],
           \A u \in DOMAIN logs :
              /\ done[u].kb = logs[u].kb
              /\ done[u].type = logs[u].type
              /\ done[u].full = logs[u].full
              /\ done[u].start = logs[u].start
              /\ u # t => done[u].status = logs[u].status /\ done[u].end = logs[u].end,
           done[t].status = "done",
           y = "sync" => done[t].end <= covered'[k] /\ start <= covered'[k],
           covered' \in [Kb -> Time], \A j \in Kb : covered[j] <= covered'[j],
           linked' = linked, counted' = counted,
           CreateScheduledTask(done, k, y, start)
    PROVE  \E ids : Grows(ids)
<1>0. TypeOK /\ linked' \subseteq Kb /\ counted' \subseteq TaskId
  BY DEF DbInv, TypeOK
<1>1. CASE TypedRows(k, y, "schedule") # {}
  <2>1. logs' = done /\ created' = created /\ conn' \in ConnStatus
    BY <1>0, <1>1 DEF CreateScheduledTask, SetConn, TypeOK, ConnStatus, Status
  <2>2. Continued
    <3>1. PICK v \in DOMAIN logs : /\ logs[v].kb = k /\ logs[v].type = y
                                   /\ logs[v].status = "schedule"
      BY <1>1 DEF TypedRows, Rows
    <3>2. /\ v \in DOMAIN logs' /\ logs'[v].kb = k /\ logs'[v].type = y
          /\ logs'[v].status = "schedule"
      BY <2>1, <3>1
    <3>3. \A u \in DOMAIN logs : logs[u].status = "running" /\ logs'[u].status = "done" => u = t
      BY <2>1
    <3> QED BY <3>2, <3>3 DEF Continued
  <2>3. Grows({})
    BY <1>0, <2>1, <2>2 DEF Grows, TypeOK
  <2> QED BY <2>3
<1>2. CASE TypedRows(k, y, "schedule") = {}
  <2> DEFINE n == created + 1
  <2>1. /\ created < MaxTask
        /\ logs' = Insert(done, n, NewRow(k, y, FALSE, start))
        /\ conn' \in ConnStatus /\ created' = n
    BY <1>0, <1>2 DEF CreateScheduledTask, SetConn, TypeOK, ConnStatus, Status
  <2>2. NewRow(k, y, FALSE, start) \in Row
    BY SyncTasksAssumption DEF NewRow, Row, Status, Time
  <2>3. created \in Nat /\ MaxTask \in Nat /\ DOMAIN logs \subseteq 1..created
    BY <1>0, SyncTasksAssumption DEF TypeOK
  <2>4. n \notin DOMAIN logs
    BY <2>3
  <2>5. /\ DOMAIN logs' = DOMAIN logs \cup {n}
        /\ logs' \in [DOMAIN logs \cup {n} -> Row]
        /\ logs'[n] = NewRow(k, y, FALSE, start)
        /\ \A u \in DOMAIN logs : logs'[u] = done[u]
    BY <2>1, <2>2, <2>4 DEF Insert
  <2>6. created' \in 0..MaxTask /\ 1..created \subseteq 1..created' /\ n \in 1..created'
    BY <2>1, <2>3
  <2>7. DOMAIN logs' \subseteq 1..created'
    BY <2>3, <2>5, <2>6
  <2>8. /\ logs'[n].kb = k /\ logs'[n].type = y /\ logs'[n].status = "schedule"
        /\ logs'[n].start = start
    BY <2>5 DEF NewRow
  <2>9. \A u \in DOMAIN logs :
           /\ logs'[u].kb = logs[u].kb
           /\ logs'[u].type = logs[u].type
           /\ logs'[u].full = logs[u].full
           /\ logs'[u].start = logs[u].start
           /\ u # t => logs'[u].status = logs[u].status /\ logs'[u].end = logs[u].end
           /\ u = t => logs'[u].status = "done" /\ logs'[u].end = done[t].end
    BY <2>5
  <2> HIDE DEF n
  <2>10. Grows({n})
    <3>1. \A u \in DOMAIN logs :
             \/ logs'[u].status = logs[u].status /\ logs'[u].end = logs[u].end
             \/ /\ logs[u].status = "running" /\ logs'[u].status = "done"
                /\ logs[u].type = "sync" => logs'[u].end <= covered'[logs[u].kb]
      BY <2>9
    <3>2. \A u \in {n} :
             /\ logs'[u].status = "schedule"
             /\ logs'[u].type = "sync" /\ ~logs'[u].full => logs'[u].start <= covered'[logs'[u].kb]
      BY <2>8
    <3>3. /\ {n} \cap DOMAIN logs = {}
          /\ created <= created' /\ \A u \in {n} : created < u
      BY <2>1, <2>3, <2>4 DEF n
    <3>4. Continued
      <4>1. n \in DOMAIN logs'
        BY <2>5
      <4>2. \A u \in DOMAIN logs : logs[u].status = "running" /\ logs'[u].status = "done" => u = t
        BY <2>9
      <4> QED BY <2>8, <4>1, <4>2 DEF Continued
    <3> QED BY <1>0, <2>1, <2>5, <2>6, <2>7, <2>9, <3>1, <3>2, <3>3, <3>4 DEF Grows
  <2> QED BY <2>10
<1> QED BY <1>1, <1>2

LEMMA CompleteSyncStep ==
    ASSUME DbInv, NEW t \in TaskId, NEW k \in Kb, NEW end \in Time,
           t \in DOMAIN logs => logs[t].kb = k /\ logs[t].type = "sync",
           CompleteSyncTask(t, k, end)
    PROVE  (InPlace /\ Settling) \/ \E ids : Grows(ids)
<1>1. CASE Has(t, "running")
  <2> DEFINE done == [With({t}, "done") EXCEPT ![t].end = end, ![t].errs = 0]
  <2>1. t \in DOMAIN logs /\ logs[t].status = "running" /\ logs[t].type = "sync" /\ logs[t].kb = k
    BY <1>1 DEF Has
  <2>2. /\ covered' = Covers(t, end) /\ linked' = linked /\ counted' = counted
        /\ CreateScheduledTask(done, k, "sync", end)
    BY <1>1 DEF CompleteSyncTask
  <2>3. "done" \in Status /\ TypeOK /\ "sync" \in TaskType
    BY DEF Status, DbInv, TaskType
  <2>4. With({t}, "done") \in [DOMAIN logs -> Row]
    BY <2>3, WithRows
  <2>5. /\ done \in [DOMAIN logs -> Row]
        /\ done[t].end = end
        /\ \A u \in DOMAIN logs :
              /\ done[u].kb = With({t}, "done")[u].kb
              /\ done[u].type = With({t}, "done")[u].type
              /\ done[u].full = With({t}, "done")[u].full
              /\ done[u].start = With({t}, "done")[u].start
              /\ u # t => done[u].end = With({t}, "done")[u].end
              /\ done[u].status = With({t}, "done")[u].status
    BY <2>1, <2>4 DEF Row
  <2>6. /\ \A u \in DOMAIN logs :
              /\ done[u].kb = logs[u].kb
              /\ done[u].type = logs[u].type
              /\ done[u].full = logs[u].full
              /\ done[u].start = logs[u].start
              /\ u # t => done[u].status = logs[u].status /\ done[u].end = logs[u].end
        /\ done[t].status = "done"
    <3>1. \A u \in DOMAIN logs :
             /\ With({t}, "done")[u].kb = logs[u].kb
             /\ With({t}, "done")[u].type = logs[u].type
             /\ With({t}, "done")[u].full = logs[u].full
             /\ With({t}, "done")[u].start = logs[u].start
             /\ With({t}, "done")[u].end = logs[u].end
             /\ With({t}, "done")[u].status = IF u \in {t} THEN "done" ELSE logs[u].status
      BY <2>3, WithRows
    <3> HIDE DEF done
    <3> QED BY <2>1, <2>5, <3>1
  <2>7. /\ covered' \in [Kb -> Time] /\ \A j \in Kb : covered[j] <= covered'[j]
        /\ end <= covered'[k]
    BY <2>1, <2>2, CoversReaches
  <2> HIDE DEF done
  <2> QED BY <2>1, <2>2, <2>3, <2>5, <2>6, <2>7, CompletionStep
<1>2. CASE ~Has(t, "running")
  BY <1>2, SameRows DEF CompleteSyncTask, DbInv, TypeOK
<1> QED BY <1>1, <1>2

LEMMA CompletePruneStep ==
    ASSUME DbInv, NEW t \in TaskId, NEW k \in Kb,
           t \in DOMAIN logs => logs[t].kb = k /\ logs[t].type = "prune",
           CompletePruneTask(t, k)
    PROVE  (InPlace /\ Settling) \/ \E ids : Grows(ids)
<1>0. /\ TypeOK /\ "done" \in Status /\ "prune" \in TaskType /\ 0 \in Time
      /\ linked' = linked /\ covered' = covered
      /\ counted' = counted /\ counted \subseteq TaskId
      /\ covered' \in [Kb -> Time] /\ \A j \in Kb : covered[j] <= covered'[j]
  BY SyncTasksAssumption DEF Status, TaskType, Time, DbInv, CompletePruneTask, TypeOK
<1> DEFINE done == With({t}, "done")
<1>1. CASE ~Has(t, "running")
  BY <1>1, SameRows DEF CompletePruneTask, DbInv, TypeOK
<1>2. CASE Has(t, "running")
  <2>1. t \in DOMAIN logs /\ logs[t].status = "running" /\ logs[t].type = "prune" /\ logs[t].kb = k
    BY <1>2 DEF Has
  <2>2. /\ done \in [DOMAIN logs -> Row]
        /\ \A u \in DOMAIN logs :
              /\ done[u].kb = logs[u].kb
              /\ done[u].type = logs[u].type
              /\ done[u].full = logs[u].full
              /\ done[u].start = logs[u].start
              /\ u # t => done[u].status = logs[u].status /\ done[u].end = logs[u].end
        /\ done[t].status = "done"
    BY <1>0, <2>1, WithRows
  <2>3. CASE SyncDeletedFiles
    <3>1. CreateScheduledTask(done, k, "prune", 0)
      BY <1>2, <2>3 DEF CompletePruneTask
    <3> HIDE DEF done
    <3> QED BY <1>0, <2>1, <2>2, <3>1, CompletionStep
  <2>4. CASE ~SyncDeletedFiles
    <3>1. logs' = done /\ conn' \in ConnStatus /\ created' = created
      BY <1>0, <1>2, <2>4 DEF CompletePruneTask, SetConn, TypeOK, ConnStatus
    <3>2. created \in Nat /\ DOMAIN logs \subseteq 1..created /\ linked \subseteq Kb
          /\ created \in 0..MaxTask
      BY <1>0, SyncTasksAssumption DEF TypeOK
    <3> HIDE DEF done
    <3>3. \A u \in DOMAIN logs :
             \/ logs'[u].status = logs[u].status /\ logs'[u].end = logs[u].end
             \/ logs[u].status = "running" /\ logs'[u].status = "done" /\ logs[u].type # "sync"
      BY <2>1, <2>2, <3>1
    <3>4. DOMAIN logs' = DOMAIN logs \cup {} /\ created <= created'
      BY <2>2, <3>1, <3>2
    <3>5. Continued
      BY <2>1, <2>2, <2>4, <3>1 DEF Continued, Scheduled
    <3>6. Grows({})
      BY <1>0, <2>2, <3>1, <3>2, <3>3, <3>4, <3>5 DEF Grows
    <3> QED BY <3>6
  <2> QED BY <2>3, <2>4
<1> QED BY <1>1, <1>2

\* The waterlines scheduleConnectorTask may start from are covered.
LEMMA LatestCovered ==
    ASSUME DbInv, NEW k \in Kb, NEW y \in TaskType, NEW e \in LatestEnds(k, y)
    PROVE  e \in Time /\ (y = "sync" => e <= covered[k])
<1>0. 0 \in Time /\ \A j \in Kb : covered[j] \in Nat
  BY SyncTasksAssumption DEF DbInv, TypeOK, Time
<1>1. CASE y = "sync" /\ TypedRows(k, y, "done") # {}
  <2>1. PICK t \in TypedRows(k, y, "done") : e = logs[t].end
    BY <1>1 DEF LatestEnds
  <2>2. /\ t \in DOMAIN logs /\ logs[t].kb = k /\ logs[t].type = "sync" /\ logs[t].status = "done"
    BY <1>1, <2>1 DEF TypedRows, Rows
  <2>3. logs[t].end \in Time
    BY <2>2 DEF DbInv, TypeOK, Row
  <2>4. logs[t].end <= covered[k]
    BY <2>2 DEF DbInv, DoneCovered
  <2> QED BY <2>1, <2>3, <2>4
<1>2. CASE ~(y = "sync" /\ TypedRows(k, y, "done") # {})
  <2>1. e = 0
    BY <1>2 DEF LatestEnds
  <2> QED BY <1>0, <2>1
<1> QED BY <1>1, <1>2

LEMMA ScheduledTypes == Scheduled \subseteq TaskType /\ IsFiniteSet(Scheduled)
<1>1. Scheduled \in {{"sync", "prune"}, {"sync"}}
  BY DEF Scheduled, TaskType
<1>2. IsFiniteSet({"sync"}) /\ IsFiniteSet({"sync"} \cup {"prune"})
  BY FS_Singleton, FS_AddElement
<1> QED BY <1>1, <1>2 DEF TaskType

LEMMA MissingFinite ==
    ASSUME NEW S, S \subseteq Kb
    PROVE  /\ Missing(S) \subseteq Kb \X TaskType
           /\ Cardinality(Missing(S)) \in Nat
<1>1. Missing(S) \subseteq Kb \X Scheduled
  BY DEF Missing
<1>2. IsFiniteSet(Kb \X Scheduled)
  BY SyncTasksAssumption, ScheduledTypes, FS_Product
<1>3. IsFiniteSet(Missing(S))
  BY <1>1, <1>2, FS_Subset
<1> QED BY <1>1, <1>3, ScheduledTypes, FS_CardinalityType

LEMMA ScheduleMissingStep ==
    ASSUME DbInv, NEW S, S \subseteq Kb, NEW full \in BOOLEAN,
           ScheduleMissing(Missing(S), full),
           conn' \in ConnStatus, linked' \subseteq Kb, covered' = covered, counted' = counted
    PROVE  \E ids : Grows(ids)
<1> DEFINE need == Missing(S)
           card == Cardinality(need)
           ids == created + 1 .. created + card
<1>1. need \subseteq Kb \X TaskType /\ card \in Nat
  BY MissingFinite
<1>2. /\ created \in Nat /\ MaxTask \in Nat /\ DOMAIN logs \subseteq 1..created
      /\ logs \in [DOMAIN logs -> Row] /\ covered \in [Kb -> Time]
      /\ \A k \in Kb : covered[k] \in Nat
  BY SyncTasksAssumption DEF DbInv, TypeOK, Time
<1>3. created' = created + card /\ created + card <= MaxTask
  BY DEF ScheduleMissing
<1>4. PICK at \in [ids -> need], from \in [need -> Time] :
        /\ \A n \in need : from[n] \in LatestEnds(n[1], n[2])
        /\ logs' = [t \in DOMAIN logs \cup ids |->
                      IF t \in ids
                      THEN NewRow(at[t][1], at[t][2], full /\ at[t][2] = "sync", from[at[t]])
                      ELSE logs[t]]
  BY DEF ScheduleMissing
<1>5. ids \cap DOMAIN logs = {} /\ created' \in 0..MaxTask
      /\ created <= created' /\ (\A t \in ids : created < t)
      /\ ids \subseteq 1..created' /\ 1..created \subseteq 1..created'
  BY <1>1, <1>2, <1>3
<1> HIDE DEF need, card, ids
<1>6. \A t \in ids : /\ at[t] \in need /\ at[t][1] \in Kb /\ at[t][2] \in TaskType
                     /\ from[at[t]] \in Time
                     /\ from[at[t]] \in LatestEnds(at[t][1], at[t][2])
  BY <1>1, <1>4
<1>7. \A t \in ids : at[t][2] = "sync" => from[at[t]] <= covered[at[t][1]]
  BY <1>6, LatestCovered
<1>8. /\ DOMAIN logs' = DOMAIN logs \cup ids
      /\ \A t \in DOMAIN logs : logs'[t] = logs[t]
      /\ \A t \in ids : logs'[t] = NewRow(at[t][1], at[t][2], full /\ at[t][2] = "sync", from[at[t]])
  BY <1>4, <1>5
<1>9. \A t \in ids : logs'[t] \in Row
  <2> SUFFICES ASSUME NEW t \in ids PROVE logs'[t] \in Row
    OBVIOUS
  <2> DEFINE f == full /\ at[t][2] = "sync"
  <2>1. f \in BOOLEAN
    OBVIOUS
  <2>2. logs'[t] = NewRow(at[t][1], at[t][2], f, from[at[t]])
    BY <1>8
  <2> HIDE DEF f
  <2> QED BY <1>6, <2>1, <2>2, SyncTasksAssumption DEF NewRow, Row, Status, Time
<1>10. \A t \in ids :
          /\ logs'[t].status = "schedule" /\ logs'[t].kb = at[t][1]
          /\ logs'[t].type = at[t][2] /\ logs'[t].start = from[at[t]]
  BY <1>8 DEF NewRow
<1>11. logs' \in [DOMAIN logs \cup ids -> Row]
  BY <1>2, <1>4, <1>8, <1>9
<1>12. DOMAIN logs' \subseteq 1..created'
  BY <1>2, <1>5, <1>8
<1>13. \A t \in ids :
          /\ logs'[t].status = "schedule"
          /\ logs'[t].type = "sync" /\ ~logs'[t].full => logs'[t].start <= covered'[logs'[t].kb]
  BY <1>7, <1>10
<1>14. covered' \in [Kb -> Time] /\ \A k \in Kb : covered[k] <= covered'[k]
  BY <1>2
<1>15. Continued /\ counted' \subseteq TaskId
  BY <1>8 DEF Continued, DbInv, TypeOK
<1>16. Grows(ids)
  BY <1>5, <1>8, <1>11, <1>12, <1>13, <1>14, <1>15 DEF Grows
<1> QED BY <1>16

LEMMA ScheduleStep == ASSUME DbInv, ScheduleConnectorTasks PROVE \E ids : Grows(ids)
<1>1. linked \subseteq Kb /\ linked' \subseteq Kb /\ covered' = covered /\ conn' \in ConnStatus
      /\ counted' = counted
  BY DEF ScheduleConnectorTasks, SetConn, DbInv, TypeOK, ConnStatus, Status
<1>2. ScheduleMissing(Missing(linked), FALSE)
  BY DEF ScheduleConnectorTasks
<1> QED BY <1>1, <1>2, ScheduleMissingStep

LEMMA LinkStep == ASSUME DbInv, NEW k \in Kb, LinkKb(k) PROVE \E ids : Grows(ids)
<1>1. linked' \subseteq Kb /\ covered' = covered /\ conn' \in ConnStatus /\ counted' = counted
  BY DEF LinkKb, DbInv, TypeOK
<1>2. ScheduleMissing(Missing({k}), TRUE)
  BY DEF LinkKb
<1> QED BY <1>1, <1>2, ScheduleMissingStep

\* A rebuild keeps the rows of the other knowledge bases and starts k over.
LEMMA RebuildRows ==
    ASSUME DbInv, NEW k \in Kb, RebuildConnector(k)
    PROVE  \E ids :
              /\ DOMAIN logs' = {t \in DOMAIN logs : logs[t].kb # k} \cup ids
              /\ logs' \in [DOMAIN logs' -> Row]
              /\ DOMAIN logs' \subseteq 1..created'
              /\ created' \in 0..MaxTask
              /\ ids \cap DOMAIN logs = {}
              /\ created <= created' /\ \A t \in ids : created < t
              /\ \A t \in DOMAIN logs : logs[t].kb # k => logs'[t] = logs[t]
              /\ \A t \in ids : /\ logs'[t].kb = k /\ logs'[t].status = "schedule"
                                /\ logs'[t].start = 0
<1> DEFINE kept == {t \in DOMAIN logs : logs[t].kb # k}
           card == Cardinality(Scheduled)
           ids == created + 1 .. created + card
<1>1. card \in Nat
  BY ScheduledTypes, FS_CardinalityType
<1>2. /\ created \in Nat /\ MaxTask \in Nat /\ DOMAIN logs \subseteq 1..created
      /\ logs \in [DOMAIN logs -> Row] /\ 0 \in Time
  BY SyncTasksAssumption DEF DbInv, TypeOK, Time
<1>3. created' = created + card /\ created + card <= MaxTask
  BY DEF RebuildConnector
<1>4. PICK at \in [ids -> Scheduled] :
        logs' = [t \in kept \cup ids |->
                   IF t \in ids THEN NewRow(k, at[t], at[t] = "sync", 0) ELSE logs[t]]
  BY DEF RebuildConnector
<1>5. ids \cap DOMAIN logs = {} /\ created' \in 0..MaxTask
      /\ created <= created' /\ (\A t \in ids : created < t)
      /\ ids \subseteq 1..created' /\ 1..created \subseteq 1..created'
  BY <1>1, <1>2, <1>3
<1> HIDE DEF ids
<1>6. /\ DOMAIN logs' = kept \cup ids
      /\ \A t \in kept : logs'[t] = logs[t]
      /\ \A t \in ids : logs'[t] = NewRow(k, at[t], at[t] = "sync", 0)
  BY <1>4, <1>5
<1>7. \A t \in ids : logs'[t] \in Row
  <2> SUFFICES ASSUME NEW t \in ids PROVE logs'[t] \in Row
    OBVIOUS
  <2> DEFINE f == at[t] = "sync"
  <2>1. f \in BOOLEAN /\ at[t] \in TaskType
    BY ScheduledTypes
  <2>2. logs'[t] = NewRow(k, at[t], f, 0)
    BY <1>6
  <2> HIDE DEF f
  <2> QED BY <1>2, <2>1, <2>2 DEF NewRow, Row, Status
<1>8. \A t \in ids : logs'[t].kb = k /\ logs'[t].status = "schedule" /\ logs'[t].start = 0
  BY <1>6 DEF NewRow
<1>9. logs' \in [DOMAIN logs' -> Row]
  BY <1>2, <1>4, <1>6, <1>7
<1> QED BY <1>2, <1>5, <1>6, <1>8, <1>9

LEMMA RebuildStep == ASSUME DbInv, NEW k \in Kb, RebuildConnector(k) PROVE DbInv'
<1>1. PICK ids :
              /\ DOMAIN logs' = {t \in DOMAIN logs : logs[t].kb # k} \cup ids
              /\ logs' \in [DOMAIN logs' -> Row]
              /\ DOMAIN logs' \subseteq 1..created'
              /\ created' \in 0..MaxTask
              /\ ids \cap DOMAIN logs = {}
              /\ created <= created' /\ \A t \in ids : created < t
              /\ \A t \in DOMAIN logs : logs[t].kb # k => logs'[t] = logs[t]
              /\ \A t \in ids : /\ logs'[t].kb = k /\ logs'[t].status = "schedule"
                                /\ logs'[t].start = 0
  BY RebuildRows
<1>2. /\ conn' \in ConnStatus /\ linked' \subseteq Kb /\ counted' \subseteq TaskId
      /\ covered' \in [Kb -> Time] /\ covered'[k] = 0
      /\ \A j \in Kb : j # k => covered'[j] = covered[j]
  BY SyncTasksAssumption
     DEF RebuildConnector, SetConn, DbInv, TypeOK, ConnStatus, Status, Time
<1>3. TypeOK'
  BY <1>1, <1>2 DEF TypeOK
<1>4. \A t \in DOMAIN logs' \ ids : logs'[t] = logs[t] /\ t \in DOMAIN logs
                                    /\ logs[t].kb \in Kb /\ logs[t].kb # k
  BY <1>1 DEF DbInv, TypeOK, Row
<1>5. ChainContinues'
  <2> SUFFICES ASSUME NEW t \in DOMAIN logs', logs'[t].type \in Scheduled
               PROVE  \E u \in DOMAIN logs' : /\ logs'[u].kb = logs'[t].kb
                                              /\ logs'[u].type = logs'[t].type
                                              /\ logs'[u].status # "done"
    BY DEF ChainContinues
  <2>1. CASE t \in ids
    BY <1>1, <2>1
  <2>2. CASE t \notin ids
    <3>1. PICK u \in DOMAIN logs : /\ logs[u].kb = logs[t].kb
                                   /\ logs[u].type = logs[t].type
                                   /\ logs[u].status # "done"
      BY <1>4, <2>2 DEF DbInv, ChainContinues
    <3>2. u \in DOMAIN logs' /\ logs'[u] = logs[u]
      BY <1>1, <1>4, <2>2, <3>1
    <3> QED BY <1>4, <2>2, <3>1, <3>2
  <2> QED BY <2>1, <2>2
<1>6. NoGap'
  <2> SUFFICES ASSUME NEW t \in DOMAIN logs', logs'[t].type = "sync", ~logs'[t].full,
                      logs'[t].status \in {"schedule", "running", "fail"}
               PROVE  logs'[t].start <= covered'[logs'[t].kb]
    BY DEF NoGap
  <2>1. CASE t \in ids
    BY <1>1, <1>2, <2>1
  <2>2. CASE t \notin ids
    BY <1>2, <1>4, <2>2 DEF DbInv, NoGap
  <2> QED BY <2>1, <2>2
<1>7. DoneCovered'
  <2> SUFFICES ASSUME NEW t \in DOMAIN logs', logs'[t].type = "sync", logs'[t].status = "done"
               PROVE  /\ logs'[t].end <= covered'[logs'[t].kb]
                      /\ logs'[t].full \/ logs'[t].start <= covered'[logs'[t].kb]
    BY DEF DoneCovered
  <2>1. t \notin ids
    BY <1>1
  <2> QED BY <1>2, <1>4, <2>1 DEF DbInv, DoneCovered
<1> QED BY <1>3, <1>5, <1>6, <1>7 DEF DbInv

-----------------------------------------------------------------------------
(* The transactions together.                                              *)

\* Every transaction is of one of four kinds.
LEMMA StepKinds ==
    ASSUME DbInv, DbNext
    PROVE  \/ InPlace /\ Settling
           \/ \E ids : Grows(ids)
           \/ \E t \in TaskId : Claims(t)
           \/ \E k \in Kb : RebuildConnector(k)
<1>1. ASSUME NEW t \in TaskId, TaskOp(t)
      PROVE  (InPlace /\ Settling) \/ (\E ids : Grows(ids)) \/ Claims(t)
  BY <1>1, ClaimKinds, RescheduleStep, FailStep, TransientStep, CompleteSyncStep, CompletePruneStep,
     ResumeStep DEF TaskOp
<1>2. ASSUME NEW k \in Kb, KbOp(k)
      PROVE  (InPlace /\ Settling) \/ (\E ids : Grows(ids)) \/ RebuildConnector(k)
  BY <1>2, LinkStep, UnlinkStep DEF KbOp
<1>3. ASSUME ConnectorOp PROVE (InPlace /\ Settling) \/ \E ids : Grows(ids)
  BY <1>3, MarkStep, RecoverStep, AbortStep, CancelLogsStep, CancelConnectorStep, DeleteStep,
     ScheduleStep DEF ConnectorOp
<1> QED BY <1>1, <1>2, <1>3 DEF DbNext

LEMMA DbInvStep == ASSUME DbInv, [DbNext]_dbVars PROVE DbInv'
<1>1. CASE DbNext
  BY <1>1, StepKinds, InPlaceStep, GrowsStep, ClaimStep, RebuildStep
<1>2. CASE UNCHANGED dbVars
  BY <1>2 DEF dbVars, DbInv, TypeOK, ChainContinues, NoGap, DoneCovered
<1> QED BY <1>1, <1>2

\* The inductive invariant holds in every state of every execution.
THEOREM DbInvAlways == DbSpec => []DbInv
<1>1. DbInit => DbInv
  BY InitInv
<1>2. DbInv /\ [DbNext]_dbVars => DbInv'
  BY DbInvStep
<1> QED BY <1>1, <1>2, PTL DEF DbSpec

\* Whatever the callers of the DAO do, no success ends the chain of tasks of a
\* knowledge base (the createScheduledTask of the two completions).
THEOREM ChainContinuesAlways == DbSpec => []ChainContinues
<1>1. DbInv => ChainContinues
  BY DEF DbInv
<1> QED BY <1>1, DbInvAlways, PTL

\* No late completion, failure or recovery makes the poll waterline skip a part
\* of the source that no completed SYNC task has read.
THEOREM NoGapAlways == DbSpec => []NoGap
<1>1. DbInv => NoGap
  BY DEF DbInv
<1> QED BY <1>1, DbInvAlways, PTL

\* A canceled row stays canceled until a rebuild deletes it.
THEOREM CancelIsFinalAlways == DbSpec => CancelIsFinal
<1> DEFINE Keeps == \A t \in DOMAIN logs :
                       Has(t, "cancel") => t \notin DOMAIN logs' \/ Has(t, "cancel")'
<1>1. ASSUME DbInv, DbNext PROVE Keeps
  <2>1. CASE InPlace /\ Settling
    BY <2>1 DEF InPlace, Settling, Has
  <2>2. CASE \E ids : Grows(ids)
    BY <2>2 DEF Grows, Has
  <2>3. CASE \E t \in TaskId : Claims(t)
    <3>1. PICK u \in TaskId : Claims(u)
      BY <2>3
    <3>2. logs' = With({u}, "running") /\ Has(u, "schedule")
      BY <3>1 DEF Claims
    <3> QED BY <3>2 DEF With, Has
  <2>4. CASE \E k \in Kb : RebuildConnector(k)
    <3>1. PICK k \in Kb : RebuildConnector(k)
      BY <2>4
    <3> QED BY <1>1, <3>1, RebuildRows DEF Has
  <2> QED BY <1>1, <2>1, <2>2, <2>3, <2>4, StepKinds
<1>2. ASSUME UNCHANGED dbVars PROVE Keeps
  BY <1>2 DEF dbVars, Has
<1>3. DbInv /\ [DbNext]_dbVars => [Keeps]_dbVars
  BY <1>1, <1>2
<1> QED BY <1>3, DbInvAlways, PTL DEF DbSpec, CancelIsFinal
=============================================================================
