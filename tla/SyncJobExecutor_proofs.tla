----------------------- MODULE SyncJobExecutor_proofs -----------------------
(***************************************************************************)
(* Proofs about SyncJobExecutor: types, and the bounded bypass of the      *)
(* round robin for any number of tasks, workers and queue sizes.           *)
(***************************************************************************)
EXTENDS SyncJobExecutor, SequenceTheorems, TLAPS

-----------------------------------------------------------------------------
(* The round.                                                              *)

\* Place j comes before place p in the round that starts behind place c.
Between(c, j, p) == IF c < p THEN c < j /\ j < p ELSE c < j \/ j < p

\* The places of a round of n from c to p.
Distance(n, c, p) == IF c < p THEN p - 1 - c ELSE p - 1 - c + n

\* The cursor comes to place j before it comes to place p.
Ahead(p, j) == Between(cursor, j, p)

\* Nobody is in the round twice, and the cursor is in it.
RoundOK ==
    /\ \A i, j \in DOMAIN order : order[i] = order[j] => i = j
    /\ cursor = 0 \/ cursor < Len(order)

\* Who runs is in the round, and only who runs has jobs.
ClientOK ==
    /\ \A t \in Task : client[t] \in {"accepted", "active"} => Registered(t)
    /\ \A t \in Task : queue[t] > 0 => client[t] = "active"

\* Nothing is counted for a task that does not wait, nor of one that is not in
\* the round.
GhostOK ==
    /\ \A t \in Task : queue[t] = 0 => passed[t] = NoPass /\ moved[t] = 0
    /\ \A t, u \in Task : ~ Registered(u) => passed[t][u] = 0

\* A task the cursor still meets before it comes to a waiting one has not had
\* its turn in this round yet.
TurnOK ==
    \A p, j \in DOMAIN order :
        queue[order[p]] > 0 /\ p # j /\ Ahead(p, j) =>
            passed[order[p]][order[j]] <= moved[order[p]]

ExecutorInv == TypeOK /\ RoundOK /\ ClientOK /\ GhostOK /\ TurnOK /\ BoundedBypass

-----------------------------------------------------------------------------
(* Arithmetic and sequences.                                               *)

LEMMA ModSmall == ASSUME NEW n \in Nat \ {0}, NEW a \in Nat, a < n PROVE a % n = a
OBVIOUS

LEMMA ModWrap ==
    ASSUME NEW n \in Nat \ {0}, NEW a \in Nat, n <= a, a < n + n
    PROVE  a % n = a - n
OBVIOUS

\* A sequence without its k-th element.
LEMMA RemoveAtFacts ==
    ASSUME NEW S, NEW s \in Seq(S), NEW k \in 1..Len(s), NEW r,
           r = SubSeq(s, 1, k - 1) \o SubSeq(s, k + 1, Len(s))
    PROVE  /\ r \in Seq(S) /\ Len(r) = Len(s) - 1
           /\ \A i \in 1..Len(s) - 1 : r[i] = IF i < k THEN s[i] ELSE s[i + 1]
<1> DEFINE a == SubSeq(s, 1, k - 1)
           b == SubSeq(s, k + 1, Len(s))
<1>0. Len(s) \in Nat /\ \A i \in 1..Len(s) : s[i] \in S
  OBVIOUS
<1>1. a \in Seq(S) /\ Len(a) = k - 1 /\ \A i \in 1..k - 1 : a[i] = s[i]
  BY <1>0, SubSeqProperties
<1>2. b \in Seq(S) /\ Len(b) = Len(s) - k /\ \A i \in 1..Len(s) - k : b[i] = s[k + i]
  BY <1>0, SubSeqProperties
<1>3. r = a \o b
  OBVIOUS
<1> HIDE DEF a, b
<1>4. /\ a \o b \in Seq(S) /\ Len(a \o b) = Len(a) + Len(b)
      /\ \A i \in 1..Len(a) + Len(b) : (a \o b)[i] = IF i <= Len(a) THEN a[i] ELSE b[i - Len(a)]
  BY <1>1, <1>2, ConcatProperties
<1>5. /\ r \in Seq(S) /\ Len(r) = Len(a) + Len(b)
      /\ \A i \in 1..Len(a) + Len(b) : r[i] = IF i <= Len(a) THEN a[i] ELSE b[i - Len(a)]
  BY <1>3, <1>4, Zenon
<1>6. /\ Len(r) = (k - 1) + (Len(s) - k)
      /\ \A i \in 1..(k - 1) + (Len(s) - k) :
            r[i] = IF i <= k - 1 THEN a[i] ELSE b[i - (k - 1)]
  BY <1>1, <1>2, <1>5, Zenon
<1>7. \A i \in 1..Len(s) - 1 : r[i] = IF i < k THEN s[i] ELSE s[i + 1]
  <2>1. ASSUME NEW i \in 1..Len(s) - 1, i < k PROVE r[i] = s[i]
    <3>1. i \in 1..(k - 1) + (Len(s) - k) /\ i <= k - 1 /\ i \in 1..k - 1
      BY <1>0, <2>1
    <3>2. r[i] = a[i]
      BY <1>6, <3>1, Zenon
    <3> QED BY <1>1, <3>1, <3>2, Zenon
  <2>2. ASSUME NEW i \in 1..Len(s) - 1, ~ i < k PROVE r[i] = s[i + 1]
    <3>1. /\ i \in 1..(k - 1) + (Len(s) - k) /\ ~ i <= k - 1
          /\ i - (k - 1) \in 1..Len(s) - k /\ k + (i - (k - 1)) = i + 1
      BY <1>0, <2>2
    <3>2. r[i] = b[i - (k - 1)]
      BY <1>6, <3>1, Zenon
    <3>3. b[i - (k - 1)] = s[k + (i - (k - 1))]
      BY <1>2, <3>1, Zenon
    <3> QED BY <3>1, <3>2, <3>3, Zenon
  <2> QED BY <2>1, <2>2
<1>8. (k - 1) + (Len(s) - k) = Len(s) - 1
  BY <1>0
<1> QED BY <1>5, <1>6, <1>7, <1>8, Zenon

LEMMA IndexFacts ==
    ASSUME NEW t, Registered(t)
    PROVE  Index(t) \in DOMAIN order /\ order[Index(t)] = t
BY DEF Registered, Index

LEMMA IndexOf ==
    ASSUME RoundOK, NEW i \in DOMAIN order
    PROVE  Index(order[i]) = i
<1>1. Registered(order[i])
  BY DEF Registered
<1> QED BY <1>1, IndexFacts DEF RoundOK

\* The tasks of the round after CloseQueue(t).
LEMMA Leaving ==
    ASSUME TypeOK, NEW t \in Task, Registered(t), Unregister(t)
    PROVE  LET k == Index(t) IN
           /\ k \in 1..Len(order)
           /\ order' \in Seq(Task) /\ Len(order') = Len(order) - 1
           /\ \A i \in 1..Len(order) - 1 :
                 order'[i] = IF i < k THEN order[i] ELSE order[i + 1]
<1>0. order \in Seq(Task) /\ DOMAIN order = 1..Len(order)
  BY DEF TypeOK
<1>1. Index(t) \in 1..Len(order)
  BY <1>0, IndexFacts, Zenon
<1> QED BY <1>0, <1>1, RemoveAtFacts, Zenon DEF Unregister

LEMMA LeavingGhosts ==
    ASSUME TypeOK, NEW t \in Task,
           passed' = [u \in Task |-> IF u = t THEN NoPass ELSE [passed[u] EXCEPT ![t] = 0]]
    PROVE  /\ passed' \in [Task -> [Task -> Nat]]
           /\ passed'[t] = NoPass
           /\ \A u \in Task : passed'[u][t] = 0
           /\ \A u, v \in Task : passed'[u][v] <= passed[u][v]
<1>1. ASSUME NEW u \in Task
      PROVE  /\ passed'[u] \in [Task -> Nat] /\ passed'[u][t] = 0
             /\ \A v \in Task : passed'[u][v] <= passed[u][v]
  <2>0. passed[u] \in [Task -> Nat]
    BY DEF TypeOK
  <2>1. CASE u = t
    BY <2>0, <2>1 DEF NoPass
  <2>2. CASE u # t
    <3>1. passed'[u] = [passed[u] EXCEPT ![t] = 0]
      BY <2>2
    <3> QED BY <2>0, <3>1
  <2> QED BY <2>1, <2>2
<1>2. passed' = [u \in Task |-> passed'[u]] /\ passed'[t] = NoPass
  OBVIOUS
<1> QED BY <1>1, <1>2

-----------------------------------------------------------------------------
(* Types.                                                                  *)

LEMMA TypeInit == Init => TypeOK
BY SyncJobExecutorAssumption DEF Init, TypeOK, NoPass

\* Where popReadyJob finds its job and leaves the cursor.
LEMMA PopPlace ==
    ASSUME TypeOK, NEW i \in 0..Len(order) - 1
    PROVE  /\ ((cursor + i) % Len(order)) + 1 \in 1..Len(order)
           /\ At(i) \in Task
           /\ After(i) \in 0..Len(order) - 1
<1> DEFINE n == Len(order)
<1>1. n \in Nat \ {0} /\ cursor + i \in Nat
  BY DEF TypeOK
<1>2. (cursor + i) % n \in 0..n - 1 /\ (((cursor + i) % n) + 1) % n \in 0..n - 1
  BY <1>1
<1>3. ((cursor + i) % n) + 1 \in 1..n
  BY <1>1, <1>2
<1>4. \A k \in 1..n : order[k] \in Task
  BY DEF TypeOK
<1>5. At(i) \in Task
  BY <1>3, <1>4, Zenon DEF At
<1> QED BY <1>2, <1>3, <1>5, Zenon DEF After

\* The effect of popReadyJob, with the task it pops.
Popped(i, u) ==
    /\ u = At(i) /\ First(i)
    /\ pending' = u
    /\ queue' = [queue EXCEPT ![u] = @ - 1]
    /\ cursor' = After(i)
    /\ passed' = [t \in Task |-> IF t = u \/ queue[t] = 0 THEN NoPass
                                 ELSE [passed[t] EXCEPT ![u] = @ + 1]]
    /\ moved' = [moved EXCEPT ![u] = 0]
    /\ UNCHANGED <<client, order, jobs, work, stop>>

LEMMA PopFacts ==
    ASSUME TypeOK, Pop
    PROVE  \E i \in 0..Len(order) - 1, u \in Task : Popped(i, u)
<1>1. PICK i \in 0..Len(order) - 1 : Popped(i, At(i))
  BY Zenon DEF Pop, Popped
<1>2. At(i) \in Task
  BY PopPlace
<1> QED BY <1>1, <1>2

LEMMA PoppedGhosts ==
    ASSUME TypeOK, NEW u \in Task,
           passed' = [t \in Task |-> IF t = u \/ queue[t] = 0 THEN NoPass
                                     ELSE [passed[t] EXCEPT ![u] = @ + 1]]
    PROVE  /\ passed' \in [Task -> [Task -> Nat]]
           /\ \A t \in Task : t = u \/ queue[t] = 0 => passed'[t] = NoPass
           /\ \A t, v \in Task : v # u => passed'[t][v] <= passed[t][v]
           /\ \A t \in Task : t # u => passed'[t][u] <= passed[t][u] + 1
           /\ \A t \in Task : passed'[t][t] <= passed[t][t]
<1>1. passed \in [Task -> [Task -> Nat]] /\ NoPass \in [Task -> Nat]
  BY DEF TypeOK, NoPass
<1>2. ASSUME NEW t \in Task
      PROVE  /\ passed'[t] \in [Task -> Nat]
             /\ t = u \/ queue[t] = 0 => passed'[t] = NoPass
             /\ \A v \in Task : v # u => passed'[t][v] <= passed[t][v]
             /\ t # u => passed'[t][u] <= passed[t][u] + 1
             /\ passed'[t][t] <= passed[t][t]
  <2>0. passed[t] \in [Task -> Nat]
    BY <1>1
  <2>1. CASE t = u \/ queue[t] = 0
    <3>1. passed'[t] = NoPass
      BY <2>1
    <3> QED BY <2>0, <3>1 DEF NoPass
  <2>2. CASE t # u /\ queue[t] # 0
    <3>1. passed'[t] = [passed[t] EXCEPT ![u] = @ + 1]
      BY <2>2
    <3> QED BY <2>0, <2>2, <3>1
  <2> QED BY <2>1, <2>2
<1>3. passed' = [t \in Task |-> passed'[t]]
  OBVIOUS
<1>4. passed' \in [Task -> [Task -> Nat]]
  BY <1>2, <1>3
<1> QED BY <1>2, <1>4

LEMMA TypeStep == ASSUME TypeOK, ClientOK, [Next]_vars PROVE TypeOK'
<1> USE SyncJobExecutorAssumption
<1>1. ASSUME NEW t \in Task, RegisterTask(t) PROVE TypeOK'
  <2>1. client' \in [Task -> {"idle", "accepted", "refused", "active"}]
    BY <1>1 DEF TypeOK, RegisterTask
  <2>2. order' = order \/ order' = Append(order, t)
    BY <1>1 DEF RegisterTask
  <2>3. order' \in Seq(Task)
    <3>1. order \in Seq(Task) /\ Append(order, t) \in Seq(Task)
      BY DEF TypeOK
    <3> QED BY <2>2, <3>1, Zenon
  <2> QED BY <1>1, <2>1, <2>3 DEF TypeOK, RegisterTask, ghosts
<1>2. ASSUME NEW t \in Task, Receive(t) \/ Abandon(t) PROVE TypeOK'
  BY <1>2 DEF TypeOK, Receive, Abandon, ghosts
<1>3. ASSUME NEW t \in Task, Submit(t) PROVE TypeOK'
  <2>1. queue' \in [Task -> 0..PerTaskQueueSize]
    BY <1>3 DEF TypeOK, Submit
  <2> QED BY <1>3, <2>1 DEF TypeOK, Submit, ghosts
<1>4. ASSUME NEW t \in Task, CloseQueue(t) PROVE TypeOK'
  <2>1. order' \in Seq(Task) /\ cursor' \in Nat
    BY <1>4, Leaving DEF CloseQueue, ClientOK, Unregister, TypeOK
  <2>2. passed' \in [Task -> [Task -> Nat]]
    BY <1>4, LeavingGhosts DEF CloseQueue
  <2>3. moved' \in [Task -> Nat]
    <3>1. ASSUME NEW u \in Task PROVE moved'[u] \in Nat
      BY <1>4 DEF CloseQueue, TypeOK
    <3>2. moved' = [u \in Task |-> moved'[u]]
      BY <1>4, Zenon DEF CloseQueue
    <3> QED BY <3>1, <3>2
  <2>4. queue' \in [Task -> 0..PerTaskQueueSize]
    BY <1>4 DEF CloseQueue, TypeOK
  <2> QED BY <1>4, <2>1, <2>2, <2>3, <2>4 DEF CloseQueue, TypeOK
<1>5. ASSUME Pop PROVE TypeOK'
  <2>1. PICK i \in 0..Len(order) - 1, u \in Task : Popped(i, u)
    BY <1>5, PopFacts
  <2>2. cursor' \in Nat /\ queue[u] > 0
    BY <2>1, PopPlace DEF First, Popped
  <2>3. queue' \in [Task -> 0..PerTaskQueueSize]
    <3>0. queue[u] \in 0..PerTaskQueueSize /\ PerTaskQueueSize \in Nat
      BY DEF TypeOK
    <3>1. queue[u] - 1 \in 0..PerTaskQueueSize
      BY <2>2, <3>0
    <3> QED BY <2>1, <3>1 DEF TypeOK, Popped
  <2>4. passed' \in [Task -> [Task -> Nat]]
    BY <2>1, PoppedGhosts DEF Popped
  <2>5. moved' \in [Task -> Nat]
    BY <2>1 DEF TypeOK, Popped
  <2> QED BY <2>1, <2>2, <2>3, <2>4, <2>5 DEF Popped, TypeOK
<1>6. ASSUME Dispatch PROVE TypeOK'
  BY <1>6 DEF TypeOK, Dispatch, ghosts
<1>7. ASSUME NEW w \in Worker, Take(w) PROVE TypeOK'
  <2>1. Head(jobs) \in Task /\ Tail(jobs) \in Seq(Task) /\ Len(Tail(jobs)) <= JobQueueSize
    BY <1>7, HeadTailProperties DEF Take, TypeOK
  <2> QED BY <1>7, <2>1 DEF TypeOK, Take, ghosts
<1>8. ASSUME NEW w \in Worker, Finish(w) PROVE TypeOK'
  BY <1>8 DEF TypeOK, Finish, ghosts
<1>9. ASSUME Close PROVE TypeOK'
  BY <1>9 DEF TypeOK, Close, ghosts
<1>10. ASSUME SettleQueued PROVE TypeOK'
  BY <1>10 DEF TypeOK, SettleQueued, NoPass
<1>11. CASE UNCHANGED vars
  BY <1>11 DEF TypeOK, vars, ghosts
<1> QED BY <1>1, <1>2, <1>3, <1>4, <1>5, <1>6, <1>7, <1>8, <1>9, <1>10, <1>11 DEF Next, Client

-----------------------------------------------------------------------------
(* Steps that leave the round, the queues and the counts alone.            *)

LEMMA RegisteredKept == ASSUME UNCHANGED order PROVE \A t : Registered(t)' <=> Registered(t)
BY DEF Registered

LEMMA QuietStep ==
    ASSUME ExecutorInv, TypeOK', ClientOK', UNCHANGED <<order, cursor, queue, passed, moved>>
    PROVE  ExecutorInv'
<1>1. RoundOK'
  BY DEF ExecutorInv, RoundOK
<1>2. GhostOK'
  BY RegisteredKept DEF ExecutorInv, GhostOK
<1>3. TurnOK'
  BY DEF ExecutorInv, TurnOK, Ahead
<1>4. BoundedBypass'
  BY DEF ExecutorInv, BoundedBypass
<1> QED BY <1>1, <1>2, <1>3, <1>4 DEF ExecutorInv

LEMMA ClientKept ==
    ASSUME ClientOK, TypeOK, UNCHANGED <<order, queue>>, NEW t \in Task, NEW c,
           client' = [client EXCEPT ![t] = c],
           c \in {"accepted", "active"} => client[t] \in {"accepted", "active"},
           c # "active" => client[t] # "active"
    PROVE  ClientOK'
<1>1. \A u \in Task : client'[u] = IF u = t THEN c ELSE client[u]
  BY DEF TypeOK
<1> QED BY <1>1, RegisteredKept DEF ClientOK

LEMMA ReceiveStep ==
    ASSUME ExecutorInv, TypeOK', NEW t \in Task, Receive(t) \/ Abandon(t)
    PROVE  ExecutorInv'
<1>1. ClientOK'
  <2>1. CASE Receive(t)
    BY <2>1, ClientKept DEF Receive, ExecutorInv
  <2>2. CASE Abandon(t)
    BY <2>2, ClientKept DEF Abandon, ExecutorInv
  <2> QED BY <2>1, <2>2
<1> QED BY <1>1, QuietStep DEF Receive, Abandon, ghosts

LEMMA OtherSteps ==
    ASSUME ExecutorInv, TypeOK',
           \/ Dispatch \/ Close \/ UNCHANGED vars
           \/ \E w \in Worker : Take(w) \/ Finish(w)
    PROVE  ExecutorInv'
<1>1. UNCHANGED <<client, order, cursor, queue, passed, moved>>
  BY DEF Dispatch, Close, Take, Finish, vars, ghosts
<1>2. ClientOK'
  BY <1>1, RegisteredKept DEF ExecutorInv, ClientOK
<1> QED BY <1>1, <1>2, QuietStep

-----------------------------------------------------------------------------
(* Steps of the round.                                                     *)

LEMMA RegisterStep ==
    ASSUME ExecutorInv, TypeOK', NEW t \in Task, RegisterTask(t)
    PROVE  ExecutorInv'
<1>0. TypeOK /\ RoundOK /\ ClientOK /\ GhostOK /\ TurnOK /\ BoundedBypass
  BY DEF ExecutorInv
<1>1. CASE Registered(t)
  <2>1. ClientOK'
    BY <1>0, <1>1, ClientKept DEF RegisterTask
  <2> QED BY <1>1, <2>1, QuietStep DEF RegisterTask, ghosts
<1>2. CASE ~ Registered(t)
  <2> DEFINE n == Len(order)
  <2>1. /\ client' = [client EXCEPT ![t] = "accepted"]
        /\ order' = Append(order, t) /\ client[t] = "idle"
        /\ UNCHANGED <<cursor, queue, passed, moved>>
    BY <1>2 DEF RegisterTask, ghosts
  <2>2. /\ n \in Nat /\ DOMAIN order = 1..n /\ DOMAIN order' = 1..n + 1 /\ Len(order') = n + 1
        /\ \A i \in 1..n : order[i] \in Task /\ order[i] # t /\ order'[i] = order[i]
        /\ order'[n + 1] = t
    <3>1. order \in Seq(Task)
      BY <1>0 DEF TypeOK
    <3>2. n \in Nat /\ DOMAIN order = 1..n /\ \A i \in 1..n : order[i] \in Task
      BY <3>1
    <3>3. \A i \in 1..n : order[i] # t
      BY <1>2, <3>2 DEF Registered
    <3>4. /\ Len(Append(order, t)) = n + 1 /\ DOMAIN Append(order, t) = 1..n + 1
          /\ \A i \in 1..n : Append(order, t)[i] = order[i]
          /\ Append(order, t)[n + 1] = t
      BY <3>1
    <3> HIDE DEF n
    <3> QED BY <2>1, <3>2, <3>3, <3>4, Zenon
  <2>3. \A u : Registered(u)' <=> u = t \/ Registered(u)
    BY <2>2 DEF Registered
  <2>4. queue[t] = 0
    <3>1. queue[t] \in Nat /\ ~ queue[t] > 0
      BY <1>0, <2>1 DEF ClientOK, TypeOK
    <3> QED BY <3>1
  <2>5. RoundOK'
    <3>1. \A i, j \in 1..n + 1 : order'[i] = order'[j] => i = j
      BY <1>0, <2>2 DEF RoundOK
    <3>2. cursor \in Nat /\ (cursor = 0 \/ cursor < n + 1)
      BY <1>0, <2>2 DEF RoundOK, TypeOK
    <3> QED BY <2>1, <2>2, <3>1, <3>2 DEF RoundOK
  <2>6. ClientOK'
    <3>1. \A u \in Task : client'[u] = IF u = t THEN "accepted" ELSE client[u]
      BY <1>0, <2>1 DEF TypeOK
    <3> QED BY <1>0, <2>1, <2>3, <2>4, <3>1 DEF ClientOK
  <2>7. GhostOK'
    BY <1>0, <2>1, <2>3 DEF GhostOK
  <2>8. TurnOK'
    <3> SUFFICES ASSUME NEW p \in 1..n + 1, NEW j \in 1..n + 1,
                        queue[order'[p]] > 0, p # j, Ahead(p, j)
                 PROVE  passed[order'[p]][order'[j]] <= moved[order'[p]]
      BY <2>1, <2>2 DEF TurnOK, Ahead
    <3>1. p \in 1..n /\ order'[p] = order[p] /\ order[p] \in Task
      BY <2>2, <2>4
    <3>2. CASE j = n + 1
      <4>1. passed[order[p]][t] = 0 /\ moved[order[p]] \in Nat
        BY <1>0, <1>2, <3>1 DEF GhostOK, TypeOK
      <4> QED BY <2>2, <3>1, <3>2, <4>1
    <3>3. CASE j \in 1..n
      BY <1>0, <2>2, <3>1, <3>3 DEF TurnOK
    <3> QED BY <2>2, <3>2, <3>3
  <2>9. BoundedBypass'
    BY <1>0, <2>1 DEF BoundedBypass
  <2> QED BY <2>5, <2>6, <2>7, <2>8, <2>9 DEF ExecutorInv
<1> QED BY <1>1, <1>2

LEMMA SubmitStep ==
    ASSUME ExecutorInv, TypeOK', NEW t \in Task, Submit(t)
    PROVE  ExecutorInv'
<1>0. TypeOK /\ RoundOK /\ ClientOK /\ GhostOK /\ TurnOK /\ BoundedBypass
  BY DEF ExecutorInv
<1>1. /\ client[t] = "active" /\ UNCHANGED <<client, order, cursor, passed, moved>>
      /\ queue \in [Task -> Nat] /\ queue' = [queue EXCEPT ![t] = @ + 1]
  BY <1>0 DEF Submit, ghosts, TypeOK
<1>2. /\ queue'[t] = queue[t] + 1
      /\ \A u \in Task : u # t => queue'[u] = queue[u]
      /\ \A u \in Task : queue[u] \in Nat
  BY <1>1
<1>3. RoundOK' /\ BoundedBypass'
  BY <1>0, <1>1 DEF RoundOK, BoundedBypass
<1>4. ClientOK'
  BY <1>0, <1>1, <1>2, RegisteredKept DEF ClientOK
<1>5. GhostOK'
  BY <1>0, <1>1, <1>2, RegisteredKept DEF GhostOK
<1>6. TurnOK'
  <2> SUFFICES ASSUME NEW p \in DOMAIN order, NEW j \in DOMAIN order,
                      queue'[order[p]] > 0, p # j, Ahead(p, j)
               PROVE  passed[order[p]][order[j]] <= moved[order[p]]
    BY <1>1 DEF TurnOK, Ahead
  <2>1. order[p] \in Task /\ order[j] \in Task
    BY <1>0 DEF TypeOK
  <2>2. CASE queue[order[p]] = 0
    BY <1>0, <2>1, <2>2 DEF GhostOK, NoPass
  <2>3. CASE queue[order[p]] > 0
    BY <1>0, <2>3 DEF TurnOK
  <2> QED BY <1>2, <2>1, <2>2, <2>3
<1> QED BY <1>3, <1>4, <1>5, <1>6 DEF ExecutorInv

LEMMA SettleStep == ASSUME ExecutorInv, TypeOK', SettleQueued PROVE ExecutorInv'
<1>0. TypeOK /\ RoundOK /\ ClientOK
  BY DEF ExecutorInv
<1>1. /\ UNCHANGED <<client, order, cursor>>
      /\ \A t \in Task : queue'[t] = 0 /\ passed'[t] = NoPass /\ moved'[t] = 0
  BY DEF SettleQueued
<1>2. RoundOK' /\ ClientOK'
  BY <1>0, <1>1, RegisteredKept DEF RoundOK, ClientOK
<1>3. GhostOK' /\ BoundedBypass'
  BY <1>1 DEF GhostOK, BoundedBypass, NoPass
<1>4. TurnOK'
  <2>1. \A p \in DOMAIN order : order[p] \in Task
    BY <1>0 DEF TypeOK
  <2> QED BY <1>1, <2>1 DEF TurnOK
<1> QED BY <1>2, <1>3, <1>4 DEF ExecutorInv

\* Old(i): the place that was i's before place k was removed.
LEMMA Shift ==
    ASSUME NEW n \in Nat, NEW k \in 1..n, NEW c \in Nat, c = 0 \/ c < n,
           NEW p \in 1..n - 1, NEW j \in 1..n - 1, p # j, p < k,
           Between(IF c >= n - 1 THEN 0 ELSE c, j, p)
    PROVE  Between(c, IF j < k THEN j ELSE j + 1, p)
BY DEF Between

LEMMA CountTypes ==
    ASSUME TypeOK, TypeOK'
    PROVE  /\ \A u \in Task : moved[u] \in Nat /\ moved'[u] \in Nat /\ queue[u] \in Nat
           /\ \A u, v \in Task : passed[u][v] \in Nat /\ passed'[u][v] \in Nat
<1>1. \A u \in Task : moved[u] \in Nat /\ moved'[u] \in Nat /\ queue[u] \in Nat
  BY DEF TypeOK
<1>2. passed \in [Task -> [Task -> Nat]] /\ passed' \in [Task -> [Task -> Nat]]
  BY DEF TypeOK
<1>3. ASSUME NEW u \in Task, NEW v \in Task PROVE passed[u][v] \in Nat /\ passed'[u][v] \in Nat
  <2>1. passed[u] \in [Task -> Nat] /\ passed'[u] \in [Task -> Nat]
    BY <1>2
  <2> QED BY <2>1
<1> QED BY <1>1, <1>3

LEMMA CloseQueueStep ==
    ASSUME ExecutorInv, TypeOK', NEW t \in Task, CloseQueue(t)
    PROVE  ExecutorInv'
<1>0. TypeOK /\ RoundOK /\ ClientOK /\ GhostOK /\ TurnOK /\ BoundedBypass
  BY DEF ExecutorInv
<1> DEFINE n == Len(order)
           k == Index(t)
           Old(i) == IF i < k THEN i ELSE i + 1
<1>1. Registered(t) /\ Unregister(t)
  BY <1>0 DEF CloseQueue, ClientOK
<1>2. /\ n \in Nat /\ k \in 1..n /\ order[k] = t
      /\ DOMAIN order = 1..n /\ DOMAIN order' = 1..n - 1 /\ Len(order') = n - 1
      /\ \A i \in 1..n : order[i] \in Task
      /\ \A i \in 1..n - 1 : order'[i] = order[Old(i)]
  <2>0. order \in Seq(Task)
    BY <1>0 DEF TypeOK
  <2>1. n \in Nat /\ DOMAIN order = 1..n /\ \A i \in 1..n : order[i] \in Task
    BY <2>0
  <2>2. /\ k \in 1..n /\ order' \in Seq(Task) /\ Len(order') = n - 1
        /\ \A i \in 1..n - 1 : order'[i] = IF i < k THEN order[i] ELSE order[i + 1]
    BY <1>0, <1>1, Leaving, Zenon
  <2>3. DOMAIN order' = 1..n - 1
    BY <2>2
  <2>4. order[k] = t
    BY <1>1, IndexFacts
  <2>5. \A i \in 1..n - 1 : order'[i] = order[Old(i)]
    BY <2>2
  <2> QED BY <2>1, <2>2, <2>3, <2>4, <2>5
<1>3. \A i \in 1..n - 1 : Old(i) \in 1..n /\ Old(i) # k
  BY <1>2
<1>4. \A i, j \in 1..n - 1 : Old(i) = Old(j) => i = j
  BY <1>2
<1>5. \A i \in 1..n : i # k => \E j \in 1..n - 1 : Old(j) = i
  <2> TAKE i \in 1..n
  <2> HAVE i # k
  <2>1. CASE i < k
    <3>1. i \in 1..n - 1 /\ Old(i) = i
      BY <1>2, <2>1
    <3> QED BY <3>1
  <2>2. CASE i > k
    <3>1. i - 1 \in 1..n - 1 /\ Old(i - 1) = i
      BY <1>2, <2>2
    <3> QED BY <3>1
  <2> QED BY <1>2, <2>1, <2>2
<1> HIDE DEF Old
<1>6. \A i \in 1..n - 1 : order'[i] \in Task /\ order'[i] # t
  BY <1>0, <1>2, <1>3 DEF RoundOK
<1>7. ASSUME NEW u PROVE Registered(u)' <=> u # t /\ Registered(u)
  <2>1. ASSUME NEW i \in 1..n, order[i] = u, u # t PROVE Registered(u)'
    <3>1. PICK j \in 1..n - 1 : Old(j) = i
      BY <1>2, <1>5, <2>1
    <3> QED BY <1>2, <2>1, <3>1 DEF Registered
  <2>2. ASSUME NEW j \in 1..n - 1, order'[j] = u PROVE u # t /\ Registered(u)
    BY <1>2, <1>3, <1>6, <2>2 DEF Registered
  <2> QED BY <1>2, <2>1, <2>2 DEF Registered
<1>8. /\ cursor' = IF cursor >= n - 1 THEN 0 ELSE cursor
      /\ client' = [client EXCEPT ![t] = "idle"]
      /\ queue' = [queue EXCEPT ![t] = 0]
  BY <1>2 DEF CloseQueue, Unregister
<1>9. /\ queue'[t] = 0 /\ client'[t] = "idle"
      /\ \A u \in Task : u # t => queue'[u] = queue[u] /\ client'[u] = client[u]
  BY <1>0, <1>8 DEF TypeOK
<1>10. /\ passed'[t] = NoPass
       /\ \A u \in Task : passed'[u][t] = 0
       /\ \A u, v \in Task : passed'[u][v] <= passed[u][v]
       /\ \A u \in Task : u # t => passed'[u] = [passed[u] EXCEPT ![t] = 0]
  BY <1>0, LeavingGhosts DEF CloseQueue
<1>11. /\ moved'[t] = 0
       /\ \A u \in Task : u # t /\ queue[u] = 0 => moved'[u] = moved[u]
       /\ \A u \in Task : u # t /\ queue[u] > 0 =>
             moved'[u] = IF k < Index(u) THEN moved[u] + 1 ELSE moved[u]
  BY <1>0 DEF CloseQueue, TypeOK
<1>12. /\ \A u \in Task : moved[u] \in Nat /\ moved'[u] \in Nat /\ queue[u] \in Nat
       /\ \A u, v \in Task : passed[u][v] \in Nat /\ passed'[u][v] \in Nat
  BY <1>0, CountTypes
<1> HIDE DEF k
<1>13. RoundOK'
  <2>1. \A i, j \in 1..n - 1 : order'[i] = order'[j] => i = j
    BY <1>0, <1>2, <1>3, <1>4 DEF RoundOK
  <2>2. cursor' = 0 \/ cursor' < n - 1
    BY <1>0, <1>2, <1>8 DEF TypeOK
  <2> QED BY <1>2, <2>1, <2>2 DEF RoundOK
<1>14. ClientOK'
  BY <1>0, <1>7, <1>9 DEF ClientOK
<1>15. GhostOK'
  <2>1. ASSUME NEW u \in Task, queue'[u] = 0 PROVE passed'[u] = NoPass /\ moved'[u] = 0
    <3>1. CASE u = t
      BY <1>10, <1>11, <3>1
    <3>2. CASE u # t
      <4>1. queue[u] = 0 /\ passed[u] = NoPass /\ moved[u] = 0
        BY <1>0, <1>9, <2>1, <3>2 DEF GhostOK
      <4>2. passed'[u] = [NoPass EXCEPT ![t] = 0]
        BY <1>10, <3>2, <4>1
      <4> QED BY <1>11, <3>2, <4>1, <4>2 DEF NoPass
    <3> QED BY <3>1, <3>2
  <2>2. ASSUME NEW u \in Task, NEW v \in Task, ~ Registered(v)' PROVE passed'[u][v] = 0
    <3>1. CASE v = t
      BY <1>10, <3>1
    <3>2. CASE v # t
      <4>1. passed[u][v] = 0 /\ passed'[u][v] <= 0 /\ passed'[u][v] \in Nat
        BY <1>0, <1>7, <1>10, <1>12, <2>2, <3>2 DEF GhostOK
      <4> QED BY <4>1
    <3> QED BY <3>1, <3>2
  <2> QED BY <2>1, <2>2 DEF GhostOK
<1>16. \A u \in Task : u # t => moved[u] <= moved'[u]
  BY <1>11, <1>12
<1>17. TurnOK'
  <2> SUFFICES ASSUME NEW p \in 1..n - 1, NEW j \in 1..n - 1,
                      queue'[order'[p]] > 0, p # j, Ahead(p, j)'
               PROVE  passed'[order'[p]][order'[j]] <= moved'[order'[p]]
    BY <1>2 DEF TurnOK
  <2> DEFINE u == order[Old(p)]
             v == order[Old(j)]
  <2>1. /\ Old(p) \in 1..n /\ Old(j) \in 1..n /\ Old(p) # Old(j)
        /\ order'[p] = u /\ order'[j] = v /\ u \in Task /\ v \in Task /\ u # t
    BY <1>2, <1>3, <1>4, <1>6
  <2>2. queue[u] > 0 /\ Index(u) = Old(p)
    BY <1>0, <1>2, <1>9, <2>1, IndexOf
  <2> HIDE DEF u, v
  <2>3. CASE k < Old(p)
    <3>1. moved'[u] = moved[u] + 1 /\ passed[u][v] <= 1 + moved[u]
      BY <1>0, <1>11, <2>1, <2>2, <2>3 DEF BoundedBypass
    <3>2. passed'[u][v] <= passed[u][v] /\ passed'[u][v] \in Nat /\ passed[u][v] \in Nat
      BY <1>10, <1>12, <2>1
    <3> QED BY <1>12, <2>1, <3>1, <3>2
  <2>4. CASE ~ k < Old(p)
    <3>1. p < k /\ Old(p) = p /\ cursor \in Nat /\ (cursor = 0 \/ cursor < n)
      BY <1>0, <1>2, <1>3, <2>4 DEF Old, RoundOK, TypeOK
    <3>2. Between(IF cursor >= n - 1 THEN 0 ELSE cursor, j, p)
      BY <1>8 DEF Ahead
    <3>3. Between(cursor, IF j < k THEN j ELSE j + 1, p)
      BY <1>2, <3>1, <3>2, Shift
    <3>4. Ahead(Old(p), Old(j))
      BY <3>1, <3>3 DEF Ahead, Old
    <3>5. passed[u][v] <= moved[u]
      BY <1>0, <1>2, <2>1, <2>2, <3>4 DEF TurnOK, u, v
    <3>6. /\ passed'[u][v] <= passed[u][v] /\ passed'[u][v] \in Nat /\ passed[u][v] \in Nat
          /\ moved[u] <= moved'[u] /\ moved[u] \in Nat /\ moved'[u] \in Nat
      BY <1>10, <1>12, <1>16, <2>1
    <3> QED BY <2>1, <3>5, <3>6
  <2> QED BY <2>3, <2>4
<1>18. BoundedBypass'
  <2> SUFFICES ASSUME NEW u \in Task, NEW v \in Task PROVE passed'[u][v] <= 1 + moved'[u]
    BY DEF BoundedBypass
  <2>1. CASE u = t
    BY <1>10, <1>11, <2>1 DEF NoPass
  <2>2. CASE u # t
    <3>1. /\ passed'[u][v] <= passed[u][v] /\ passed'[u][v] \in Nat /\ passed[u][v] \in Nat
          /\ moved[u] <= moved'[u] /\ moved[u] \in Nat /\ moved'[u] \in Nat
      BY <1>10, <1>12, <1>16, <2>2
    <3> QED BY <1>0, <3>1 DEF BoundedBypass
  <2> QED BY <2>1, <2>2
<1> QED BY <1>13, <1>14, <1>15, <1>17, <1>18 DEF ExecutorInv

\* Place p is at its distance from c.
LEMMA Offset ==
    ASSUME NEW n \in Nat \ {0}, NEW c \in 0..n - 1, NEW p \in 1..n
    PROVE  Distance(n, c, p) \in 0..n - 1 /\ ((c + Distance(n, c, p)) % n) + 1 = p
<1> DEFINE o == Distance(n, c, p)
<1>1. o \in 0..n - 1
  BY DEF Distance
<1>2. CASE c < p
  <2>1. c + o = p - 1 /\ p - 1 \in Nat /\ p - 1 < n
    BY <1>2 DEF Distance
  <2> QED BY <1>1, <2>1, ModSmall
<1>3. CASE ~ c < p
  <2> DEFINE a == c + o
  <2>1. a \in Nat /\ n <= a /\ a < n + n
    BY <1>3 DEF Distance
  <2>2. a - n = p - 1
    BY <1>3 DEF Distance
  <2> HIDE DEF a
  <2>3. a % n = a - n
    BY <2>1, ModWrap, Zenon
  <2>4. (a % n) + 1 = p
    BY <2>2, <2>3
  <2> QED BY <1>1, <2>4, Zenon DEF a
<1> QED BY <1>2, <1>3

\* The cursor moves from c behind place x, the i-th after it: a place p further on
\* had x before it, and has no more places before it than it had.
LEMMA Advance ==
    ASSUME NEW n \in Nat \ {0}, NEW c \in 0..n - 1, NEW i \in 0..n - 1,
           NEW x, x = ((c + i) % n) + 1, NEW d, d = x % n,
           NEW p \in 1..n, i < Distance(n, c, p)
    PROVE  /\ Between(c, x, p)
           /\ \A j \in 1..n : j # p /\ Between(d, j, p) => j # x /\ Between(c, j, p)
<1>1. x = IF c + i < n THEN c + i + 1 ELSE c + i - n + 1
  <2> DEFINE a == c + i
  <2>0. a \in Nat /\ a < n + n
    OBVIOUS
  <2>1. CASE a < n
    BY <2>1, ModSmall
  <2>2. CASE ~ a < n
    <3> HIDE DEF a
    <3>0. n <= a
      BY <2>0, <2>2
    <3>1. a % n = a - n
      BY <2>0, <3>0, ModWrap, Zenon
    <3> QED BY <2>0, <2>2, <3>1 DEF a
  <2> QED BY <2>1, <2>2
<1>2. x \in 1..n
  BY <1>1
<1>3. d = IF x = n THEN 0 ELSE x
  <2>1. CASE x = n
    <3>1. n \in Nat /\ n <= n /\ n < n + n /\ n - n = 0
      OBVIOUS
    <3>2. n % n = n - n
      BY <3>1, ModWrap, Zenon
    <3> QED BY <2>1, <3>1, <3>2, Zenon
  <2>2. CASE x # n
    BY <1>2, <2>2, ModSmall
  <2> QED BY <2>1, <2>2
<1> QED BY <1>1, <1>2, <1>3 DEF Between, Distance

LEMMA PopStep == ASSUME ExecutorInv, TypeOK', Pop PROVE ExecutorInv'
<1>0. TypeOK /\ RoundOK /\ ClientOK /\ GhostOK /\ TurnOK /\ BoundedBypass
  BY DEF ExecutorInv
<1>1. PICK i \in 0..Len(order) - 1, u \in Task : Popped(i, u)
  BY <1>0, PopFacts
<1> DEFINE n == Len(order)
           x == ((cursor + i) % n) + 1
<1>2. order \in Seq(Task)
  BY <1>0 DEF TypeOK
<1>3. /\ n \in Nat \ {0} /\ DOMAIN order = 1..n /\ cursor \in 0..n - 1 /\ i \in 0..n - 1
      /\ \A k \in 1..n : order[k] \in Task
  <2>1. n \in Nat /\ DOMAIN order = 1..n /\ \A k \in 1..n : order[k] \in Task
    BY <1>2
  <2>2. cursor \in Nat /\ (cursor = 0 \/ cursor < n)
    BY <1>0 DEF TypeOK, RoundOK
  <2> QED BY <2>1, <2>2
<1>4. /\ x \in 1..n /\ u = order[x] /\ cursor' = x % n /\ cursor' \in 0..n - 1
      /\ UNCHANGED <<client, order>>
  BY <1>0, <1>1, PopPlace DEF Popped, At, After
<1>5. /\ queue[u] > 0 /\ moved' = [moved EXCEPT ![u] = 0]
      /\ queue' = [queue EXCEPT ![u] = @ - 1]
      /\ \A k \in 0..i - 1 : queue[order[((cursor + k) % n) + 1]] = 0
  BY <1>1 DEF Popped, First, At
<1>6. /\ moved'[u] = 0 /\ queue'[u] = queue[u] - 1
      /\ \A t \in Task : t # u => moved'[t] = moved[t] /\ queue'[t] = queue[t]
  BY <1>0, <1>5 DEF TypeOK
<1>7. /\ \A t \in Task : t = u \/ queue[t] = 0 => passed'[t] = NoPass
      /\ \A t, v \in Task : v # u => passed'[t][v] <= passed[t][v]
      /\ \A t \in Task : t # u => passed'[t][u] <= passed[t][u] + 1
      /\ \A t \in Task : passed'[t][t] <= passed[t][t]
  BY <1>0, <1>1, PoppedGhosts DEF Popped
<1>8. /\ \A t \in Task : moved[t] \in Nat /\ moved'[t] \in Nat /\ queue[t] \in Nat
      /\ \A t, v \in Task : passed[t][v] \in Nat /\ passed'[t][v] \in Nat
  BY <1>0, CountTypes
<1> HIDE DEF x, n
<1>9. Registered(u)
  BY <1>3, <1>4 DEF Registered
<1>10. RoundOK'
  <2>1. cursor' < Len(order')
    BY <1>3, <1>4 DEF n
  <2> QED BY <1>0, <1>4, <2>1 DEF RoundOK
<1>11. ClientOK'
  BY <1>0, <1>4, <1>5, <1>6, <1>8, RegisteredKept DEF ClientOK
<1>12. GhostOK'
  <2>1. ASSUME NEW t \in Task, queue'[t] = 0 PROVE passed'[t] = NoPass /\ moved'[t] = 0
    BY <1>0, <1>6, <1>7, <2>1 DEF GhostOK
  <2>2. ASSUME NEW t \in Task, NEW v \in Task, ~ Registered(v)' PROVE passed'[t][v] = 0
    <3>1. v # u /\ passed[t][v] = 0
      BY <1>0, <1>4, <1>9, <2>2, RegisteredKept DEF GhostOK
    <3>2. passed'[t][v] <= 0 /\ passed'[t][v] \in Nat
      BY <1>7, <1>8, <3>1
    <3> QED BY <3>2
  <2> QED BY <2>1, <2>2 DEF GhostOK
\* A waiting task that is not popped lies behind the popped one.
<1>13. ASSUME NEW p \in 1..n, order[p] # u, queue[order[p]] > 0
       PROVE  i < Distance(n, cursor, p)
  <2> DEFINE o == Distance(n, cursor, p)
  <2>1. o \in 0..n - 1 /\ ((cursor + o) % n) + 1 = p
    BY <1>3, Offset
  <2> HIDE DEF o
  <2>2. o # i
    BY <1>4, <1>13, <2>1 DEF x
  <2>3. ~ o \in 0..i - 1
    BY <1>5, <1>13, <2>1
  <2>4. i < o
    BY <1>3, <2>1, <2>2, <2>3
  <2> QED BY <2>4 DEF o
<1>14. ASSUME NEW p \in 1..n, order[p] # u, queue[order[p]] > 0
       PROVE  /\ Ahead(p, x)
              /\ \A j \in 1..n : j # p /\ Ahead(p, j)' => j # x /\ Ahead(p, j)
  <2>1. i < Distance(n, cursor, p)
    BY <1>13, <1>14
  <2>2. x = ((cursor + i) % n) + 1 /\ cursor' = x % n
    BY <1>4, Zenon DEF x
  <2>3. /\ Between(cursor, x, p)
        /\ \A j \in 1..n : j # p /\ Between(cursor', j, p) => j # x /\ Between(cursor, j, p)
    BY <1>3, <2>1, <2>2, Advance
  <2> QED BY <2>3, Zenon DEF Ahead
<1>15. ASSUME NEW p \in 1..n, order[p] # u, queue[order[p]] > 0
       PROVE  passed[order[p]][u] <= moved[order[p]]
  <2>1. p # x /\ Ahead(p, x)
    BY <1>4, <1>14, <1>15
  <2> QED BY <1>0, <1>3, <1>4, <1>15, <2>1 DEF TurnOK
<1>16. TurnOK'
  <2> SUFFICES ASSUME NEW p \in 1..n, NEW j \in 1..n,
                      queue'[order[p]] > 0, p # j, Ahead(p, j)'
               PROVE  passed'[order[p]][order[j]] <= moved'[order[p]]
    BY <1>3, <1>4 DEF TurnOK
  <2>0. order[p] \in Task /\ order[j] \in Task
    BY <1>3
  <2>1. CASE order[p] = u
    BY <1>6, <1>7, <2>0, <2>1 DEF NoPass
  <2>2. CASE order[p] # u
    <3>1. queue[order[p]] > 0 /\ moved'[order[p]] = moved[order[p]]
      BY <1>6, <2>0, <2>2
    <3>2. j # x /\ Ahead(p, j)
      BY <1>14, <2>2, <3>1
    <3>3. order[j] # u
      BY <1>0, <1>3, <1>4, <3>2 DEF RoundOK
    <3>4. passed[order[p]][order[j]] <= moved[order[p]]
      BY <1>0, <1>3, <3>1, <3>2 DEF TurnOK
    <3>5. /\ passed'[order[p]][order[j]] <= passed[order[p]][order[j]]
          /\ passed'[order[p]][order[j]] \in Nat /\ passed[order[p]][order[j]] \in Nat
          /\ moved[order[p]] \in Nat
      BY <1>7, <1>8, <2>0, <3>3
    <3> QED BY <3>1, <3>4, <3>5
  <2> QED BY <2>1, <2>2
<1>17. BoundedBypass'
  <2> SUFFICES ASSUME NEW t \in Task, NEW v \in Task PROVE passed'[t][v] <= 1 + moved'[t]
    BY DEF BoundedBypass
  <2>1. CASE t = u \/ queue[t] = 0
    <3>1. passed'[t][v] = 0
      BY <1>7, <2>1 DEF NoPass
    <3> QED BY <1>8, <3>1
  <2>2. CASE t # u /\ queue[t] > 0
    <3>0. moved'[t] = moved[t] /\ moved[t] \in Nat /\ passed[t][v] <= 1 + moved[t]
      BY <1>0, <1>6, <1>8, <2>2 DEF BoundedBypass
    <3>1. CASE v # u
      BY <1>7, <1>8, <3>0, <3>1
    <3>2. CASE v = u
      <4>1. PICK p \in 1..n : order[p] = t
        BY <1>0, <1>3, <2>2 DEF ClientOK, Registered
      <4>2. passed[t][u] <= moved[t] /\ passed'[t][u] <= passed[t][u] + 1
        BY <1>7, <1>15, <2>2, <4>1
      <4> QED BY <1>8, <3>0, <3>2, <4>2
    <3> QED BY <3>1, <3>2
  <2> QED BY <1>8, <2>1, <2>2
<1> QED BY <1>10, <1>11, <1>12, <1>16, <1>17 DEF ExecutorInv

-----------------------------------------------------------------------------
(* The theorems.                                                           *)

LEMMA ExecutorInit == Init => ExecutorInv
<1> SUFFICES ASSUME Init PROVE ExecutorInv
  OBVIOUS
<1>1. TypeOK
  BY TypeInit
<1>2. order = <<>> /\ cursor = 0 /\ ~ \E i : i \in DOMAIN order
  BY DEF Init
<1>3. RoundOK /\ TurnOK
  BY <1>2 DEF RoundOK, TurnOK
<1>4. ClientOK
  BY DEF Init, ClientOK
<1>5. GhostOK /\ BoundedBypass
  BY DEF Init, GhostOK, BoundedBypass, NoPass
<1> QED BY <1>1, <1>3, <1>4, <1>5 DEF ExecutorInv

LEMMA ExecutorStep == ExecutorInv /\ [Next]_vars => ExecutorInv'
<1> SUFFICES ASSUME ExecutorInv, [Next]_vars PROVE ExecutorInv'
  OBVIOUS
<1>1. TypeOK'
  BY TypeStep DEF ExecutorInv
<1>2. ASSUME NEW t \in Task, Client(t) PROVE ExecutorInv'
  BY <1>1, <1>2, RegisterStep, ReceiveStep, SubmitStep, CloseQueueStep DEF Client
<1>3. CASE Pop
  BY <1>1, <1>3, PopStep
<1>4. CASE SettleQueued
  BY <1>1, <1>4, SettleStep
<1>5. CASE \/ Dispatch \/ Close \/ UNCHANGED vars
           \/ \E w \in Worker : Take(w) \/ Finish(w)
  BY <1>1, <1>5, OtherSteps
<1> QED BY <1>2, <1>3, <1>4, <1>5 DEF Next

\* The dispatcher's round, queues and channel keep their types and bounds.
THEOREM TypeCorrect == Spec => []TypeOK
<1>1. Spec => []ExecutorInv
  BY ExecutorInit, ExecutorStep, PTL DEF Spec
<1> QED BY <1>1, PTL DEF ExecutorInv

\* popReadyJob serves no registration more than once, and once more for every task
\* that left the round ahead of the waiting one, before it serves a waiting task:
\* for any tasks that register, submit, leave and come back in any order.
THEOREM BypassBounded == Spec => []BoundedBypass
<1>1. Spec => []ExecutorInv
  BY ExecutorInit, ExecutorStep, PTL DEF Spec
<1> QED BY <1>1, PTL DEF ExecutorInv

=============================================================================
