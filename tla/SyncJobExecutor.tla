--------------------------- MODULE SyncJobExecutor ---------------------------
(***************************************************************************)
(* The shared batch job executor of a syncer process                       *)
(* (internal/syncer/job_executor.go): every running task registers a       *)
(* bounded queue, a dispatcher goroutine pops the queues round robin and   *)
(* feeds one shared channel, and a fixed set of workers runs the jobs.     *)
(* The jobs of a task are alike here, so a queue is its length.  What a    *)
(* job does, and whether its context is over, is in SyncRunner.            *)
(***************************************************************************)
EXTENDS Naturals, Sequences, FiniteSets

CONSTANTS
    Task,
    Worker,             \* goroutines of work
    NoTask,
    PerTaskQueueSize,
    JobQueueSize

ASSUME SyncJobExecutorAssumption ==
    /\ NoTask \notin Task
    /\ PerTaskQueueSize \in Nat \ {0}
    /\ JobQueueSize \in Nat \ {0}

VARIABLES
    client,    \* the coordinator of a task: "idle", "accepted" or "refused" (the
               \* reply of RegisterTask is in its channel), "active"
    order,     \* registered tasks, the dispatcher's round
    cursor,    \* index into order, from 0
    queue,     \* jobs in the queue of a registered task
    pending,   \* the job the dispatcher holds
    jobs,      \* e.jobs
    work,      \* work[w]: the job of worker w
    stop,      \* "no", "closing" (e.stop is closed), "drained" (e.jobs is closed)
    passed,    \* ghost: passed[t][u], pops of u since it registered and t has been
               \* waiting
    moved      \* ghost: tasks before t that left the round since t has been waiting

ghosts == <<passed, moved>>
vars == <<client, order, cursor, queue, pending, jobs, work, stop, ghosts>>

Registered(t) == \E i \in DOMAIN order : order[i] = t

Index(t) == CHOOSE i \in DOMAIN order : order[i] = t

NoPass == [u \in Task |-> 0]

TypeOK ==
    /\ client \in [Task -> {"idle", "accepted", "refused", "active"}]
    /\ order \in Seq(Task)
    /\ cursor \in Nat
    /\ queue \in [Task -> 0..PerTaskQueueSize]
    /\ pending \in Task \cup {NoTask}
    /\ jobs \in Seq(Task) /\ Len(jobs) <= JobQueueSize
    /\ work \in [Worker -> Task \cup {NoTask}]
    /\ stop \in {"no", "closing", "drained"}
    /\ passed \in [Task -> [Task -> Nat]]
    /\ moved \in [Task -> Nat]

Init ==
    /\ client = [t \in Task |-> "idle"]
    /\ order = <<>>
    /\ cursor = 0
    /\ queue = [t \in Task |-> 0]
    /\ pending = NoTask
    /\ jobs = <<>>
    /\ work = [w \in Worker |-> NoTask]
    /\ stop = "no"
    /\ passed = [t \in Task |-> NoPass]
    /\ moved = [t \in Task |-> 0]

-----------------------------------------------------------------------------
(* The coordinators.                                                       *)

\* RegisterTask up to its second select: the dispatcher takes the command,
\* applies it and puts the answer into the reply channel.
RegisterTask(t) ==
    /\ stop = "no"
    /\ client[t] = "idle"
    /\ IF Registered(t)
       THEN /\ client' = [client EXCEPT ![t] = "refused"]
            /\ UNCHANGED order
       ELSE /\ client' = [client EXCEPT ![t] = "accepted"]
            /\ order' = Append(order, t)
    /\ UNCHANGED <<cursor, queue, pending, jobs, work, stop, ghosts>>

\* The reply is read: the run starts, or ends with "already registered".
Receive(t) ==
    /\ client[t] \in {"accepted", "refused"}
    /\ client' = [client EXCEPT ![t] = IF @ = "accepted" THEN "active" ELSE "idle"]
    /\ UNCHANGED <<order, cursor, queue, pending, jobs, work, stop, ghosts>>

\* The context ends first: RegisterTask returns without reading the reply.
Abandon(t) ==
    /\ client[t] \in {"accepted", "refused"}
    /\ client' = [client EXCEPT ![t] = "idle"]
    /\ UNCHANGED <<order, cursor, queue, pending, jobs, work, stop, ghosts>>

\* SyncJobQueue.submit; a full queue blocks it.
Submit(t) ==
    /\ client[t] = "active"
    /\ queue[t] < PerTaskQueueSize
    /\ queue' = [queue EXCEPT ![t] = @ + 1]
    /\ UNCHANGED <<client, order, cursor, pending, jobs, work, stop, ghosts>>

\* unregisterExecutorTask: the tasks behind move up, the cursor stays unless it
\* is past the end.
Unregister(t) ==
    /\ order' = SubSeq(order, 1, Index(t) - 1) \o SubSeq(order, Index(t) + 1, Len(order))
    /\ cursor' = IF cursor >= Len(order') THEN 0 ELSE cursor

\* SyncJobQueue.Close when the run ends, early or not: the jobs left in the
\* queue are dropped with it.
CloseQueue(t) ==
    /\ client[t] = "active"
    /\ client' = [client EXCEPT ![t] = "idle"]
    /\ Unregister(t)
    /\ queue' = [queue EXCEPT ![t] = 0]
    /\ passed' = [u \in Task |-> IF u = t THEN NoPass ELSE [passed[u] EXCEPT ![t] = 0]]
    /\ moved' = [u \in Task |->
                    IF u = t THEN 0
                    ELSE IF queue[u] > 0 /\ Index(t) < Index(u) THEN moved[u] + 1
                    ELSE moved[u]]
    /\ UNCHANGED <<pending, jobs, work, stop>>

-----------------------------------------------------------------------------
(* The dispatcher and the workers.                                         *)

\* The i-th queue after the cursor.
At(i) == order[((cursor + i) % Len(order)) + 1]

\* Mutant: popReadyJob gives up when the queue at the cursor is empty.
FirstOnly(i) == i = 0 /\ queue[At(0)] > 0

\* popReadyJob stops at the first queue after the cursor that has a job.
First(i) ==
    /\ queue[At(i)] > 0
    /\ \A k \in 0..i - 1 : queue[At(k)] = 0

\* Mutant: the cursor stays on the queue just popped.
AfterSame(i) == (cursor + i) % Len(order)

\* Where popReadyJob leaves the cursor.
After(i) == (((cursor + i) % Len(order)) + 1) % Len(order)

Pop ==
    /\ stop # "drained"
    /\ pending = NoTask
    /\ \E i \in 0..Len(order) - 1 :
          /\ First(i)
          /\ pending' = At(i)
          /\ queue' = [queue EXCEPT ![At(i)] = @ - 1]
          /\ cursor' = After(i)
          /\ passed' = [t \in Task |->
                           IF t = At(i) \/ queue[t] = 0 THEN NoPass
                           ELSE [passed[t] EXCEPT ![At(i)] = @ + 1]]
          /\ moved' = [moved EXCEPT ![At(i)] = 0]
    /\ UNCHANGED <<client, order, jobs, work, stop>>

\* The pending job goes into the shared channel, if it has room.
Dispatch ==
    /\ stop # "drained"
    /\ pending # NoTask
    /\ Len(jobs) < JobQueueSize
    /\ jobs' = Append(jobs, pending)
    /\ pending' = NoTask
    /\ UNCHANGED <<client, order, cursor, queue, work, stop, ghosts>>

\* Mutant: workers stop receiving when the executor closes.
TakeOpen(w) ==
    /\ stop = "no"
    /\ work[w] = NoTask
    /\ jobs # <<>>
    /\ work' = [work EXCEPT ![w] = Head(jobs)]
    /\ jobs' = Tail(jobs)
    /\ UNCHANGED <<client, order, cursor, queue, pending, stop, ghosts>>

\* A worker receives a job ...
Take(w) ==
    /\ work[w] = NoTask
    /\ jobs # <<>>
    /\ work' = [work EXCEPT ![w] = Head(jobs)]
    /\ jobs' = Tail(jobs)
    /\ UNCHANGED <<client, order, cursor, queue, pending, stop, ghosts>>

\* ... and settles it: run, or refused because its context is over.
Finish(w) ==
    /\ work[w] # NoTask
    /\ work' = [work EXCEPT ![w] = NoTask]
    /\ UNCHANGED <<client, order, cursor, queue, pending, jobs, stop, ghosts>>

\* Close: Syncer.Stop calls it when every task worker has returned.
Close ==
    /\ stop = "no"
    /\ \A t \in Task : client[t] = "idle"
    /\ stop' = "closing"
    /\ UNCHANGED <<client, order, cursor, queue, pending, jobs, work, ghosts>>

\* The dispatcher sees e.stop: settleQueuedJobs, close(e.jobs).
SettleQueued ==
    /\ stop = "closing"
    /\ stop' = "drained"
    /\ pending' = NoTask
    /\ queue' = [t \in Task |-> 0]
    /\ passed' = [t \in Task |-> NoPass]
    /\ moved' = [t \in Task |-> 0]
    /\ UNCHANGED <<client, order, cursor, jobs, work>>

\* Close has returned.
Closed ==
    /\ stop = "drained"
    /\ jobs = <<>>
    /\ \A w \in Worker : work[w] = NoTask

Client(t) == RegisterTask(t) \/ Receive(t) \/ Abandon(t) \/ Submit(t) \/ CloseQueue(t)

Next ==
    \/ \E t \in Task : Client(t)
    \/ Pop
    \/ Dispatch
    \/ \E w \in Worker : Take(w) \/ Finish(w)
    \/ Close
    \/ SettleQueued

Spec == Init /\ [][Next]_vars

\* The dispatcher and the workers run; every job function returns.
FairSpec ==
    /\ Spec
    /\ WF_vars(Pop)
    /\ WF_vars(Dispatch)
    /\ WF_vars(SettleQueued)
    /\ \A w \in Worker : WF_vars(Take(w)) /\ WF_vars(Finish(w))

-----------------------------------------------------------------------------
(* Correctness.                                                            *)

\* The round robin of popReadyJob: while a task waits with a job in its queue,
\* every registration of another task is served at most once, and once more for
\* every task ahead of it that left the round meanwhile (unregisterExecutorTask
\* does not move the cursor back with the tasks, so the one it pointed at loses a
\* turn).
BoundedBypass ==
    \A t, u \in Task : passed[t][u] <= 1 + moved[t]

\* No queue starves while others are refilled for ever and tasks come and go: a
\* waiting job is popped unless its run ends first.
Served ==
    \A t \in Task : (queue[t] > 0) ~> (pending = t \/ ~Registered(t) \/ stop # "no")

\* Close returns: the dispatcher settles what it holds, the workers drain the
\* shared channel and exit.
CloseReturns == (stop # "no") ~> Closed
=============================================================================
