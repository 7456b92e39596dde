------------------------ MODULE IngestionTasks_proofs ------------------------
(***************************************************************************)
(* Proofs about the ingestion tasks, for any number of documents, clients, *)
(* processes, workers and faults: types, that no unfinished task loses its *)
(* message, and that the claims of a process are exactly what it holds.    *)
(***************************************************************************)
EXTENDS IngestionTasks, TLAPS

LEMMA MsgParts ==
    /\ \A m \in Msg : m[1] \in Task /\ m[2] \in Nat /\ m = <<m[1], m[2]>>
    /\ \A t \in Task, k \in Nat : <<t, k>> \in Msg /\ <<t, k>>[1] = t /\ <<t, k>>[2] = k
BY DEF Msg

-----------------------------------------------------------------------------
(* Types.                                                                  *)

LEMMA TypeInit == Init => TypeOK
BY IngestionTasksAssumption
   DEF Init, TypeOK, ConsumerOK, WorkerOK, ClientOK, ConsumerState, WorkerState,
       ClientState, Status, WorkerPC, IdleWorker, IdleConsumer, IdleClient

LEMMA TerminalBoolean == \A s : IsTerminal(s) \in BOOLEAN
BY DEF IsTerminal

LEMMA AnswerBoolean ==
    ASSUME NEW known, NEW s, NEW ok \in BOOLEAN
    PROVE  (IF known THEN IsTerminal(s) ELSE ok) \in BOOLEAN
BY TerminalBoolean

LEMMA FaultStep == ASSUME TypeOK, Fault \/ UNCHANGED faults PROVE faults' \in 0..MaxFault
BY IngestionTasksAssumption DEF TypeOK, Fault

LEMMA ClientSteps ==
    ASSUME ClientOK, NEW c \in Client
    PROVE  /\ ClientDone(c) => ClientOK'
           /\ \A t \in Task, was \in Status,
                 pc \in {"publish", "rollback", "delete", "stop", "flag"} :
                    ClientAt(c, pc, t, was) => ClientOK'
BY DEF ClientOK, ClientDone, ClientAt, ClientState, IdleClient, Status

LEMMA ConsumerSteps ==
    ASSUME ConsumerOK, NEW p \in Proc
    PROVE  /\ ConsumerDone(p) => ConsumerOK'
           /\ \A pc \in {"start", "claim", "send", "ack", "nack"} :
                 consumer[p].pc # "idle" /\ ConsumerAt(p, pc) => ConsumerOK'
<1>1. ConsumerDone(p) => ConsumerOK'
  BY DEF ConsumerOK, ConsumerDone, ConsumerState, IdleConsumer
<1>2. ASSUME NEW pc \in {"start", "claim", "send", "ack", "nack"},
             consumer[p].pc # "idle", ConsumerAt(p, pc)
      PROVE  ConsumerOK'
  <2>1. consumer[p] \in ConsumerState /\ consumer[p].msg \in Msg
    BY <1>2 DEF ConsumerOK
  <2> DEFINE r == [consumer[p] EXCEPT !.pc = pc]
  <2>2. r \in ConsumerState /\ r.msg \in Msg
    BY <2>1 DEF ConsumerState
  <2>3. consumer' = [consumer EXCEPT ![p] = r]
    BY <1>2 DEF ConsumerAt
  <2> HIDE DEF r
  <2> QED BY <2>2, <2>3 DEF ConsumerOK
<1> QED BY <1>1, <1>2

LEMMA WorkerSteps ==
    ASSUME WorkerOK, NEW w \in Worker, NEW r \in WorkerState,
           worker' = [worker EXCEPT ![w] = r], r.pc # "idle" => r.msg \in Msg
    PROVE  WorkerOK'
BY DEF WorkerOK

LEMMA WorkerMoves ==
    ASSUME WorkerOK, NEW w \in Worker, worker[w].pc # "idle"
    PROVE  /\ \A pc \in WorkerPC : WorkerAt(w, pc) => WorkerOK'
           /\ \A ok \in BOOLEAN : Return(w, ok) => WorkerOK'
<1>0. worker[w] \in WorkerState /\ worker[w].msg \in Msg
  BY DEF WorkerOK
<1>1. ASSUME NEW pc \in WorkerPC, WorkerAt(w, pc) PROVE WorkerOK'
  <2> DEFINE r == [worker[w] EXCEPT !.pc = pc]
  <2>1. r \in WorkerState /\ r.msg \in Msg
    BY <1>0 DEF WorkerState
  <2>2. worker' = [worker EXCEPT ![w] = r]
    BY <1>1 DEF WorkerAt
  <2> QED BY <2>1, <2>2, WorkerSteps
<1>2. ASSUME NEW ok \in BOOLEAN, Return(w, ok) PROVE WorkerOK'
  <2> DEFINE r == [worker[w] EXCEPT !.pc = "settle", !.ok = ok]
  <2>1. r \in WorkerState /\ r.msg \in Msg
    BY <1>0 DEF WorkerState, WorkerPC
  <2>2. worker' = [worker EXCEPT ![w] = r]
    BY <1>2 DEF Return
  <2> QED BY <2>1, <2>2, WorkerSteps
<1> QED BY <1>1, <1>2

LEMMA TypeClient ==
    ASSUME TypeOK, NEW c \in Client,
           \/ ClientStep(c) \/ PublishFails(c)
           \/ \E t \in Task : \/ Create(c, t) \/ Retry(c, t) \/ Remove(c, t)
                              \/ DeleteIfTerminal(c, t) \/ RequestStop(c, t)
    PROVE  TypeOK'
<1>0. /\ client[c].pc # "idle" => client[c].task \in Task
      /\ client[c].was \in Status
      /\ \A t \in Task : row[t] \in Status
  BY DEF TypeOK, ClientOK, ClientState
<1>a. ConsumerOK' /\ WorkerOK'
  BY DEF TypeOK, ConsumerOK, WorkerOK, ClientStep, PublishFails, Create, Retry, Remove,
         DeleteIfTerminal, RequestStop, Publish, Rollback, Delete, StopTransition, SetFlag,
         ingestors
<1> USE <1>0, <1>a, IngestionTasksAssumption, ClientSteps, MsgParts
    DEF TypeOK, rows, broker, budget, ingestors, Status, Active, Terminal, Request, Fault
<1>1. CASE Publish(c)
  BY <1>1 DEF Publish, PublishTo
<1>2. CASE PublishFails(c)
  <2>1. ClientOK'
    <3>1. ClientAt(c, "rollback", client[c].task, client[c].was) /\ client[c].pc = "publish"
      BY <1>2 DEF PublishFails
    <3> QED BY <3>1
  <2>2. CASE PublishTo(client[c].task)
    <3>1. sent' \in [Task -> Nat] /\ ready' \subseteq Msg /\ out' \subseteq Msg
          /\ excused' \subseteq Task
      BY <1>2, <2>2 DEF PublishFails, PublishTo
    <3> QED BY <1>2, <2>1, <3>1, FaultStep DEF PublishFails
  <2>3. CASE UNCHANGED <<broker, excused>>
    BY <1>2, <2>1, <2>3 DEF PublishFails
  <2> QED BY <1>2, <2>2, <2>3 DEF PublishFails
<1>3. CASE Rollback(c)
  <2> DEFINE t == client[c].task
             was == client[c].was
  <2>0. t \in Task
    BY <1>3 DEF Rollback
  <2>1. ClientOK'
    <3>1. CASE ClientDone(c)
      BY <3>1
    <3>2. CASE ClientAt(c, "delete", t, "new")
      BY <2>0, <3>2
    <3> QED BY <1>3, <3>1, <3>2 DEF Rollback
  <2>2. row' \in [Task -> Status] /\ excused' \subseteq Task
    <3>1. CASE row' = [row EXCEPT ![t] = was] /\ UNCHANGED excused
      BY <3>1
    <3>2. CASE UNCHANGED row /\ (UNCHANGED excused \/ excused' = excused \cup {t})
      BY <2>0, <3>2
    <3> QED BY <1>3, <3>1, <3>2 DEF Rollback
  <2>3. faults' \in 0..MaxFault
    BY <1>3 DEF Rollback
  <2> QED BY <1>3, <2>1, <2>2, <2>3 DEF Rollback
<1>4. CASE Delete(c)
  BY <1>4 DEF Delete
<1>5. CASE StopTransition(c)
  <2> DEFINE t == client[c].task
             to == IF client[c].was = "created" THEN "stopped" ELSE "stopping"
  <2>0. t \in Task /\ to \in Status
    BY <1>5 DEF StopTransition
  <2> HIDE DEF to
  <2>1. ClientOK'
    <3>1. CASE ClientDone(c)
      BY <3>1
    <3>2. CASE ClientAt(c, "flag", t, "stopping")
      BY <2>0, <3>2
    <3> QED BY <1>5, <3>1, <3>2 DEF StopTransition
  <2>2. row' \in [Task -> Status]
    <3>1. row' = [row EXCEPT ![t] = to] \/ UNCHANGED row
      BY <1>5 DEF StopTransition, to
    <3>2. CASE row' = [row EXCEPT ![t] = to]
      BY <2>0, <3>2
    <3>3. CASE UNCHANGED row
      BY <3>3
    <3> QED BY <3>1, <3>2, <3>3
  <2> QED BY <1>5, <2>1, <2>2 DEF StopTransition
<1>6. CASE SetFlag(c)
  BY <1>6 DEF SetFlag
<1>7. ASSUME NEW t \in Task, Create(c, t) PROVE TypeOK'
  BY <1>7 DEF Create
<1>8. ASSUME NEW t \in Task, Retry(c, t) PROVE TypeOK'
  BY <1>8 DEF Retry
<1>9. ASSUME NEW t \in Task, Remove(c, t) PROVE TypeOK'
  BY <1>9 DEF Remove
<1>10. ASSUME NEW t \in Task, DeleteIfTerminal(c, t) PROVE TypeOK'
  BY <1>10 DEF DeleteIfTerminal, ClientOK
<1>11. ASSUME NEW t \in Task, RequestStop(c, t) PROVE TypeOK'
  BY <1>11 DEF RequestStop
<1> QED BY <1>1, <1>2, <1>3, <1>4, <1>5, <1>6, <1>7, <1>8, <1>9, <1>10, <1>11
        DEF ClientStep

LEMMA TypeBroker == ASSUME TypeOK, NEW m \in out, AckExpire(m) PROVE TypeOK'
BY DEF TypeOK, ConsumerOK, WorkerOK, ClientOK, AckExpire, rows, budget, ingestors

LEMMA TypeConsumer ==
    ASSUME TypeOK, NEW p \in Proc,
           \/ ConsumerStep(p) \/ StartFails(p) \/ ConsumerSettleFails(p)
           \/ Shutdown(p) \/ Restart(p) \/ Crash(p)
           \/ \E m \in ready : Fetch(p, m)
    PROVE  TypeOK'
<1>0. consumer[p].pc # "idle" => consumer[p].msg \in Msg /\ consumer[p].msg[1] \in Task
  BY MsgParts DEF TypeOK, ConsumerOK
<1> USE <1>0, IngestionTasksAssumption, ConsumerSteps
    DEF TypeOK, rows, broker, budget, requesters
<1>1. CASE StartRunning(p)
  BY <1>1 DEF StartRunning, FinalizeStop, WorkerOK, ClientOK, Status, Active, Terminal
<1>2. CASE StartShutdown(p)
  BY <1>2 DEF StartShutdown, WorkerOK, ClientOK
<1>3. CASE StartFails(p)
  BY <1>3 DEF StartFails, WorkerOK, ClientOK, Fault
<1>4. CASE ClaimTask(p)
  <2>1. ConsumerOK'
    <3>1. CASE ConsumerAt(p, "ack")
      BY <1>4, <3>1 DEF ClaimTask
    <3>2. CASE ConsumerAt(p, "send")
      BY <1>4, <3>2 DEF ClaimTask
    <3> QED BY <1>4, <3>1, <3>2 DEF ClaimTask
  <2>2. claims' \in [Proc -> SUBSET Task] /\ excused' \subseteq Task
    <3> DEFINE t == consumer[p].msg[1]
    <3>0. t \in Task
      BY <1>4 DEF ClaimTask
    <3>1. CASE excused' = excused \cup {t} /\ UNCHANGED claims
      BY <3>0, <3>1
    <3>2. CASE claims' = [claims EXCEPT ![p] = @ \cup {t}] /\ UNCHANGED excused
      BY <3>0, <3>2
    <3> QED BY <1>4, <3>1, <3>2 DEF ClaimTask
  <2> QED BY <1>4, <2>1, <2>2 DEF ClaimTask, WorkerOK, ClientOK
<1>5. CASE Send(p)
  BY <1>5 DEF Send, WorkerOK, ClientOK
<1>6. CASE SendShutdown(p)
  BY <1>6 DEF SendShutdown, WorkerOK, ClientOK
<1>7. CASE ConsumerSettle(p)
  BY <1>7 DEF ConsumerSettle, BrokerAck, BrokerNack, WorkerOK, ClientOK
<1>8. CASE ConsumerSettleFails(p)
  BY <1>8 DEF ConsumerSettleFails, WorkerOK, ClientOK, Fault
<1>9. CASE Shutdown(p)
  BY <1>9 DEF Shutdown, WorkerOK, ClientOK, ConsumerOK, Fault
<1>10. CASE Restart(p) \/ Crash(p)
  <2>1. FreshProcess(p) /\ UNCHANGED <<rows, broker, requesters, excused>>
        /\ faults' \in 0..MaxFault
    BY <1>10 DEF Restart, Crash, Fault
  <2>2. IdleWorker \in WorkerState /\ IdleWorker.pc = "idle"
    BY DEF IdleWorker, WorkerState
  <2>3. WorkerOK'
    BY <2>1, <2>2 DEF FreshProcess, WorkerOK
  <2>4. ConsumerOK'
    BY <2>1 DEF FreshProcess, ConsumerDone
  <2> QED BY <2>1, <2>3, <2>4 DEF FreshProcess, ClientOK
<1>11. ASSUME NEW m \in ready, Fetch(p, m) PROVE TypeOK'
  <2>1. ConsumerOK'
    BY <1>11 DEF Fetch, ConsumerOK, ConsumerState
  <2> QED BY <1>11, <2>1 DEF Fetch, WorkerOK, ClientOK
<1> QED BY <1>1, <1>2, <1>3, <1>4, <1>5, <1>6, <1>7, <1>8, <1>9, <1>10, <1>11
        DEF ConsumerStep

LEMMA TypeWorker ==
    ASSUME TypeOK, NEW w \in Worker,
           \/ WorkerStep(w) \/ PollCancel(w) \/ ClearFails(w) \/ BodyFails(w)
           \/ SettleFails(w) \/ AckFails(w)
    PROVE  TypeOK'
<1>0. /\ ProcOf[w] \in Proc
      /\ worker[w] \in WorkerState
      /\ worker[w].pc # "idle" => worker[w].msg \in Msg /\ T(w) \in Task
  BY IngestionTasksAssumption, MsgParts DEF TypeOK, WorkerOK, T
<1>a. ConsumerOK' /\ ClientOK'
  BY DEF TypeOK, ConsumerOK, ClientOK, WorkerStep, Take, PollCancel, Check, Clear, ClearFails,
         RunDocumentTask, CompleteTask, MarkFailed, Recover, MarkStopping, MarkStopped,
         BodyFails, Settle, SettleFails, AckOrNack, AckFails, ReleaseTask, others
<1> USE <1>0, <1>a, IngestionTasksAssumption, WorkerMoves
    DEF TypeOK, rows, broker, budget, others, WorkerPC
<1>1. CASE Take(w)
  <2>1. chan[ProcOf[w]] \in Seq(Msg) /\ chan[ProcOf[w]] # <<>>
    BY <1>1 DEF Take
  <2>2. Head(chan[ProcOf[w]]) \in Msg /\ Tail(chan[ProcOf[w]]) \in Seq(Msg)
    BY <2>1
  <2>3. [IdleWorker EXCEPT !.pc = "check", !.msg = Head(chan[ProcOf[w]])] \in WorkerState
    BY <2>2 DEF IdleWorker, WorkerState
  <2>4. [IdleWorker EXCEPT !.pc = "check", !.msg = Head(chan[ProcOf[w]])].msg \in Msg
    BY <2>2 DEF IdleWorker
  <2>5. WorkerOK'
    BY <1>1, <2>3, <2>4, WorkerSteps DEF Take
  <2> QED BY <1>1, <2>2, <2>5 DEF Take
<1>2. CASE PollCancel(w)
  <2>1. [worker[w] EXCEPT !.cancelled = TRUE] \in WorkerState
    BY DEF WorkerState
  <2>2. [worker[w] EXCEPT !.cancelled = TRUE].msg \in Msg
    BY <1>2 DEF PollCancel, WorkerState
  <2>3. WorkerOK'
    BY <1>2, <2>1, <2>2, WorkerSteps DEF PollCancel
  <2> QED BY <1>2, <2>3 DEF PollCancel
<1>3. CASE Check(w)
  <2> DEFINE r == [worker[w] EXCEPT !.pc = "stop", !.cancelled = TRUE, !.bg = TRUE]
  <2>1. r \in WorkerState /\ r.msg \in Msg
    BY <1>3 DEF Check, WorkerState
  <2>2. WorkerOK'
    <3>1. CASE worker' = [worker EXCEPT ![w] = r]
      BY <2>1, <3>1, WorkerSteps
    <3>2. CASE WorkerAt(w, "clear")
      BY <1>3, <3>2 DEF Check
    <3> QED BY <1>3, <3>1, <3>2 DEF Check
  <2> QED BY <1>3, <2>2 DEF Check
<1>4. CASE Clear(w) \/ ClearFails(w)
  <2>1. WorkerOK'
    BY <1>4 DEF Clear, ClearFails
  <2>2. flags' \subseteq Task
    BY <1>4 DEF Clear, ClearFails
  <2>3. faults' \in 0..MaxFault
    BY <1>4, FaultStep DEF Clear, ClearFails
  <2> QED BY <1>4, <2>1, <2>2, <2>3 DEF Clear, ClearFails
<1>5. CASE RunDocumentTask(w)
  <2>1. WorkerOK'
    BY <1>5 DEF RunDocumentTask
  <2>2. faults' \in 0..MaxFault
    BY <1>5, FaultStep DEF RunDocumentTask
  <2> QED BY <1>5, <2>1, <2>2 DEF RunDocumentTask
<1>6. CASE CompleteTask(w) \/ MarkFailed(w)
  BY <1>6 DEF CompleteTask, MarkFailed, Finish, Status, Terminal
<1>7. CASE Recover(w)
  BY <1>7 DEF Recover, Status, Terminal
<1>8. CASE MarkStopping(w)
  BY <1>8 DEF MarkStopping, Status, Terminal, Active
<1>9. CASE MarkStopped(w)
  BY <1>9 DEF MarkStopped, Finish, Status, Terminal
<1>10. CASE BodyFails(w) \/ SettleFails(w) \/ AckFails(w)
  <2>1. WorkerOK'
    BY <1>10 DEF BodyFails, SettleFails, AckFails
  <2>2. faults' \in 0..MaxFault
    BY <1>10, FaultStep DEF BodyFails, SettleFails, AckFails
  <2> QED BY <1>10, <2>1, <2>2 DEF BodyFails, SettleFails, AckFails
<1>11. CASE Settle(w)
  <2> DEFINE known == proc[ProcOf[w]] = "up" /\ row[T(w)] \notin {"new", "absent"}
             b == IF known THEN IsTerminal(row[T(w)]) ELSE worker[w].ok
             r == [worker[w] EXCEPT !.pc = "ack", !.ok = b]
  <2>1. b \in BOOLEAN
    <3>1. worker[w].ok \in BOOLEAN
      BY DEF WorkerState
    <3> QED BY <3>1, AnswerBoolean
  <2>2. worker' = [worker EXCEPT ![w] = r]
    BY <1>11 DEF Settle
  <2> HIDE DEF b
  <2>3. r \in WorkerState /\ r.msg \in Msg
    BY <1>11, <2>1 DEF Settle, WorkerState
  <2>4. WorkerOK'
    BY <2>2, <2>3, WorkerSteps
  <2> QED BY <1>11, <2>4 DEF Settle
<1>12. CASE AckOrNack(w)
  BY <1>12 DEF AckOrNack, BrokerAck, BrokerNack
<1>13. CASE ReleaseTask(w)
  <2>1. IdleWorker \in WorkerState /\ IdleWorker.pc = "idle"
    BY DEF IdleWorker, WorkerState
  <2>2. WorkerOK'
    BY <1>13, <2>1, WorkerSteps DEF ReleaseTask
  <2> QED BY <1>13, <2>2 DEF ReleaseTask
<1> QED BY <1>1, <1>2, <1>3, <1>4, <1>5, <1>6, <1>7, <1>8, <1>9, <1>10, <1>11, <1>12, <1>13
        DEF WorkerStep

LEMMA TypeStep == ASSUME TypeOK, [Next]_vars PROVE TypeOK'
<1>1. CASE UNCHANGED vars
  BY <1>1 DEF TypeOK, ConsumerOK, WorkerOK, ClientOK, vars, rows, broker, budget
<1>2. CASE Next
  BY <1>2, TypeClient, TypeBroker, TypeConsumer, TypeWorker DEF Next
<1> QED BY <1>1, <1>2

\* Every reachable state is well typed: rows, messages, claims and the control
\* states of consume loops, workers and requests.
THEOREM TypeCorrect == Spec => []TypeOK
BY TypeInit, TypeStep, PTL DEF Spec

-----------------------------------------------------------------------------
(* No unfinished task loses its message.                                   *)

Known == {m \in Msg : m[2] <= sent[m[1]]}

\* Acknowledging m loses nothing: its task is finished, excused, about to be
\* published again, or has a later message.
Safe(m) ==
    \/ row[m[1]] \notin Active
    \/ m[1] \in excused
    \/ Enqueueing(m[1])
    \/ m[2] # sent[m[1]]

\* Only published messages are held anywhere.
HeldKnown ==
    /\ ready \subseteq Known /\ out \subseteq Known
    /\ \A p \in Proc : consumer[p].pc # "idle" => consumer[p].msg \in Known
    /\ chan \in [Proc -> Seq(Known)]
    /\ \A w \in Worker : worker[w].pc # "idle" => worker[w].msg \in Known

UndoOK ==
    \A c \in Client : client[c].pc \in {"publish", "rollback"} =>
                          client[c].was \in {"new", "failed", "stopped"}

\* A consume loop or a worker is going to acknowledge m, or just did.
Acking(m) ==
    \/ \E p \in Proc : consumer[p].pc = "ack" /\ consumer[p].msg = m
    \/ \E w \in Worker : worker[w].pc # "idle" /\ worker[w].ok /\ worker[w].msg = m

AckSafe == \A m \in Known : Acking(m) => Safe(m)

KnownCarried == \A m \in Known : Safe(m) \/ m \in ready \cup out

CarryInv == TypeOK /\ HeldKnown /\ UndoOK /\ AckSafe /\ KnownCarried

LEMMA CarryInit == Init => CarryInv
<1> SUFFICES ASSUME Init PROVE CarryInv
  OBVIOUS
<1>1. TypeOK
  BY TypeInit
<1>2. HeldKnown
  BY DEF Init, HeldKnown, IdleConsumer, IdleWorker
<1>3. UndoOK /\ AckSafe
  BY DEF Init, UndoOK, AckSafe, Acking, IdleClient, IdleConsumer, IdleWorker
<1>4. KnownCarried
  BY MsgParts DEF Init, KnownCarried, Known, Safe, Active
<1> QED BY <1>1, <1>2, <1>3, <1>4 DEF CarryInv

LEMMA CarryImplies == CarryInv => CarriedUnlessExcused
<1> SUFFICES ASSUME CarryInv, NEW t \in Task,
                    row[t] \in Active, t \notin excused, ~ Enqueueing(t)
             PROVE  Latest(t) \in ready \cup out
  BY DEF CarriedUnlessExcused
<1>1. /\ Latest(t) \in Msg /\ Latest(t)[1] = t /\ Latest(t)[2] = sent[t]
      /\ sent[t] \in Nat
  BY MsgParts DEF CarryInv, TypeOK, Latest
<1>2. Latest(t) \in Known
  BY <1>1 DEF Known
<1>3. ~ Safe(Latest(t))
  BY <1>1 DEF Safe
<1> QED BY <1>2, <1>3 DEF CarryInv, KnownCarried

\* A step that publishes nothing, excuses no less and revives no row.
Quiet ==
    /\ UNCHANGED <<client, sent>>
    /\ excused \subseteq excused'
    /\ \A t \in Task : row[t] \notin Active => row'[t] \notin Active

LEMMA QuietKeeps ==
    ASSUME Quiet
    PROVE  Known' = Known /\ \A m \in Known : Safe(m) => Safe(m)'
<1>1. Known' = Known
  BY DEF Quiet, Known
<1>2. ASSUME NEW m \in Known, Safe(m) PROVE Safe(m)'
  <2>1. m[1] \in Task
    BY MsgParts DEF Known
  <2>2. Enqueueing(m[1])' <=> Enqueueing(m[1])
    BY DEF Quiet, Enqueueing
  <2> QED BY <1>2, <2>1, <2>2 DEF Quiet, Safe
<1> QED BY <1>1, <1>2

-----------------------------------------------------------------------------
(* Requests.                                                               *)

\* What a request on t0 by c leaves alone.
OnlyOn(c, t0) ==
    /\ \A d \in Client : d # c => client'[d] = client[d]
    /\ client[c].pc # "idle" => client[c].task = t0
    /\ client'[c].pc # "idle" => client'[c].task = t0
    /\ \A t \in Task \ {t0} : row'[t] = row[t] /\ sent'[t] = sent[t]
    /\ excused \ {t0} \subseteq excused'

LEMMA ElsewhereSafe ==
    ASSUME NEW c \in Client, NEW t0 \in Task, OnlyOn(c, t0), NEW m \in Msg, m[1] # t0, Safe(m)
    PROVE  Safe(m)'
<1>1. m[1] \in Task
  BY MsgParts
<1>2. Enqueueing(m[1]) => Enqueueing(m[1])'
  BY DEF OnlyOn, Enqueueing
<1>3. /\ row'[m[1]] = row[m[1]] /\ sent'[m[1]] = sent[m[1]]
      /\ m[1] \in excused => m[1] \in excused'
  <2>1. m[1] \in Task \ {t0}
    BY <1>1
  <2> QED BY <2>1 DEF OnlyOn
<1> QED BY <1>2, <1>3 DEF Safe

\* A request that neither creates, publishes nor undoes leaves the enqueueing
\* requests as they are.
LEMMA StillEnqueueing ==
    ASSUME NEW c \in Client, NEW t0 \in Task, OnlyOn(c, t0), NEW t,
           client[c].pc \notin {"publish", "rollback", "delete"}, Enqueueing(t)
    PROVE  Enqueueing(t)'
BY DEF OnlyOn, Enqueueing

LEMMA StepOnly ==
    ASSUME TypeOK, NEW c \in Client, ClientStep(c) \/ PublishFails(c)
    PROVE  client[c].task \in Task /\ OnlyOn(c, client[c].task)
<1>0. client[c].task \in Task
  BY DEF TypeOK, ClientOK, ClientStep, PublishFails, Publish, Rollback, Delete,
         StopTransition, SetFlag
<1> USE <1>0 DEF TypeOK, OnlyOn, ClientOK, ClientAt, ClientDone, IdleClient, broker, rows
<1>1. CASE Publish(c)
  BY <1>1 DEF Publish, PublishTo
<1>2. CASE PublishFails(c)
  BY <1>2 DEF PublishFails, PublishTo
<1>3. CASE Rollback(c)
  BY <1>3 DEF Rollback
<1>4. CASE Delete(c)
  BY <1>4 DEF Delete
<1>5. CASE StopTransition(c)
  BY <1>5 DEF StopTransition
<1>6. CASE SetFlag(c)
  BY <1>6 DEF SetFlag
<1> QED BY <1>1, <1>2, <1>3, <1>4, <1>5, <1>6 DEF ClientStep

LEMMA RequestOnly ==
    ASSUME TypeOK, NEW c \in Client, NEW t \in Task,
           \/ Create(c, t) \/ Retry(c, t) \/ Remove(c, t)
           \/ DeleteIfTerminal(c, t) \/ RequestStop(c, t)
    PROVE  OnlyOn(c, t)
<1> USE DEF TypeOK, OnlyOn, ClientOK, ClientAt, broker, rows
<1>1. CASE Create(c, t)
  BY <1>1 DEF Create
<1>2. CASE Retry(c, t)
  BY <1>2 DEF Retry
<1>3. CASE Remove(c, t)
  BY <1>3 DEF Remove
<1>4. CASE DeleteIfTerminal(c, t)
  BY <1>4 DEF DeleteIfTerminal
<1>5. CASE RequestStop(c, t)
  BY <1>5 DEF RequestStop
<1> QED BY <1>1, <1>2, <1>3, <1>4, <1>5

LEMMA StepSafe ==
    ASSUME CarryInv, NEW c \in Client, ClientStep(c) \/ PublishFails(c),
           NEW m \in Known, Safe(m)
    PROVE  Safe(m)'
<1> DEFINE t0 == client[c].task
<1>0. /\ t0 \in Task /\ OnlyOn(c, t0) /\ m \in Msg
      /\ m[2] \in Nat /\ m[2] <= sent[m[1]] /\ row \in [Task -> Status] /\ sent \in [Task -> Nat]
  BY StepOnly, MsgParts DEF CarryInv, Known, TypeOK
<1> SUFFICES ASSUME m[1] = t0 PROVE Safe(m)'
  BY <1>0, ElsewhereSafe
<1>1. CASE Publish(c)
  <2>1. sent'[t0] = sent[t0] + 1 /\ sent[t0] \in Nat
    BY <1>0, <1>1 DEF Publish, PublishTo
  <2> QED BY <1>0, <2>1 DEF Safe
<1>2. CASE PublishFails(c)
  <2>1. client'[c] = [pc |-> "rollback", task |-> t0, was |-> client[c].was]
    BY <1>2 DEF PublishFails, ClientAt, CarryInv, TypeOK, ClientOK
  <2>2. Enqueueing(m[1])'
    BY <2>1 DEF Enqueueing
  <2> QED BY <2>2 DEF Safe
<1>3. CASE Rollback(c)
  <2>1. CASE row' = [row EXCEPT ![t0] = client[c].was] /\ client[c].was # "new"
    <3>1. client[c].was \in {"failed", "stopped"}
      BY <1>3, <2>1 DEF Rollback, CarryInv, UndoOK
    <3>2. row'[t0] \notin Active
      BY <1>0, <2>1, <3>1 DEF Active
    <3> QED BY <3>2 DEF Safe
  <2>2. CASE ClientAt(c, "delete", t0, "new")
    <3>1. client'[c] = [pc |-> "delete", task |-> t0, was |-> "new"]
      BY <2>2 DEF ClientAt, CarryInv, TypeOK, ClientOK
    <3>2. Enqueueing(m[1])'
      BY <3>1 DEF Enqueueing
    <3> QED BY <3>2 DEF Safe
  <2>3. CASE excused' = excused \cup {t0}
    BY <2>3 DEF Safe
  <2> QED BY <1>3, <2>1, <2>2, <2>3 DEF Rollback
<1>4. CASE Delete(c)
  <2>1. row'[t0] = "absent"
    BY <1>0, <1>4 DEF Delete
  <2> QED BY <2>1 DEF Safe, Active
<1>5. CASE StopTransition(c)
  <2>1. Enqueueing(m[1]) => Enqueueing(m[1])'
    BY <1>0, <1>5, StillEnqueueing DEF StopTransition
  <2>2. row[t0] \notin Active => row'[t0] \notin Active
    BY <1>0, <1>5 DEF StopTransition, ValidTransition, Active
  <2> QED BY <1>5, <2>1, <2>2 DEF Safe, StopTransition, broker
<1>6. CASE SetFlag(c)
  <2>1. Enqueueing(m[1]) => Enqueueing(m[1])'
    BY <1>0, <1>6, StillEnqueueing DEF SetFlag
  <2> QED BY <1>6, <2>1 DEF Safe, SetFlag, broker
<1> QED BY <1>1, <1>2, <1>3, <1>4, <1>5, <1>6 DEF ClientStep

LEMMA RequestSafe ==
    ASSUME CarryInv, NEW c \in Client, NEW t \in Task,
           \/ Create(c, t) \/ Retry(c, t) \/ Remove(c, t)
           \/ DeleteIfTerminal(c, t) \/ RequestStop(c, t),
           NEW m \in Known, Safe(m)
    PROVE  Safe(m)'
<1>0. OnlyOn(c, t) /\ m \in Msg /\ row \in [Task -> Status]
  BY RequestOnly DEF CarryInv, Known, TypeOK
<1> SUFFICES ASSUME m[1] = t PROVE Safe(m)'
  BY <1>0, ElsewhereSafe
<1>1. CASE Create(c, t) \/ Retry(c, t)
  <2>1. client'[c].pc = "publish" /\ client'[c].task = t
    BY <1>1 DEF Create, Retry, ClientAt, CarryInv, TypeOK, ClientOK
  <2>2. Enqueueing(m[1])'
    BY <2>1 DEF Enqueueing
  <2> QED BY <2>2 DEF Safe
<1>2. CASE Remove(c, t) \/ RequestStop(c, t)
  <2>1. Enqueueing(m[1]) => Enqueueing(m[1])'
    BY <1>0, <1>2, StillEnqueueing DEF Remove, RequestStop
  <2> QED BY <1>2, <2>1 DEF Safe, Remove, RequestStop, rows, broker
<1>3. CASE DeleteIfTerminal(c, t)
  <2>1. row'[t] = "absent"
    BY <1>0, <1>3 DEF DeleteIfTerminal
  <2> QED BY <2>1 DEF Safe, Active
<1> QED BY <1>1, <1>2, <1>3


LEMMA ClientRest ==
    ASSUME CarryInv, TypeOK', UndoOK', UNCHANGED ingestors,
           \A t \in Task : sent[t] <= sent'[t],
           \A m \in Known : Safe(m) => Safe(m)',
           ready \subseteq ready', UNCHANGED out,
           \A m \in ready' : m \in ready \/ m[2] <= sent'[m[1]],
           \A m \in Msg : m[2] > sent[m[1]] /\ m[2] <= sent'[m[1]] => m \in ready'
    PROVE  CarryInv'
<1>1. Known \subseteq Known'
  <2> SUFFICES ASSUME NEW m \in Known PROVE m \in Known'
    OBVIOUS
  <2>1. m \in Msg /\ m[1] \in Task /\ m[2] \in Nat /\ m[2] <= sent[m[1]]
    BY MsgParts DEF Known
  <2>2. sent[m[1]] \in Nat /\ sent'[m[1]] \in Nat /\ sent[m[1]] <= sent'[m[1]]
    BY <2>1 DEF CarryInv, TypeOK
  <2>3. m[2] <= sent'[m[1]]
    BY <2>1, <2>2
  <2> QED BY <2>1, <2>3 DEF Known
<1>2. HeldKnown'
  <2>1. ready' \subseteq Known' /\ out' \subseteq Known'
    <3>1. ready \subseteq Known' /\ out' \subseteq Known'
      BY <1>1 DEF CarryInv, HeldKnown
    <3>2. ASSUME NEW m \in ready' PROVE m \in Known'
      <4>1. m \in Msg
        BY <3>2 DEF TypeOK
      <4>2. CASE m[2] <= sent'[m[1]]
        BY <4>1, <4>2 DEF Known
      <4> QED BY <3>1, <3>2, <4>2
    <3> QED BY <3>1, <3>2
  <2>2. chan' \in [Proc -> Seq(Known')]
    <3>1. \A q \in Seq(Known) : q \in Seq(Known')
      BY <1>1
    <3> QED BY <3>1 DEF CarryInv, HeldKnown, ingestors
  <2> QED BY <1>1, <2>1, <2>2 DEF CarryInv, HeldKnown, ingestors
<1>3. ASSUME NEW m \in Known' PROVE m \in Known \/ (m \in ready' /\ ~ Acking(m)')
  <2>1. m \in Msg /\ m[1] \in Task /\ m[2] \in Nat /\ m[2] <= sent'[m[1]]
    BY <1>3, MsgParts DEF Known
  <2>2. CASE m[2] <= sent[m[1]]
    <3>1. m \in Known
      BY <2>1, <2>2 DEF Known
    <3> QED BY <3>1
  <2>3. CASE ~ (m[2] <= sent[m[1]])
    <3>1. m \notin Known
      BY <2>3 DEF Known
    <3>2. ~ Acking(m)'
      BY <3>1 DEF Acking, CarryInv, HeldKnown, ingestors
    <3>3. m[2] > sent[m[1]]
      BY <2>1, <2>3 DEF CarryInv, TypeOK
    <3> QED BY <2>1, <3>2, <3>3
  <2> QED BY <2>2, <2>3
<1>4. \A m : Acking(m)' => Acking(m)
  BY DEF Acking, ingestors
<1>5. AckSafe'
  BY <1>3, <1>4 DEF AckSafe, CarryInv
<1>6. KnownCarried'
  BY <1>3 DEF KnownCarried, CarryInv
<1> QED BY <1>2, <1>5, <1>6 DEF CarryInv

LEMMA ClientCarry ==
    ASSUME CarryInv, TypeOK', NEW c \in Client,
           \/ ClientStep(c) \/ PublishFails(c)
           \/ \E t \in Task : \/ Create(c, t) \/ Retry(c, t) \/ Remove(c, t)
                              \/ DeleteIfTerminal(c, t) \/ RequestStop(c, t)
    PROVE  CarryInv'
<1>1. \A m \in Known : Safe(m) => Safe(m)'
  BY StepSafe, RequestSafe
<1>2. UNCHANGED ingestors
  BY DEF ClientStep, PublishFails, Create, Retry, Remove, DeleteIfTerminal, RequestStop,
         Publish, Rollback, Delete, StopTransition, SetFlag
<1>3. UndoOK'
  <2>1. \A d \in Client \ {c} : client'[d] = client[d]
    BY StepOnly, RequestOnly DEF CarryInv, OnlyOn
  <2>2. client'[c].pc \in {"publish", "rollback"} =>
            client'[c].was \in {"new", "failed", "stopped"}
    <3> USE DEF CarryInv, TypeOK, ClientOK, ClientAt, ClientDone, IdleClient, UndoOK
    <3>1. CASE ClientStep(c)
      BY <3>1 DEF ClientStep, Publish, Rollback, Delete, StopTransition, SetFlag
    <3>2. CASE PublishFails(c)
      BY <3>2 DEF PublishFails
    <3>3. ASSUME NEW t \in Task, \/ Create(c, t) \/ Retry(c, t) \/ Remove(c, t)
                                 \/ DeleteIfTerminal(c, t) \/ RequestStop(c, t)
          PROVE  client'[c].pc \in {"publish", "rollback"} =>
                     client'[c].was \in {"new", "failed", "stopped"}
      BY <3>3 DEF Create, Retry, Remove, DeleteIfTerminal, RequestStop
    <3> QED BY <3>1, <3>2, <3>3
  <2> QED BY <2>1, <2>2 DEF CarryInv, UndoOK
<1>4. CASE \E t \in Task : PublishTo(t)
  <2>1. PICK t \in Task : PublishTo(t)
    BY <1>4
  <2>2. /\ sent[t] \in Nat /\ sent \in [Task -> Nat]
        /\ sent' = [sent EXCEPT ![t] = sent[t] + 1]
        /\ ready' = ready \cup {<<t, sent[t] + 1>>} /\ UNCHANGED out
    BY <2>1 DEF PublishTo, CarryInv, TypeOK
  <2>3. \A u \in Task : sent[u] <= sent'[u]
    BY <2>2
  <2>4. \A m \in ready' : m \in ready \/ m[2] <= sent'[m[1]]
    BY <2>2
  <2>5. ASSUME NEW m \in Msg, m[2] > sent[m[1]], m[2] <= sent'[m[1]] PROVE m \in ready'
    <3>1. m[1] \in Task /\ m[2] \in Nat /\ m = <<m[1], m[2]>>
      BY MsgParts
    <3>2. m[1] = t /\ m[2] = sent[t] + 1
      BY <2>2, <2>5, <3>1
    <3>3. m = <<t, sent[t] + 1>>
      BY <3>1, <3>2
    <3> QED BY <2>2, <3>3
  <2> QED BY <1>1, <1>2, <1>3, <2>2, <2>3, <2>4, <2>5, ClientRest
<1>5. CASE UNCHANGED broker
  <2>1. UNCHANGED sent /\ UNCHANGED ready /\ UNCHANGED out /\ sent \in [Task -> Nat]
    BY <1>5 DEF broker, CarryInv, TypeOK
  <2>2. ASSUME NEW m \in Msg, m[2] > sent[m[1]], m[2] <= sent'[m[1]] PROVE FALSE
    <3>1. m[1] \in Task /\ m[2] \in Nat /\ sent[m[1]] \in Nat
      BY <2>1, MsgParts
    <3> QED BY <2>1, <2>2, <3>1
  <2> QED BY <1>1, <1>2, <1>3, <2>1, <2>2, ClientRest
<1>6. UNCHANGED broker \/ \E t \in Task : PublishTo(t)
  <2>1. Publish(c) \/ PublishFails(c) => client[c].task \in Task
    BY StepOnly DEF CarryInv, ClientStep
  <2> QED BY <2>1 DEF ClientStep, PublishFails, Create, Retry, Remove, DeleteIfTerminal,
                      RequestStop, Publish, Rollback, Delete, StopTransition, SetFlag
<1> QED BY <1>4, <1>5, <1>6

-----------------------------------------------------------------------------
(* The broker, the consume loops and the workers.                          *)

LEMMA QuietCarry ==
    ASSUME CarryInv, TypeOK', HeldKnown', Quiet,
           \A m \in Known : Acking(m)' => Acking(m) \/ Safe(m)',
           \A m \in ready \cup out : m \in ready' \cup out' \/ Acking(m)
    PROVE  CarryInv'
<1>1. Known' = Known /\ \A m \in Known : Safe(m) => Safe(m)'
  BY QuietKeeps
<1>2. AckSafe'
  BY <1>1 DEF AckSafe, CarryInv
<1>3. KnownCarried'
  BY <1>1 DEF KnownCarried, AckSafe, CarryInv
<1>4. UndoOK'
  BY DEF Quiet, UndoOK, CarryInv
<1> QED BY <1>2, <1>3, <1>4 DEF CarryInv

LEMMA ExpireCarry ==
    ASSUME CarryInv, TypeOK', NEW m \in out, AckExpire(m) PROVE CarryInv'
<1>1. Quiet
  BY DEF AckExpire, Quiet, rows
<1>2. Known' = Known
  BY <1>1, QuietKeeps
<1>3. HeldKnown'
  BY <1>2 DEF AckExpire, CarryInv, HeldKnown, ingestors
<1>4. \A n \in Known : Acking(n)' => Acking(n)
  BY DEF AckExpire, Acking, ingestors
<1>5. \A n \in ready \cup out : n \in ready' \cup out'
  BY DEF AckExpire
<1> QED BY <1>1, <1>3, <1>4, <1>5, QuietCarry

\* What the consume loop of p may do to what the proof looks at.
ConsumerMove(p) ==
    /\ UNCHANGED <<worker, client, sent>>
    /\ excused \subseteq excused'
    /\ \A t \in Task : row[t] \notin Active => row'[t] \notin Active
    /\ \A q \in Proc \ {p} : consumer'[q] = consumer[q]
    /\ consumer'[p].pc # "idle" => consumer'[p].msg \in Known
    /\ consumer'[p].pc # "ack" \/ row'[consumer'[p].msg[1]] \notin Active \/ consumer'[p].msg[1] \in excused'
    /\ chan' \in [Proc -> Seq(Known)]
    /\ ready' \subseteq ready \cup out /\ out' \subseteq ready \cup out
    /\ \A m \in ready \cup out :
          m \in ready' \cup out' \/ (consumer[p].pc = "ack" /\ consumer[p].msg = m)

LEMMA ConsumerMoveCarry ==
    ASSUME CarryInv, TypeOK', NEW p \in Proc, ConsumerMove(p) PROVE CarryInv'
<1>1. Quiet
  BY DEF ConsumerMove, Quiet
<1>2. Known' = Known
  BY <1>1, QuietKeeps
<1>3. HeldKnown'
  <2>1. ready' \subseteq Known /\ out' \subseteq Known
    BY DEF ConsumerMove, CarryInv, HeldKnown
  <2>2. \A q \in Proc : consumer'[q].pc # "idle" => consumer'[q].msg \in Known
    BY DEF ConsumerMove, CarryInv, HeldKnown
  <2> QED BY <1>2, <2>1, <2>2 DEF ConsumerMove, CarryInv, HeldKnown
<1>4. ASSUME NEW m \in Known, Acking(m)' PROVE Acking(m) \/ Safe(m)'
  <2>1. CASE consumer'[p].pc = "ack" /\ consumer'[p].msg = m
    BY <2>1 DEF ConsumerMove, Safe
  <2>2. CASE \E q \in Proc \ {p} : consumer'[q].pc = "ack" /\ consumer'[q].msg = m
    BY <2>2 DEF ConsumerMove, Acking
  <2>3. CASE \E w \in Worker : worker'[w].pc # "idle" /\ worker'[w].ok /\ worker'[w].msg = m
    BY <2>3 DEF ConsumerMove, Acking
  <2> QED BY <1>4, <2>1, <2>2, <2>3 DEF Acking
<1>5. \A m \in ready \cup out : m \in ready' \cup out' \/ Acking(m)
  BY DEF ConsumerMove, Acking
<1> QED BY <1>1, <1>3, <1>4, <1>5, QuietCarry

LEMMA ConsumerCarry ==
    ASSUME CarryInv, TypeOK', NEW p \in Proc,
           \/ ConsumerStep(p) \/ StartFails(p) \/ ConsumerSettleFails(p)
           \/ \E m \in ready : Fetch(p, m)
    PROVE  CarryInv'
<1> DEFINE t == consumer[p].msg[1]
<1>0. /\ consumer \in [Proc -> ConsumerState] /\ row \in [Task -> Status]
      /\ consumer[p].pc # "idle" => consumer[p].msg \in Known /\ t \in Task
      /\ chan \in [Proc -> Seq(Known)] /\ ready \subseteq Known
  BY MsgParts DEF CarryInv, TypeOK, ConsumerOK, HeldKnown
<1> SUFFICES ConsumerMove(p)
  BY ConsumerMoveCarry
<1>a. ASSUME NEW pc, ConsumerAt(p, pc)
      PROVE  /\ \A q \in Proc \ {p} : consumer'[q] = consumer[q]
             /\ consumer'[p].pc = pc /\ consumer'[p].msg = consumer[p].msg
  BY <1>0, <1>a DEF ConsumerAt, ConsumerState
<1>b. ASSUME ConsumerDone(p)
      PROVE  /\ \A q \in Proc \ {p} : consumer'[q] = consumer[q]
             /\ consumer'[p].pc = "idle"
  BY <1>0, <1>b DEF ConsumerDone, IdleConsumer
<1> DEFINE Kept == /\ UNCHANGED <<worker, client, sent>>
                   /\ \A q \in Proc \ {p} : consumer'[q] = consumer[q]
           Rows == \A u \in Task : row[u] \notin Active => row'[u] \notin Active
           Msgs == /\ ready' \subseteq ready \cup out /\ out' \subseteq ready \cup out
                   /\ \A m \in ready \cup out :
                         m \in ready' \cup out' \/ (consumer[p].pc = "ack" /\ consumer[p].msg = m)
<1>1. CASE StartRunning(p)
  <2>1. consumer[p].pc = "start" /\ UNCHANGED <<broker, chan, worker, client, excused>>
    BY <1>1 DEF StartRunning
  <2>2. Rows
    <3>1. row[t] \in Active \/ row' = row
      BY <1>1 DEF StartRunning, Active, rows
    <3>2. \A u \in Task \ {t} : row'[u] = row[u]
      BY <1>0, <1>1 DEF StartRunning, FinalizeStop, rows
    <3> QED BY <3>1, <3>2
  <2>3. CASE ConsumerAt(p, "claim")
    <3>1. Kept /\ consumer'[p].pc = "claim" /\ consumer'[p].msg = consumer[p].msg
      BY <1>a, <2>1, <2>3 DEF broker
    <3> QED BY <1>0, <2>1, <2>2, <3>1 DEF ConsumerMove, broker
  <2>4. CASE ConsumerAt(p, "ack") /\ row'[t] \notin Active
    <3>1. Kept /\ consumer'[p].pc = "ack" /\ consumer'[p].msg = consumer[p].msg
      BY <1>a, <2>1, <2>4 DEF broker
    <3> QED BY <1>0, <2>1, <2>2, <2>4, <3>1 DEF ConsumerMove, broker
  <2>5. \/ ConsumerAt(p, "claim")
        \/ ConsumerAt(p, "ack") /\ row'[t] \notin Active
    BY <1>0, <1>1 DEF StartRunning, FinalizeStop, Active, rows
  <2> QED BY <2>3, <2>4, <2>5
<1>2. CASE StartShutdown(p) \/ StartFails(p)
  <2>1. /\ consumer[p].pc = "start" /\ ConsumerAt(p, "nack")
        /\ UNCHANGED <<rows, broker, chan, worker, client, excused>>
    BY <1>2 DEF StartShutdown, StartFails, requesters
  <2>2. Kept /\ consumer'[p].pc = "nack" /\ consumer'[p].msg = consumer[p].msg
    BY <1>a, <2>1 DEF broker
  <2> QED BY <1>0, <2>1, <2>2 DEF ConsumerMove, rows, broker
<1>3. CASE ClaimTask(p)
  <2>1. consumer[p].pc = "claim" /\ UNCHANGED <<rows, broker, chan, worker, client>>
    BY <1>3 DEF ClaimTask
  <2>2. CASE ConsumerAt(p, "ack") /\ excused' = excused \cup {t}
    <3>1. Kept /\ consumer'[p].pc = "ack" /\ consumer'[p].msg = consumer[p].msg
      BY <1>a, <2>1, <2>2 DEF broker
    <3> QED BY <1>0, <2>1, <2>2, <3>1 DEF ConsumerMove, rows, broker
  <2>3. CASE ConsumerAt(p, "send") /\ UNCHANGED excused
    <3>1. Kept /\ consumer'[p].pc = "send" /\ consumer'[p].msg = consumer[p].msg
      BY <1>a, <2>1, <2>3 DEF broker
    <3> QED BY <1>0, <2>1, <2>3, <3>1 DEF ConsumerMove, rows, broker
  <2> QED BY <1>3, <2>2, <2>3 DEF ClaimTask
<1>4. CASE Send(p)
  <2>1. chan' \in [Proc -> Seq(Known)]
    BY <1>0, <1>4 DEF Send
  <2>2. Kept /\ consumer'[p].pc = "idle"
    BY <1>b, <1>4 DEF Send, broker
  <2> QED BY <1>4, <2>1, <2>2 DEF Send, ConsumerMove, rows, broker
<1>5. CASE SendShutdown(p)
  <2>1. Kept /\ consumer'[p].pc = "idle"
    BY <1>b, <1>5 DEF SendShutdown, broker
  <2> QED BY <1>0, <1>5, <2>1 DEF SendShutdown, ConsumerMove, rows, broker
<1>6. CASE ConsumerSettle(p)
  <2>1. Kept /\ consumer'[p].pc = "idle"
    BY <1>b, <1>6 DEF ConsumerSettle
  <2>2. Msgs
    <3>1. CASE consumer[p].pc = "ack" /\ BrokerAck(consumer[p].msg)
      BY <3>1 DEF BrokerAck
    <3>2. CASE BrokerNack(consumer[p].msg)
      BY <3>2 DEF BrokerNack
    <3> QED BY <1>6, <3>1, <3>2 DEF ConsumerSettle
  <2> QED BY <1>0, <1>6, <2>1, <2>2 DEF ConsumerSettle, ConsumerMove, rows
<1>7. CASE ConsumerSettleFails(p)
  <2>1. Kept /\ consumer'[p].pc = "idle"
    BY <1>b, <1>7 DEF ConsumerSettleFails, broker, requesters
  <2> QED BY <1>0, <1>7, <2>1 DEF ConsumerSettleFails, ConsumerMove, rows, broker
<1>8. ASSUME NEW m \in ready, Fetch(p, m) PROVE ConsumerMove(p)
  <2>1. Kept /\ consumer'[p].pc = "start" /\ consumer'[p].msg = m
    BY <1>0, <1>8 DEF Fetch
  <2> QED BY <1>0, <1>8, <2>1 DEF Fetch, ConsumerMove, rows
<1> QED BY <1>1, <1>2, <1>3, <1>4, <1>5, <1>6, <1>7, <1>8 DEF ConsumerStep

\* What worker w may do to what the proof looks at.
WorkerMove(w) ==
    /\ UNCHANGED <<consumer, client, sent, excused>>
    /\ \A t \in Task : row[t] \notin Active => row'[t] \notin Active
    /\ \A v \in Worker \ {w} : worker'[v] = worker[v]
    /\ worker'[w].pc # "idle" => worker'[w].msg \in Known
    /\ ~ worker'[w].ok \/ row'[worker'[w].msg[1]] \notin Active \/ (worker[w].ok /\ worker[w].pc # "idle" /\ worker'[w].msg = worker[w].msg)
    /\ chan' \in [Proc -> Seq(Known)]
    /\ ready' \subseteq ready \cup out /\ out' \subseteq ready \cup out
    /\ \A m \in ready \cup out :
          m \in ready' \cup out' \/ (worker[w].ok /\ worker[w].pc # "idle" /\ worker[w].msg = m)

LEMMA WorkerMoveCarry ==
    ASSUME CarryInv, TypeOK', NEW w \in Worker, WorkerMove(w) PROVE CarryInv'
<1>1. Quiet
  BY DEF WorkerMove, Quiet
<1>2. Known' = Known
  BY <1>1, QuietKeeps
<1>3. HeldKnown'
  <2>1. ready' \subseteq Known /\ out' \subseteq Known
    BY DEF WorkerMove, CarryInv, HeldKnown
  <2>2. \A v \in Worker : worker'[v].pc # "idle" => worker'[v].msg \in Known
    BY DEF WorkerMove, CarryInv, HeldKnown
  <2> QED BY <1>2, <2>1, <2>2 DEF WorkerMove, CarryInv, HeldKnown
<1>4. ASSUME NEW m \in Known, Acking(m)' PROVE Acking(m) \/ Safe(m)'
  <2>1. CASE worker'[w].pc # "idle" /\ worker'[w].ok /\ worker'[w].msg = m
    BY <2>1 DEF WorkerMove, Safe, Acking
  <2>2. CASE \E v \in Worker \ {w} : worker'[v].pc # "idle" /\ worker'[v].ok /\ worker'[v].msg = m
    BY <2>2 DEF WorkerMove, Acking
  <2>3. CASE \E q \in Proc : consumer'[q].pc = "ack" /\ consumer'[q].msg = m
    BY <2>3 DEF WorkerMove, Acking
  <2> QED BY <1>4, <2>1, <2>2, <2>3 DEF Acking
<1>5. \A m \in ready \cup out : m \in ready' \cup out' \/ Acking(m)
  BY DEF WorkerMove, Acking
<1> QED BY <1>1, <1>3, <1>4, <1>5, QuietCarry

\* The worker's own part of WorkerMove for a step that keeps its message and
\* either keeps its answer, answers "not done" or finds the row finished.
Answers(w) ==
    /\ \A v \in Worker \ {w} : worker'[v] = worker[v]
    /\ worker'[w].msg = worker[w].msg
    /\ worker'[w].ok = worker[w].ok \/ worker'[w].ok = FALSE \/ row'[T(w)] \notin Active

LEMMA AtAnswers ==
    ASSUME WorkerOK, NEW w \in Worker, NEW pc, WorkerAt(w, pc) PROVE Answers(w)
BY DEF WorkerOK, WorkerAt, Answers, WorkerState

LEMMA ReturnAnswers ==
    ASSUME WorkerOK, NEW w \in Worker, NEW ok, Return(w, ok),
           ok = FALSE \/ row'[T(w)] \notin Active
    PROVE  Answers(w)
BY DEF WorkerOK, Return, Answers, WorkerState

LEMMA FinishRow ==
    ASSUME row \in [Task -> Status], NEW w \in Worker, T(w) \in Task,
           NEW to \in Terminal, Finish(w, to)
    PROVE  /\ Return(w, TRUE) /\ row'[T(w)] \notin Active
           /\ \A t \in Task : row[t] \notin Active => row'[t] \notin Active
BY DEF Finish, Active, Terminal

\* A step of the body of w, that leaves the queue and the broker alone.
LEMMA BodyCarry ==
    ASSUME CarryInv, TypeOK', NEW w \in Worker, worker[w].pc # "idle",
           UNCHANGED <<broker, others>>, Answers(w),
           \A t \in Task : row[t] \notin Active => row'[t] \notin Active
    PROVE  CarryInv'
<1>1. worker[w].msg \in Known /\ chan \in [Proc -> Seq(Known)]
  BY DEF CarryInv, HeldKnown
<1>2. /\ UNCHANGED <<consumer, client, sent, excused>> /\ UNCHANGED chan
      /\ UNCHANGED ready /\ UNCHANGED out
  BY DEF broker, others
<1>3. WorkerMove(w)
  BY <1>1, <1>2 DEF WorkerMove, Answers, T
<1> QED BY <1>3, WorkerMoveCarry

LEMMA WorkerCarry ==
    ASSUME CarryInv, TypeOK', NEW w \in Worker,
           \/ WorkerStep(w) \/ PollCancel(w) \/ ClearFails(w) \/ BodyFails(w)
           \/ SettleFails(w) \/ AckFails(w)
    PROVE  CarryInv'
<1>0. /\ WorkerOK /\ row \in [Task -> Status] /\ chan \in [Proc -> Seq(Known)]
      /\ worker \in [Worker -> WorkerState] /\ ProcOf[w] \in Proc
      /\ worker[w].pc # "idle" => worker[w].msg \in Known /\ T(w) \in Task
  BY MsgParts, IngestionTasksAssumption DEF CarryInv, TypeOK, WorkerOK, HeldKnown, T
<1> DEFINE Rows == \A t \in Task : row[t] \notin Active => row'[t] \notin Active
<1>1. CASE Take(w)
  <2> DEFINE p == ProcOf[w]
  <2>1. /\ worker' = [worker EXCEPT ![w] = [IdleWorker EXCEPT !.pc = "check", !.msg = Head(chan[p])]]
        /\ chan' = [chan EXCEPT ![p] = Tail(chan[p])] /\ chan[p] # <<>>
        /\ UNCHANGED <<consumer, client, sent, ready, out, row, excused>>
    BY <1>1 DEF Take, rows, broker
  <2>2. Head(chan[p]) \in Known /\ chan' \in [Proc -> Seq(Known)]
    BY <1>0, <2>1
  <2>3. /\ worker'[w].msg = Head(chan[p]) /\ worker'[w].ok = FALSE
        /\ \A v \in Worker \ {w} : worker'[v] = worker[v]
    BY <1>0, <2>1 DEF IdleWorker
  <2>4. WorkerMove(w)
    BY <2>1, <2>2, <2>3 DEF WorkerMove
  <2> QED BY <2>4, WorkerMoveCarry
<1>2. CASE PollCancel(w) \/ Check(w)
  <2>1. Answers(w)
    BY <1>0, <1>2 DEF PollCancel, Check, Answers, WorkerAt, WorkerState
  <2> QED BY <1>2, <2>1, BodyCarry DEF PollCancel, Check, rows
<1>3. CASE Clear(w) \/ RunDocumentTask(w)
  <2>1. Answers(w)
    BY <1>0, <1>3, AtAnswers, ReturnAnswers DEF Clear, RunDocumentTask
  <2> QED BY <1>3, <2>1, BodyCarry DEF Clear, RunDocumentTask, rows
<1>4. CASE ClearFails(w) \/ SettleFails(w) \/ BodyFails(w)
  <2>1. Answers(w)
    BY <1>0, <1>4, AtAnswers, ReturnAnswers DEF ClearFails, SettleFails, BodyFails
  <2> QED BY <1>4, <2>1, BodyCarry DEF ClearFails, SettleFails, BodyFails, rows
<1>5. CASE CompleteTask(w)
  <2>1. worker[w].pc # "idle" /\ UNCHANGED <<broker, others>>
    BY <1>5 DEF CompleteTask
  <2>2. CASE Finish(w, "completed")
    BY <1>0, <2>1, <2>2, FinishRow, ReturnAnswers, BodyCarry DEF Terminal
  <2>3. CASE WorkerAt(w, "stop") /\ UNCHANGED row
    BY <1>0, <2>1, <2>3, AtAnswers, BodyCarry
  <2>4. CASE Return(w, FALSE) /\ UNCHANGED row
    BY <1>0, <2>1, <2>4, ReturnAnswers, BodyCarry
  <2> QED BY <1>5, <2>2, <2>3, <2>4 DEF CompleteTask
<1>6. CASE MarkFailed(w)
  <2>1. worker[w].pc # "idle" /\ UNCHANGED <<broker, others>>
    BY <1>6 DEF MarkFailed
  <2>2. CASE Finish(w, "failed")
    BY <1>0, <2>1, <2>2, FinishRow, ReturnAnswers, BodyCarry DEF Terminal
  <2>3. CASE Return(w, FALSE) /\ UNCHANGED row
    BY <1>0, <2>1, <2>3, ReturnAnswers, BodyCarry
  <2> QED BY <1>6, <2>2, <2>3 DEF MarkFailed
<1>7. CASE Recover(w)
  <2>1. worker[w].pc # "idle" /\ UNCHANGED <<broker, others>> /\ Return(w, FALSE)
    BY <1>7 DEF Recover
  <2>2. Rows
    BY <1>0, <1>7 DEF Recover, Active
  <2> QED BY <1>0, <2>1, <2>2, ReturnAnswers, BodyCarry
<1>8. CASE MarkStopping(w)
  <2>1. worker[w].pc # "idle" /\ UNCHANGED <<broker, others>>
    BY <1>8 DEF MarkStopping
  <2>2. Rows
    BY <1>0, <1>8 DEF MarkStopping, Active, rows
  <2>3. Return(w, FALSE) \/ WorkerAt(w, "mark")
    BY <1>8 DEF MarkStopping
  <2> QED BY <1>0, <2>1, <2>2, <2>3, ReturnAnswers, AtAnswers, BodyCarry
<1>9. CASE MarkStopped(w)
  <2>1. worker[w].pc # "idle" /\ UNCHANGED <<broker, others>>
    BY <1>9 DEF MarkStopped
  <2>2. CASE Finish(w, "stopped")
    BY <1>0, <2>1, <2>2, FinishRow, ReturnAnswers, BodyCarry DEF Terminal
  <2>3. CASE Return(w, FALSE) /\ UNCHANGED rows
    BY <1>0, <2>1, <2>3, ReturnAnswers, BodyCarry DEF rows
  <2> QED BY <1>9, <2>2, <2>3 DEF MarkStopped
<1>10. CASE Settle(w)
  <2>1. worker[w].pc # "idle" /\ UNCHANGED <<broker, others, row>>
    BY <1>10 DEF Settle, rows
  <2>2. Answers(w)
    <3> DEFINE known == proc[ProcOf[w]] = "up" /\ row[T(w)] \notin {"new", "absent"}
               b == IF known THEN IsTerminal(row[T(w)]) ELSE worker[w].ok
    <3>1. worker' = [worker EXCEPT ![w] = [worker[w] EXCEPT !.pc = "ack", !.ok = b]]
      BY <1>10 DEF Settle
    <3>2. b = worker[w].ok \/ b = FALSE \/ row'[T(w)] \notin Active
      BY <2>1 DEF IsTerminal, Terminal, Active
    <3> HIDE DEF b
    <3>3. /\ worker'[w].msg = worker[w].msg /\ worker'[w].ok = b
          /\ \A v \in Worker \ {w} : worker'[v] = worker[v]
      BY <1>0, <3>1 DEF WorkerState
    <3> QED BY <3>2, <3>3 DEF Answers
  <2> QED BY <2>1, <2>2, BodyCarry
<1>11. CASE AckOrNack(w)
  <2>1. /\ worker[w].pc # "idle" /\ WorkerAt(w, "release")
        /\ UNCHANGED <<consumer, client, sent, chan, row, excused>>
    BY <1>11 DEF AckOrNack, rows, others
  <2>2. /\ worker'[w].msg = worker[w].msg /\ worker'[w].ok = worker[w].ok
        /\ \A v \in Worker \ {w} : worker'[v] = worker[v]
    BY <1>0, <2>1 DEF WorkerAt, WorkerState
  <2>3. /\ ready' \subseteq ready \cup out /\ out' \subseteq ready \cup out
        /\ \A m \in ready \cup out : m \in ready' \cup out' \/ (worker[w].ok /\ worker[w].msg = m)
    <3>1. CASE worker[w].ok /\ BrokerAck(worker[w].msg)
      BY <3>1 DEF BrokerAck
    <3>2. CASE BrokerNack(worker[w].msg)
      BY <3>2 DEF BrokerNack
    <3> QED BY <1>11, <3>1, <3>2 DEF AckOrNack
  <2>4. WorkerMove(w)
    BY <1>0, <2>1, <2>2, <2>3 DEF WorkerMove
  <2> QED BY <2>4, WorkerMoveCarry
<1>12. CASE AckFails(w)
  <2>1. Answers(w)
    BY <1>0, <1>12, AtAnswers DEF AckFails
  <2> QED BY <1>12, <2>1, BodyCarry DEF AckFails, rows
<1>13. CASE ReleaseTask(w)
  <2>1. /\ worker'[w].pc = "idle" /\ worker'[w].ok = FALSE
        /\ \A v \in Worker \ {w} : worker'[v] = worker[v]
    BY <1>0, <1>13 DEF ReleaseTask, IdleWorker
  <2>2. WorkerMove(w)
    BY <1>0, <1>13, <2>1 DEF WorkerMove, ReleaseTask, rows, broker, others
  <2> QED BY <2>2, WorkerMoveCarry
<1> QED BY <1>1, <1>2, <1>3, <1>4, <1>5, <1>6, <1>7, <1>8, <1>9, <1>10, <1>11, <1>12, <1>13
        DEF WorkerStep

-----------------------------------------------------------------------------
(* Processes, and the theorem.                                             *)

LEMMA ProcCarry ==
    ASSUME CarryInv, TypeOK', NEW p \in Proc, Shutdown(p) \/ Restart(p) \/ Crash(p)
    PROVE  CarryInv'
<1>1. UNCHANGED <<row, sent, ready, out, client, excused>>
  BY DEF Shutdown, Restart, Crash, rows, broker, requesters
<1>2. Quiet
  BY <1>1 DEF Quiet
<1>3. Known' = Known
  BY <1>2, QuietKeeps
<1>4. CASE Shutdown(p)
  <2>1. UNCHANGED <<consumer, chan, worker>>
    BY <1>4 DEF Shutdown
  <2>2. HeldKnown'
    BY <1>1, <1>3, <2>1 DEF CarryInv, HeldKnown
  <2>3. \A m \in Known : Acking(m)' => Acking(m)
    BY <2>1 DEF Acking
  <2> QED BY <1>1, <1>2, <2>2, <2>3, QuietCarry
<1>5. CASE FreshProcess(p)
  <2>1. /\ \A q \in Proc : consumer'[q].pc = "idle" \/ consumer'[q] = consumer[q]
        /\ \A w \in Worker : worker'[w].pc = "idle" \/ worker'[w] = worker[w]
    BY <1>5 DEF FreshProcess, IdleConsumer, IdleWorker, CarryInv, TypeOK, ConsumerOK, WorkerOK
  <2>2. chan' \in [Proc -> Seq(Known)]
    <3>1. <<>> \in Seq(Known) /\ chan \in [Proc -> Seq(Known)]
      BY DEF CarryInv, HeldKnown
    <3> QED BY <1>5, <3>1 DEF FreshProcess
  <2>3. HeldKnown'
    BY <1>1, <1>3, <2>1, <2>2 DEF CarryInv, HeldKnown
  <2>4. \A m \in Known : Acking(m)' => Acking(m)
    BY <2>1 DEF Acking
  <2> QED BY <1>1, <1>2, <2>3, <2>4, QuietCarry
<1> QED BY <1>4, <1>5 DEF Restart, Crash

LEMMA CarryStep == ASSUME CarryInv, [Next]_vars PROVE CarryInv'
<1>0. TypeOK'
  BY TypeStep DEF CarryInv
<1>1. CASE UNCHANGED vars
  BY <1>0, <1>1 DEF CarryInv, HeldKnown, UndoOK, AckSafe, KnownCarried, Acking, Known, Safe,
     Enqueueing, vars, rows, broker
<1>2. CASE Next
  BY <1>0, <1>2, ClientCarry, ExpireCarry, ConsumerCarry, WorkerCarry, ProcCarry DEF Next
<1> QED BY <1>1, <1>2

\* For any number of tasks, processes, workers, requests and faults: a task that is
\* not finished has its last message still at the broker, whatever crashes, fails or
\* is redelivered, unless processMessage skipped that message over an earlier claim
\* or CreateAndEnqueue could not undo a failed enqueue.
THEOREM Carried == Spec => []CarriedUnlessExcused
<1>1. Spec => []CarryInv
  BY CarryInit, CarryStep, PTL DEF Spec
<1> QED BY <1>1, CarryImplies, PTL

-----------------------------------------------------------------------------
(* The claims of a process are exactly the tasks it holds.                 *)

ExactInv == TypeOK /\ ClaimExact

LEMMA ExactInit == Init => ExactInv
<1> SUFFICES ASSUME Init PROVE ExactInv
  OBVIOUS
<1>1. TypeOK
  BY TypeInit
<1>2. ASSUME NEW p \in Proc PROVE HoldsEach(p) /\ HoldsAll(p)
  <2>1. /\ chan[p] = <<>> /\ claims[p] = {} /\ Busy(p) = {} /\ ~ Sending(p)
        /\ DOMAIN chan[p] = {}
    BY DEF Init, Busy, Sending, IdleConsumer, IdleWorker
  <2>2. Queued(p) = {}
    BY <2>1 DEF Queued
  <2> QED BY <2>1, <2>2 DEF HoldsEach, HoldsAll
<1> QED BY <1>1, <1>2 DEF ExactInv, ClaimExact

\* A step that leaves the queue, the claims and the holders of p alone.
Idles(p) ==
    /\ chan'[p] = chan[p] /\ claims'[p] = claims[p]
    /\ Busy(p)' = Busy(p) /\ \A w \in Busy(p) : worker'[w].msg = worker[w].msg
    /\ Sending(p)' <=> Sending(p)
    /\ Sending(p) => consumer'[p].msg = consumer[p].msg

LEMMA IdlesExact ==
    ASSUME NEW p \in Proc, HoldsEach(p), HoldsAll(p), Idles(p)
    PROVE  HoldsEach(p)' /\ HoldsAll(p)'
<1>1. Queued(p)' = Queued(p)
  BY DEF Idles, Queued
<1>2. \A w \in Busy(p) : T(w)' = T(w)
  BY DEF Idles, T
<1>3. HoldsEach(p)'
  BY <1>1, <1>2 DEF Idles, HoldsEach
<1>4. {T(w) : w \in Busy(p)}' = {T(w) : w \in Busy(p)}
  BY <1>2 DEF Idles
<1>5. {t \in Task : Sending(p) /\ consumer[p].msg[1] = t}'
         = {t \in Task : Sending(p) /\ consumer[p].msg[1] = t}
  BY DEF Idles
<1>6. HoldsAll(p)'
  BY <1>1, <1>4, <1>5 DEF HoldsAll, Idles
<1> QED BY <1>3, <1>6

\* The facts of a type-correct state the steps below need.
LEMMA HeldTypes ==
    ASSUME TypeOK, NEW p \in Proc
    PROVE  /\ chan[p] \in Seq(Msg) /\ claims[p] \subseteq Task
           /\ \A i \in DOMAIN chan[p] : chan[p][i] \in Msg /\ chan[p][i][1] \in Task
           /\ Queued(p) \subseteq Task
           /\ \A w \in Busy(p) : w \in Worker /\ ProcOf[w] = p /\ T(w) \in Task
           /\ Sending(p) => consumer[p].msg \in Msg /\ consumer[p].msg[1] \in Task
<1>1. chan[p] \in Seq(Msg) /\ claims[p] \subseteq Task
  BY DEF TypeOK
<1>2. \A i \in DOMAIN chan[p] : chan[p][i] \in Msg /\ chan[p][i][1] \in Task
  BY <1>1, MsgParts
<1>3. Queued(p) \subseteq Task
  BY <1>2 DEF Queued
<1>4. \A w \in Busy(p) : w \in Worker /\ ProcOf[w] = p /\ T(w) \in Task
  BY MsgParts DEF Busy, T, TypeOK, WorkerOK
<1>5. Sending(p) => consumer[p].msg \in Msg /\ consumer[p].msg[1] \in Task
  BY MsgParts DEF Sending, TypeOK, ConsumerOK
<1> QED BY <1>1, <1>2, <1>3, <1>4, <1>5

LEMMA ClaimExactStep ==
    ASSUME TypeOK, NEW p \in Proc, HoldsEach(p), HoldsAll(p), ClaimTask(p)
    PROVE  HoldsEach(p)' /\ HoldsAll(p)'
<1> DEFINE t == consumer[p].msg[1]
<1>1. /\ ~ Sending(p) /\ chan'[p] = chan[p] /\ Busy(p)' = Busy(p)
      /\ \A w \in Busy(p) : worker'[w].msg = worker[w].msg
  BY DEF ClaimTask, Sending, Busy
<1>2. CASE t \in claims[p]
  <2>1. ~ Sending(p)' /\ claims'[p] = claims[p]
    BY <1>2 DEF ClaimTask, ConsumerAt, Sending, TypeOK, ConsumerOK, ConsumerState
  <2>2. Idles(p)
    BY <1>1, <2>1 DEF Idles
  <2> QED BY <2>2, IdlesExact
<1>3. CASE t \notin claims[p]
  <2>1. /\ Sending(p)' /\ claims'[p] = claims[p] \cup {t}
        /\ consumer'[p].msg = consumer[p].msg /\ t \in Task
    BY <1>3, MsgParts DEF ClaimTask, ConsumerAt, Sending, TypeOK, ConsumerOK, ConsumerState
  <2>2. Queued(p)' = Queued(p) /\ \A w \in Busy(p) : T(w)' = T(w)
    BY <1>1 DEF Queued, T
  <2>3. t \notin Queued(p) /\ \A w \in Busy(p) : T(w) # t
    BY <1>3 DEF HoldsAll
  <2>4. HoldsEach(p)'
    BY <1>1, <2>1, <2>2, <2>3 DEF HoldsEach
  <2>5. {T(w) : w \in Busy(p)}' = {T(w) : w \in Busy(p)}
    BY <1>1, <2>2
  <2>6. /\ {u \in Task : Sending(p) /\ consumer[p].msg[1] = u}' = {t}
        /\ {u \in Task : Sending(p) /\ consumer[p].msg[1] = u} = {}
    BY <1>1, <2>1
  <2>7. HoldsAll(p)'
    BY <2>1, <2>2, <2>5, <2>6 DEF HoldsAll
  <2> QED BY <2>4, <2>7
<1> QED BY <1>2, <1>3

LEMMA SendExactStep ==
    ASSUME TypeOK, NEW p \in Proc, HoldsEach(p), HoldsAll(p), Send(p)
    PROVE  HoldsEach(p)' /\ HoldsAll(p)'
<1> DEFINE m == consumer[p].msg
           n == Len(chan[p])
<1>0. /\ Sending(p) /\ m \in Msg /\ m[1] \in Task /\ n \in Nat /\ chan[p] \in Seq(Msg)
      /\ DOMAIN chan[p] = 1..n
  BY HeldTypes DEF Send, Sending
<1>1. /\ ~ Sending(p)' /\ claims'[p] = claims[p] /\ Busy(p)' = Busy(p)
      /\ chan'[p] = Append(chan[p], m)
  BY DEF Send, Sending, Busy, ConsumerDone, IdleConsumer, TypeOK, ConsumerOK
<1>2. /\ DOMAIN chan'[p] = 1..(n + 1) /\ chan'[p][n + 1] = m
      /\ \A i \in 1..n : chan'[p][i] = chan[p][i]
  BY <1>0, <1>1
<1>3. Queued(p)' = Queued(p) \cup {m[1]}
  <2>1. \A u : u \in Queued(p)' <=> \E i \in 1..(n + 1) : u = chan'[p][i][1]
    BY <1>2 DEF Queued
  <2>2. \A u : u \in Queued(p) <=> \E i \in 1..n : u = chan[p][i][1]
    BY <1>0 DEF Queued
  <2>3. \A i : i \in 1..(n + 1) <=> (i \in 1..n \/ i = n + 1)
    BY <1>0
  <2> HIDE DEF m, n
  <2>4. \A u : u \in Queued(p)' <=> (u \in Queued(p) \/ u = m[1])
    BY <1>2, <2>1, <2>2, <2>3
  <2> QED BY <2>4
<1>4. \A w \in Busy(p) : T(w)' = T(w)
  BY DEF Send, T
<1>5. m[1] \notin Queued(p) /\ \A w \in Busy(p) : T(w) # m[1]
  BY <1>0 DEF HoldsEach
<1>6. \A i \in 1..n : chan[p][i][1] # m[1]
  BY <1>0, <1>5 DEF Queued
<1>7. ASSUME NEW i \in DOMAIN chan'[p], NEW j \in DOMAIN chan'[p], chan'[p][i][1] = chan'[p][j][1]
      PROVE  i = j
  <2>1. CASE i \in 1..n /\ j \in 1..n
    BY <1>0, <1>2, <1>7, <2>1 DEF HoldsEach
  <2>2. CASE i = n + 1 /\ j = n + 1
    BY <2>2
  <2>3. CASE (i \in 1..n /\ j = n + 1) \/ (i = n + 1 /\ j \in 1..n)
    BY <1>2, <1>6, <1>7, <2>3
  <2> QED BY <1>0, <1>2, <1>7, <2>1, <2>2, <2>3
<1>8. HoldsEach(p)'
  BY <1>1, <1>3, <1>4, <1>5, <1>7 DEF HoldsEach
<1>9. {T(w) : w \in Busy(p)}' = {T(w) : w \in Busy(p)}
  BY <1>1, <1>4
<1>10. /\ {u \in Task : Sending(p) /\ consumer[p].msg[1] = u} = {m[1]}
       /\ {u \in Task : Sending(p) /\ consumer[p].msg[1] = u}' = {}
  BY <1>0, <1>1
<1>11. HoldsAll(p)'
  BY <1>1, <1>3, <1>9, <1>10 DEF HoldsAll
<1> QED BY <1>8, <1>11

LEMMA SendShutdownExactStep ==
    ASSUME TypeOK, NEW p \in Proc, HoldsEach(p), HoldsAll(p), SendShutdown(p)
    PROVE  HoldsEach(p)' /\ HoldsAll(p)'
<1> DEFINE t == consumer[p].msg[1]
<1>0. Sending(p) /\ t \in Task
  BY HeldTypes DEF SendShutdown, Sending
<1>1. /\ ~ Sending(p)' /\ claims'[p] = claims[p] \ {t} /\ Busy(p)' = Busy(p)
      /\ chan'[p] = chan[p]
  BY DEF SendShutdown, Sending, Busy, ConsumerDone, IdleConsumer, TypeOK, ConsumerOK
<1>2. Queued(p)' = Queued(p) /\ \A w \in Busy(p) : T(w)' = T(w)
  BY <1>1 DEF SendShutdown, Queued, T
<1>3. HoldsEach(p)'
  BY <1>1, <1>2 DEF HoldsEach
<1>4. t \notin Queued(p) /\ t \notin {T(w) : w \in Busy(p)}
  BY <1>0 DEF HoldsEach
<1>5. {T(w) : w \in Busy(p)}' = {T(w) : w \in Busy(p)}
  BY <1>1, <1>2
<1>6. /\ {u \in Task : Sending(p) /\ consumer[p].msg[1] = u} = {t}
      /\ {u \in Task : Sending(p) /\ consumer[p].msg[1] = u}' = {}
  BY <1>0, <1>1
<1>7. HoldsAll(p)'
  BY <1>1, <1>2, <1>4, <1>5, <1>6 DEF HoldsAll
<1> QED BY <1>3, <1>7

LEMMA TakeExactStep ==
    ASSUME TypeOK, NEW w \in Worker, HoldsEach(ProcOf[w]), HoldsAll(ProcOf[w]), Take(w)
    PROVE  HoldsEach(ProcOf[w])' /\ HoldsAll(ProcOf[w])'
<1> DEFINE p == ProcOf[w]
           n == Len(chan[p])
           m == chan[p][1]
<1>0. /\ p \in Proc /\ chan[p] \in Seq(Msg) /\ chan[p] # <<>> /\ chan \in [Proc -> Seq(Msg)]
      /\ worker \in [Worker -> WorkerState] /\ worker[w].pc = "idle"
  BY IngestionTasksAssumption DEF TypeOK, WorkerOK, Take
<1>1. n \in Nat /\ n # 0 /\ DOMAIN chan[p] = 1..n /\ Head(chan[p]) = m
  BY <1>0
<1>2. chan'[p] = Tail(chan[p])
  BY <1>0 DEF Take
<1>3. /\ DOMAIN chan'[p] = 1..(n - 1)
      /\ \A i \in 1..(n - 1) : chan'[p][i] = chan[p][i + 1]
  BY <1>0, <1>1, <1>2
<1>4. /\ worker'[w].pc = "check" /\ worker'[w].msg = m
      /\ \A v \in Worker \ {w} : worker'[v] = worker[v]
  BY <1>0, <1>1 DEF Take, IdleWorker
<1>5. UNCHANGED <<claims, consumer>>
  BY DEF Take
<1>6. Busy(p)' = Busy(p) \cup {w} /\ w \notin Busy(p)
  BY <1>0, <1>4 DEF Busy
<1>7. T(w)' = m[1] /\ \A v \in Busy(p) : v # w /\ T(v)' = T(v)
  BY <1>4, <1>6 DEF T, Busy
<1>8. Sending(p)' <=> Sending(p)
  BY <1>5 DEF Sending
<1>9. \A u : u \in Queued(p) <=> (u \in Queued(p)' \/ u = m[1])
  <2>1. \A u : u \in Queued(p)' <=> \E i \in 1..(n - 1) : u = chan'[p][i][1]
    BY <1>3 DEF Queued
  <2>2. \A u : u \in Queued(p) <=> \E i \in 1..n : u = chan[p][i][1]
    BY <1>1 DEF Queued
  <2>3. \A i \in 1..(n - 1) : i + 1 \in 1..n
    BY <1>1
  <2>4. \A i \in 1..n : i = 1 \/ (i - 1 \in 1..(n - 1) /\ (i - 1) + 1 = i)
    BY <1>1
  <2>5. 1 \in 1..n
    BY <1>1
  <2> HIDE DEF n
  <2>6. ASSUME NEW u, u \in Queued(p) PROVE u \in Queued(p)' \/ u = m[1]
    <3>1. PICK i \in 1..n : u = chan[p][i][1]
      BY <2>2, <2>6
    <3>2. CASE i = 1
      BY <3>1, <3>2
    <3>3. CASE i - 1 \in 1..(n - 1) /\ (i - 1) + 1 = i
      <4>1. u = chan'[p][i - 1][1]
        BY <1>3, <3>1, <3>3
      <4> QED BY <2>1, <3>3, <4>1
    <3> QED BY <2>4, <3>2, <3>3
  <2>7. ASSUME NEW u, u \in Queued(p)' \/ u = m[1] PROVE u \in Queued(p)
    <3>1. CASE u \in Queued(p)'
      BY <1>3, <2>1, <2>2, <2>3, <3>1
    <3>2. CASE u = m[1]
      BY <2>2, <2>5, <3>2
    <3> QED BY <2>7, <3>1, <3>2
  <2> QED BY <2>6, <2>7
<1>10. m[1] \notin Queued(p)'
  <2> SUFFICES ASSUME m[1] \in Queued(p)' PROVE FALSE
    OBVIOUS
  <2>1. PICK i \in 1..(n - 1) : m[1] = chan'[p][i][1]
    BY <1>3 DEF Queued
  <2>2. chan[p][i + 1][1] = chan[p][1][1]
    BY <1>3, <2>1
  <2>3. i + 1 \in DOMAIN chan[p] /\ 1 \in DOMAIN chan[p] /\ i + 1 # 1
    BY <1>1, <2>1
  <2> QED BY <2>2, <2>3 DEF HoldsEach
<1>11. ASSUME NEW i \in DOMAIN chan'[p], NEW j \in DOMAIN chan'[p], chan'[p][i][1] = chan'[p][j][1]
       PROVE  i = j
  <2>1. /\ i \in 1..(n - 1) /\ j \in 1..(n - 1)
        /\ i + 1 \in DOMAIN chan[p] /\ j + 1 \in DOMAIN chan[p]
    BY <1>1, <1>3, <1>11
  <2>2. chan[p][i + 1][1] = chan[p][j + 1][1]
    BY <1>3, <1>11, <2>1
  <2>3. i + 1 = j + 1
    BY <2>1, <2>2 DEF HoldsEach
  <2> QED BY <1>1, <2>1, <2>3
<1> HIDE DEF n
<1>12. \A v \in Busy(p) : T(v) # m[1]
  BY <1>9 DEF HoldsEach
<1> HIDE DEF m
<1>13. \A v, x \in Busy(p)' : T(v)' = T(x)' => v = x
  BY <1>6, <1>7, <1>12 DEF HoldsEach
<1>14. \A v \in Busy(p)' : T(v)' \notin Queued(p)'
  BY <1>6, <1>7, <1>9, <1>10 DEF HoldsEach
<1>15. Sending(p)' => consumer'[p].msg[1] \notin Queued(p)'
  BY <1>5, <1>8, <1>9 DEF HoldsEach
<1>16. Sending(p)' => \A v \in Busy(p)' : T(v)' # consumer'[p].msg[1]
  BY <1>5, <1>6, <1>7, <1>8, <1>9 DEF HoldsEach
<1>17. HoldsEach(p)'
  BY <1>11, <1>13, <1>14, <1>15, <1>16 DEF HoldsEach
<1>18. {T(v) : v \in Busy(p)}' = {T(v) : v \in Busy(p)} \cup {m[1]}
  BY <1>6, <1>7
<1>19. {u \in Task : Sending(p) /\ consumer[p].msg[1] = u}'
          = {u \in Task : Sending(p) /\ consumer[p].msg[1] = u}
  BY <1>5, <1>8
<1>20. HoldsAll(p)'
  BY <1>5, <1>9, <1>18, <1>19 DEF HoldsAll
<1> QED BY <1>17, <1>20

LEMMA ReleaseExactStep ==
    ASSUME TypeOK, NEW w \in Worker, HoldsEach(ProcOf[w]), HoldsAll(ProcOf[w]), ReleaseTask(w)
    PROVE  HoldsEach(ProcOf[w])' /\ HoldsAll(ProcOf[w])'
<1> DEFINE p == ProcOf[w]
<1>0. p \in Proc /\ worker \in [Worker -> WorkerState] /\ w \in Busy(p) /\ claims \in [Proc -> SUBSET Task]
  BY IngestionTasksAssumption DEF TypeOK, WorkerOK, ReleaseTask, Busy
<1>1. /\ claims'[p] = claims[p] \ {T(w)} /\ UNCHANGED <<chan, consumer>>
      /\ worker'[w].pc = "idle" /\ \A v \in Worker \ {w} : worker'[v] = worker[v]
  BY <1>0 DEF ReleaseTask, IdleWorker, others
<1>2. Busy(p)' = Busy(p) \ {w} /\ \A v \in Busy(p) \ {w} : T(v)' = T(v)
  BY <1>1 DEF Busy, T
<1>3. Queued(p)' = Queued(p) /\ Sending(p)' = Sending(p)
  BY <1>1 DEF Queued, Sending
<1>4. HoldsEach(p)'
  BY <1>1, <1>2, <1>3 DEF HoldsEach
<1>5. T(w) \notin Queued(p) /\ \A v \in Busy(p) \ {w} : T(v) # T(w)
  BY <1>0 DEF HoldsEach
<1>6. {T(v) : v \in Busy(p)}' = {T(v) : v \in Busy(p)} \ {T(w)}
  BY <1>0, <1>2, <1>5
<1>7. /\ T(w) \notin {u \in Task : Sending(p) /\ consumer[p].msg[1] = u}
      /\ {u \in Task : Sending(p) /\ consumer[p].msg[1] = u}'
            = {u \in Task : Sending(p) /\ consumer[p].msg[1] = u}
  BY <1>0, <1>1, <1>3 DEF HoldsEach
<1>8. HoldsAll(p)'
  BY <1>1, <1>3, <1>5, <1>6, <1>7 DEF HoldsAll
<1> QED BY <1>4, <1>8

\* A step of p alone leaves the other processes' queues, claims and holders alone.
LEMMA ElsewhereIdles ==
    ASSUME NEW p \in Proc, NEW q \in Proc \ {p},
           chan'[q] = chan[q], claims'[q] = claims[q], consumer'[q] = consumer[q],
           \A w \in Worker : ProcOf[w] # p => worker'[w] = worker[w]
    PROVE  Idles(q)
BY DEF Idles, Busy, Sending

\* A consume loop that is neither before nor after its send holds nothing new.
LEMMA ConsumerIdles ==
    ASSUME NEW p \in Proc, UNCHANGED <<chan, claims, worker>>, ~ Sending(p), ~ Sending(p)'
    PROVE  Idles(p)
BY DEF Idles, Busy

LEMMA ConsumerExact ==
    ASSUME ExactInv, NEW p \in Proc,
           \/ ConsumerStep(p) \/ StartFails(p) \/ ConsumerSettleFails(p)
           \/ \E m \in ready : Fetch(p, m)
    PROVE  ClaimExact'
<1>0. /\ TypeOK /\ \A q \in Proc : HoldsEach(q) /\ HoldsAll(q)
      /\ chan \in [Proc -> Seq(Msg)] /\ claims \in [Proc -> SUBSET Task]
      /\ consumer \in [Proc -> ConsumerState]
  BY DEF ExactInv, ClaimExact, TypeOK, ConsumerOK
<1>1. HoldsEach(p)' /\ HoldsAll(p)'
  <2>1. CASE StartRunning(p) \/ StartShutdown(p) \/ StartFails(p) \/ ConsumerSettle(p)
             \/ ConsumerSettleFails(p) \/ \E m \in ready : Fetch(p, m)
    <3>1. ~ Sending(p) /\ UNCHANGED <<chan, claims, worker>>
      BY <2>1 DEF StartRunning, StartShutdown, StartFails, ConsumerSettle,
                  ConsumerSettleFails, Fetch, Sending
    <3>2. ~ Sending(p)'
      <4>1. CASE StartRunning(p) \/ StartShutdown(p) \/ StartFails(p)
        BY <1>0, <4>1 DEF StartRunning, FinalizeStop, StartShutdown, StartFails, Sending,
                          ConsumerAt, ConsumerState
      <4>2. CASE ConsumerSettle(p) \/ ConsumerSettleFails(p)
        BY <1>0, <4>2 DEF ConsumerSettle, ConsumerSettleFails, Sending, ConsumerDone,
                          IdleConsumer
      <4>3. CASE \E m \in ready : Fetch(p, m)
        BY <1>0, <4>3 DEF Fetch, Sending
      <4> QED BY <2>1, <4>1, <4>2, <4>3
    <3> QED BY <1>0, <3>1, <3>2, ConsumerIdles, IdlesExact
  <2>2. CASE ClaimTask(p)
    BY <1>0, <2>2, ClaimExactStep
  <2>3. CASE Send(p)
    BY <1>0, <2>3, SendExactStep
  <2>4. CASE SendShutdown(p)
    BY <1>0, <2>4, SendShutdownExactStep
  <2> QED BY <2>1, <2>2, <2>3, <2>4 DEF ConsumerStep
<1>2. ASSUME NEW q \in Proc \ {p} PROVE HoldsEach(q)' /\ HoldsAll(q)'
  <2>1. chan'[q] = chan[q] /\ claims'[q] = claims[q] /\ UNCHANGED worker
    BY <1>0 DEF ConsumerStep, StartRunning, StartShutdown, StartFails, ClaimTask, Send,
                SendShutdown, ConsumerSettle, ConsumerSettleFails, Fetch
  <2>2. consumer'[q] = consumer[q]
    BY <1>0 DEF ConsumerStep, StartRunning, FinalizeStop, StartShutdown, StartFails, ClaimTask,
                Send, SendShutdown, ConsumerSettle, ConsumerSettleFails, Fetch, ConsumerAt,
                ConsumerDone
  <2> QED BY <1>0, <2>1, <2>2, ElsewhereIdles, IdlesExact
<1> QED BY <1>1, <1>2 DEF ClaimExact

LEMMA BodyMoves ==
    ASSUME TypeOK, NEW w \in Worker,
           \/ Check(w) \/ Clear(w) \/ RunDocumentTask(w) \/ CompleteTask(w) \/ MarkFailed(w)
           \/ Recover(w) \/ MarkStopping(w) \/ MarkStopped(w) \/ Settle(w) \/ AckOrNack(w)
           \/ PollCancel(w) \/ ClearFails(w) \/ BodyFails(w) \/ SettleFails(w) \/ AckFails(w)
    PROVE  /\ UNCHANGED <<chan, claims, consumer>>
           /\ worker[w].pc # "idle" /\ worker'[w].pc # "idle"
           /\ worker'[w].msg = worker[w].msg
           /\ \A v \in Worker \ {w} : worker'[v] = worker[v]
<1>0. worker \in [Worker -> WorkerState]
  BY DEF TypeOK, WorkerOK
<1> USE DEF others, WorkerAt, Return, WorkerState
<1>1. CASE Check(w) \/ Clear(w) \/ RunDocumentTask(w) \/ PollCancel(w)
  BY <1>0, <1>1 DEF Check, Clear, RunDocumentTask, PollCancel
<1>2. CASE CompleteTask(w) \/ MarkFailed(w) \/ Recover(w)
  BY <1>0, <1>2 DEF CompleteTask, MarkFailed, Recover, Finish
<1>3. CASE MarkStopping(w) \/ MarkStopped(w)
  BY <1>0, <1>3 DEF MarkStopping, MarkStopped, Finish
<1>4. CASE Settle(w)
  <2> DEFINE known == proc[ProcOf[w]] = "up" /\ row[T(w)] \notin {"new", "absent"}
             b == IF known THEN IsTerminal(row[T(w)]) ELSE worker[w].ok
  <2>1. /\ worker' = [worker EXCEPT ![w] = [worker[w] EXCEPT !.pc = "ack", !.ok = b]]
        /\ worker[w].pc = "settle" /\ UNCHANGED <<chan, claims, consumer>>
    BY <1>4 DEF Settle
  <2> HIDE DEF b
  <2> QED BY <1>0, <2>1
<1>5. CASE AckOrNack(w) \/ ClearFails(w) \/ BodyFails(w) \/ SettleFails(w) \/ AckFails(w)
  BY <1>0, <1>5 DEF AckOrNack, ClearFails, BodyFails, SettleFails, AckFails
<1> QED BY <1>1, <1>2, <1>3, <1>4, <1>5

LEMMA WorkerExact ==
    ASSUME ExactInv, NEW w \in Worker,
           \/ WorkerStep(w) \/ PollCancel(w) \/ ClearFails(w) \/ BodyFails(w)
           \/ SettleFails(w) \/ AckFails(w)
    PROVE  ClaimExact'
<1>0. /\ TypeOK /\ \A q \in Proc : HoldsEach(q) /\ HoldsAll(q)
      /\ chan \in [Proc -> Seq(Msg)] /\ claims \in [Proc -> SUBSET Task]
      /\ worker \in [Worker -> WorkerState] /\ ProcOf[w] \in Proc
  BY IngestionTasksAssumption DEF ExactInv, ClaimExact, TypeOK, WorkerOK
<1>1. CASE Take(w) \/ ReleaseTask(w)
  <2>1. HoldsEach(ProcOf[w])' /\ HoldsAll(ProcOf[w])'
    BY <1>0, <1>1, TakeExactStep, ReleaseExactStep
  <2>2. ASSUME NEW q \in Proc \ {ProcOf[w]} PROVE HoldsEach(q)' /\ HoldsAll(q)'
    <3>1. /\ chan'[q] = chan[q] /\ claims'[q] = claims[q] /\ consumer'[q] = consumer[q]
          /\ \A v \in Worker : ProcOf[v] # ProcOf[w] => worker'[v] = worker[v]
      BY <1>0, <1>1 DEF Take, ReleaseTask, others
    <3> QED BY <1>0, <3>1, ElsewhereIdles, IdlesExact
  <2> QED BY <2>1, <2>2 DEF ClaimExact
<1>2. CASE ~ (Take(w) \/ ReleaseTask(w))
  <2>1. /\ UNCHANGED <<chan, claims, consumer>>
        /\ worker[w].pc # "idle" /\ worker'[w].pc # "idle"
        /\ worker'[w].msg = worker[w].msg
        /\ \A v \in Worker \ {w} : worker'[v] = worker[v]
    BY <1>0, <1>2, BodyMoves DEF WorkerStep
  <2>2. \A q \in Proc : Idles(q)
    BY <2>1 DEF Idles, Busy, Sending
  <2> QED BY <1>0, <2>2, IdlesExact DEF ClaimExact
<1> QED BY <1>1, <1>2

LEMMA ProcExact ==
    ASSUME ExactInv, NEW p \in Proc, Shutdown(p) \/ Restart(p) \/ Crash(p)
    PROVE  ClaimExact'
<1>0. /\ \A q \in Proc : HoldsEach(q) /\ HoldsAll(q)
      /\ chan \in [Proc -> Seq(Msg)] /\ claims \in [Proc -> SUBSET Task]
      /\ consumer \in [Proc -> ConsumerState]
  BY DEF ExactInv, ClaimExact, TypeOK, ConsumerOK
<1>1. CASE Shutdown(p)
  <2>1. \A q \in Proc : Idles(q)
    BY <1>1 DEF Shutdown, Idles, Busy, Sending
  <2> QED BY <1>0, <2>1, IdlesExact DEF ClaimExact
<1>2. CASE FreshProcess(p)
  <2>1. /\ chan'[p] = <<>> /\ claims'[p] = {} /\ Busy(p)' = {} /\ ~ Sending(p)'
    BY <1>0, <1>2 DEF FreshProcess, Busy, Sending, IdleConsumer, IdleWorker
  <2>2. DOMAIN chan'[p] = {}
    BY <2>1
  <2>3. Queued(p)' = {}
    BY <2>2 DEF Queued
  <2>4. HoldsEach(p)' /\ HoldsAll(p)'
    BY <2>1, <2>2, <2>3 DEF HoldsEach, HoldsAll
  <2>5. ASSUME NEW q \in Proc \ {p} PROVE HoldsEach(q)' /\ HoldsAll(q)'
    <3>1. /\ chan'[q] = chan[q] /\ claims'[q] = claims[q] /\ consumer'[q] = consumer[q]
          /\ \A v \in Worker : ProcOf[v] # p => worker'[v] = worker[v]
      BY <1>0, <1>2 DEF FreshProcess
    <3> QED BY <1>0, <3>1, ElsewhereIdles, IdlesExact
  <2> QED BY <2>4, <2>5 DEF ClaimExact
<1> QED BY <1>1, <1>2 DEF Restart, Crash

LEMMA ExactStep == ASSUME ExactInv, [Next]_vars PROVE ExactInv'
<1>0. TypeOK'
  BY TypeStep DEF ExactInv
<1>1. CASE UNCHANGED <<chan, claims, consumer, worker>>
  <2>1. \A q \in Proc : Idles(q)
    BY <1>1 DEF Idles, Busy, Sending
  <2> QED BY <1>0, <2>1, IdlesExact DEF ExactInv, ClaimExact
<1>2. CASE UNCHANGED vars
  BY <1>1, <1>2 DEF vars
<1>3. ASSUME NEW c \in Client,
             \/ ClientStep(c) \/ PublishFails(c)
             \/ \E t \in Task : \/ Create(c, t) \/ Retry(c, t) \/ Remove(c, t)
                                \/ DeleteIfTerminal(c, t) \/ RequestStop(c, t)
      PROVE  UNCHANGED <<chan, claims, consumer, worker>>
  BY <1>3 DEF ClientStep, PublishFails, Create, Retry, Remove, DeleteIfTerminal, RequestStop,
         Publish, Rollback, Delete, StopTransition, SetFlag, ingestors
<1>4. ASSUME NEW m \in out, AckExpire(m)
      PROVE  UNCHANGED <<chan, claims, consumer, worker>>
  BY <1>4 DEF AckExpire, ingestors
<1>5. CASE Next
  BY <1>0, <1>1, <1>3, <1>4, <1>5, ConsumerExact, WorkerExact, ProcExact DEF Next, ExactInv
<1> QED BY <1>2, <1>5

\* For any pool and channel size: a process claims exactly the tasks its consume
\* loop is sending, its channel queues and its workers hold, each of them once.
THEOREM ClaimsExact == Spec => []ClaimExact
<1>1. Spec => []ExactInv
  BY ExactInit, ExactStep, PTL DEF Spec
<1> QED BY <1>1, PTL DEF ExactInv
=============================================================================
