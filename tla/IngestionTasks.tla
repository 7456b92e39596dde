--------------------------- MODULE IngestionTasks ---------------------------
(***************************************************************************)
(* The ingestion tasks: the rows of ingestion_task and the requests on     *)
(* them (internal/service/ingestion_task_service.go, dao/ingestion.go),    *)
(* the broker's at-least-once delivery, and the ingestor processes         *)
(* (internal/ingestion/service/ingestion_service.go): one consume loop, a  *)
(* bounded channel and a pool of workers each.                             *)
(*                                                                         *)
(* A status transition reads, validates and compares-and-sets; it is one   *)
(* step here, and a transition that lost its race returns an error and     *)
(* changes nothing, which is the outcome of a database fault.  What the    *)
(* pipeline computes and the mirror on the document row are left out, and  *)
(* so are the memory-extraction messages that share the channel.           *)
(***************************************************************************)
EXTENDS Naturals, Sequences, FiniteSets

CONSTANTS
    Task,          \* ids generateable by Create
    DocOf,         \* the document of a task
    Client,        \* API requests that run at the same time
    Proc,          \* ingestor processes
    Worker, ProcOf,
    None,
    ChanCap,       \* maxConcurrency * 2
    MaxRequest,    \* bound on API requests
    MaxFault       \* bound on crashes, shutdowns and failed calls

ASSUME IngestionTasksAssumption ==
    /\ ProcOf \in [Worker -> Proc]
    /\ ChanCap \in Nat \ {0}
    /\ MaxRequest \in Nat
    /\ MaxFault \in Nat

VARIABLES
    row,        \* status of the task; "new": never created, "absent": deleted
    flags,      \* tasks with a cancel flag in Redis
    sent,       \* messages published for a task; message <<t, k>> is the k-th
    ready,      \* messages the broker can deliver
    out,        \* messages delivered and not acknowledged
    proc,       \* "up", or "stopping" once e.ctx is cancelled
    claims,     \* e.currentTasks
    consumer,   \* the consume loop of a process
    chan,       \* e.taskChan
    worker,
    client,
    requests, faults,
    excused     \* ghost: tasks whose message was acknowledged although the row
                \* was active, or whose failed request could not be undone

rows == <<row, flags>>
broker == <<sent, ready, out>>
budget == <<requests, faults>>
vars == <<rows, broker, proc, claims, consumer, chan, worker, client, budget, excused>>

Active == {"created", "running", "stopping"}
Terminal == {"completed", "stopped", "failed"}
Status == Active \cup Terminal \cup {"new", "absent"}
Msg == Task \X Nat

IdleWorker == [pc |-> "idle", msg |-> None, cancelled |-> FALSE, bg |-> FALSE, ok |-> FALSE]
IdleConsumer == [pc |-> "idle", msg |-> None]
IdleClient == [pc |-> "idle", task |-> None, was |-> "new"]

WorkerPC == {"check", "clear", "run", "complete", "fail", "panic", "stop", "mark",
             "settle", "ack", "release"}

ConsumerState == [pc : {"idle", "start", "claim", "send", "ack", "nack"}, msg : Msg \cup {None}]

WorkerState == [pc : WorkerPC \cup {"idle"}, msg : Msg \cup {None}, cancelled : BOOLEAN,
                bg : BOOLEAN, ok : BOOLEAN]

ClientState == [pc : {"idle", "publish", "rollback", "delete", "stop", "flag"},
                task : Task \cup {None}, was : Status]

ConsumerOK ==
    /\ consumer \in [Proc -> ConsumerState]
    /\ \A p \in Proc : consumer[p].pc # "idle" => consumer[p].msg \in Msg

WorkerOK ==
    /\ worker \in [Worker -> WorkerState]
    /\ \A w \in Worker : worker[w].pc # "idle" => worker[w].msg \in Msg

ClientOK ==
    /\ client \in [Client -> ClientState]
    /\ \A c \in Client : client[c].pc # "idle" => client[c].task \in Task

TypeOK ==
    /\ row \in [Task -> Status]
    /\ flags \subseteq Task
    /\ sent \in [Task -> Nat]
    /\ ready \subseteq Msg /\ out \subseteq Msg
    /\ proc \in [Proc -> {"up", "stopping"}]
    /\ claims \in [Proc -> SUBSET Task]
    /\ chan \in [Proc -> Seq(Msg)]
    /\ ConsumerOK /\ WorkerOK /\ ClientOK
    /\ requests \in 0..MaxRequest /\ faults \in 0..MaxFault
    /\ excused \subseteq Task

Init ==
    /\ row = [t \in Task |-> "new"]
    /\ flags = {}
    /\ sent = [t \in Task |-> 0]
    /\ ready = {} /\ out = {}
    /\ proc = [p \in Proc |-> "up"]
    /\ claims = [p \in Proc |-> {}]
    /\ consumer = [p \in Proc |-> IdleConsumer]
    /\ chan = [p \in Proc |-> <<>>]
    /\ worker = [w \in Worker |-> IdleWorker]
    /\ client = [c \in Client |-> IdleClient]
    /\ requests = 0 /\ faults = 0
    /\ excused = {}

\* validateTransition
ValidTransition(from, to) ==
    \/ from = "created" /\ to \in {"running", "stopped"}
    \/ from = "running" /\ to \in {"stopping", "completed", "failed"}
    \/ from = "stopping" /\ to = "stopped"
    \/ from \in {"failed", "stopped"} /\ to = "created"

\* A step that spends one unit of the fault budget.
Fault == faults < MaxFault /\ faults' = faults + 1

-----------------------------------------------------------------------------
(* API requests.                                                           *)

Request == requests < MaxRequest /\ requests' = requests + 1

ClientAt(c, pc, t, was) ==
    client' = [client EXCEPT ![c] = [pc |-> pc, task |-> t, was |-> was]]

ClientDone(c) == client' = [client EXCEPT ![c] = IdleClient]

ingestors == <<proc, claims, consumer, chan, worker>>

\* CreateAndEnqueue for a document without a task.
Create(c, t) ==
    /\ client[c].pc = "idle" /\ Request
    /\ row[t] = "new"
    /\ \A u \in Task : DocOf[u] = DocOf[t] => row[u] \in {"new", "absent"}
    /\ row' = [row EXCEPT ![t] = "created"]
    /\ ClientAt(c, "publish", t, "new")
    /\ UNCHANGED <<flags, broker, ingestors, faults, excused>>

\* CreateAndEnqueue for a document whose task failed or was stopped; the flag
\* is cleared before the message is published.
Retry(c, t) ==
    /\ client[c].pc = "idle" /\ Request
    /\ row[t] \in {"failed", "stopped"}
    /\ ValidTransition(row[t], "created")
    /\ row' = [row EXCEPT ![t] = "created"]
    /\ flags' = flags \ {t}
    /\ ClientAt(c, "publish", t, row[t])
    /\ UNCHANGED <<broker, ingestors, faults, excused>>

PublishTo(t) ==
    /\ sent' = [sent EXCEPT ![t] = @ + 1]
    /\ ready' = ready \cup {<<t, sent[t] + 1>>}
    /\ excused' = excused \ {t}
    /\ UNCHANGED out

\* enqueueTask
Publish(c) ==
    /\ client[c].pc = "publish"
    /\ PublishTo(client[c].task)
    /\ ClientDone(c)
    /\ UNCHANGED <<rows, ingestors, budget>>

\* enqueueTask returns an error; the broker may have stored the message.
PublishFails(c) ==
    /\ client[c].pc = "publish" /\ Fault
    /\ \/ PublishTo(client[c].task)
       \/ UNCHANGED <<broker, excused>>
    /\ ClientAt(c, "rollback", client[c].task, client[c].was)
    /\ UNCHANGED <<rows, ingestors, requests>>

\* rollbackRetriedTask; rollbackCreatedTask up to the read of Delete.
Rollback(c) ==
    LET t == client[c].task
        was == client[c].was IN
    /\ client[c].pc = "rollback"
    /\ \/ /\ was # "new" /\ row[t] = "created"
          /\ row' = [row EXCEPT ![t] = was]
          /\ ClientDone(c) /\ UNCHANGED <<faults, excused>>
       \/ /\ was = "new" /\ row[t] \in Terminal \cup {"created"}
          /\ ClientAt(c, "delete", t, "new") /\ UNCHANGED <<row, faults, excused>>
       \/ /\ \/ Fault
             \/ was # "new" /\ row[t] # "created" /\ UNCHANGED faults
             \/ was = "new" /\ row[t] \notin Terminal \cup {"created"} /\ UNCHANGED faults
          /\ excused' = excused \cup {t}
          /\ ClientDone(c) /\ UNCHANGED row
    /\ UNCHANGED <<flags, broker, ingestors, requests>>

\* Remove: Delete reads the status without a lock ...
Remove(c, t) ==
    /\ client[c].pc = "idle" /\ Request
    /\ row[t] \in Terminal \cup {"created"}
    /\ ClientAt(c, "delete", t, row[t])
    /\ UNCHANGED <<rows, broker, ingestors, faults, excused>>

\* ... and deletes the row whatever its status is by then.
Delete(c) ==
    /\ client[c].pc = "delete"
    /\ row' = [row EXCEPT ![client[c].task] = "absent"]
    /\ ClientDone(c)
    /\ UNCHANGED <<flags, broker, ingestors, budget, excused>>

\* clearDocumentParseResults on the task of a document: DeleteIfTerminal.
DeleteIfTerminal(c, t) ==
    /\ client[c].pc = "idle" /\ Request
    /\ row[t] \in Terminal \cup {"created"}
    /\ row' = [row EXCEPT ![t] = "absent"]
    /\ UNCHANGED <<flags, broker, ingestors, client, faults, excused>>

\* RequestStop: GetTask, and the transition it chooses.
RequestStop(c, t) ==
    /\ client[c].pc = "idle" /\ Request
    /\ row[t] \in {"created", "running"}
    /\ ClientAt(c, "stop", t, row[t])
    /\ UNCHANGED <<rows, broker, ingestors, faults, excused>>

StopTransition(c) ==
    LET t == client[c].task
        to == IF client[c].was = "created" THEN "stopped" ELSE "stopping" IN
    /\ client[c].pc = "stop"
    /\ \/ /\ ValidTransition(row[t], to)
          /\ row' = [row EXCEPT ![t] = to]
          /\ IF to = "stopping" THEN ClientAt(c, "flag", t, "stopping") ELSE ClientDone(c)
       \/ ~ ValidTransition(row[t], to) /\ ClientDone(c) /\ UNCHANGED row
    /\ UNCHANGED <<flags, broker, ingestors, budget, excused>>

SetFlag(c) ==
    /\ client[c].pc = "flag"
    /\ flags' = flags \cup {client[c].task}
    /\ ClientDone(c)
    /\ UNCHANGED <<row, broker, ingestors, budget, excused>>

ClientStep(c) ==
    \/ Publish(c) \/ Rollback(c) \/ Delete(c) \/ StopTransition(c) \/ SetFlag(c)

-----------------------------------------------------------------------------
(* The broker (external): explicit acknowledgement, redelivery after       *)
(* AckWait.                                                                *)

\* Ack of any delivery removes the message; Nak makes it ready at once.
BrokerAck(m) == ready' = ready \ {m} /\ out' = out \ {m}

BrokerNack(m) ==
    /\ out' = out \ {m}
    /\ ready' = IF m \in out THEN ready \cup {m} ELSE ready

\* The context a worker runs its task with is over.
CtxDone(w) == worker[w].cancelled \/ proc[ProcOf[w]] = "stopping"

\* startHeartbeat: until the body returns or the context of the task ends.
Heartbeat(m) ==
    \E w \in Worker :
        /\ worker[w].msg = m
        /\ worker[w].pc \in {"clear", "run", "complete", "fail", "stop", "mark"}
        /\ ~ CtxDone(w)

\* AckWait passes without an acknowledgement or a heartbeat.
AckExpire(m) ==
    /\ m \in out /\ ~ Heartbeat(m)
    /\ out' = out \ {m} /\ ready' = ready \cup {m}
    /\ UNCHANGED <<rows, sent, ingestors, client, budget, excused>>

-----------------------------------------------------------------------------
(* The consume loop: processMessage.                                       *)

requesters == <<client, requests>>

ConsumerAt(p, pc) == consumer' = [consumer EXCEPT ![p].pc = pc]

ConsumerDone(p) == consumer' = [consumer EXCEPT ![p] = IdleConsumer]

\* GetMessages; the rest of a batch waits here as if it were still to be fetched.
Fetch(p, m) ==
    /\ consumer[p].pc = "idle" /\ proc[p] = "up"
    /\ m \in ready
    /\ ready' = ready \ {m} /\ out' = out \cup {m}
    /\ consumer' = [consumer EXCEPT ![p] = [pc |-> "start", msg |-> m]]
    /\ UNCHANGED <<rows, sent, proc, claims, chan, worker, client, budget, excused>>

\* Mutant: a STOPPING task is an unsupported status.
FinalizeStopRefused(p, t) == ConsumerAt(p, "nack") /\ UNCHANGED rows

\* StartRunning finds STOPPING: the stop is finalized without a worker.
FinalizeStop(p, t) ==
    /\ row' = [row EXCEPT ![t] = "stopped"]
    /\ flags' = flags \ {t}
    /\ ConsumerAt(p, "ack")

\* StartRunning, and the switch on the status it returns.
StartRunning(p) ==
    LET t == consumer[p].msg[1] IN
    /\ consumer[p].pc = "start" /\ proc[p] = "up"
    /\ \/ /\ row[t] \in {"created", "running"}
          /\ row' = [row EXCEPT ![t] = "running"]
          /\ ConsumerAt(p, "claim") /\ UNCHANGED flags
       \/ row[t] = "stopping" /\ FinalizeStop(p, t)
       \/ /\ row[t] \notin Active
          /\ ConsumerAt(p, "ack") /\ UNCHANGED rows
    /\ UNCHANGED <<broker, proc, claims, chan, worker, client, budget, excused>>

\* The context is over, or the database fails: StartRunning returns an error.
StartShutdown(p) ==
    /\ consumer[p].pc = "start" /\ proc[p] = "stopping"
    /\ ConsumerAt(p, "nack")
    /\ UNCHANGED <<rows, broker, proc, claims, chan, worker, client, budget, excused>>

StartFails(p) ==
    /\ consumer[p].pc = "start" /\ Fault
    /\ ConsumerAt(p, "nack")
    /\ UNCHANGED <<rows, broker, proc, claims, chan, worker, requesters, excused>>

\* claimTask; a task this process already holds is acknowledged and skipped.
ClaimTask(p) ==
    LET t == consumer[p].msg[1] IN
    /\ consumer[p].pc = "claim"
    /\ \/ /\ t \in claims[p]
          /\ ConsumerAt(p, "ack")
          /\ excused' = excused \cup {t}
          /\ UNCHANGED claims
       \/ /\ t \notin claims[p]
          /\ ConsumerAt(p, "send")
          /\ claims' = [claims EXCEPT ![p] = @ \cup {t}]
          /\ UNCHANGED excused
    /\ UNCHANGED <<rows, broker, proc, chan, worker, client, budget>>

\* Mutant: the deferred release also runs after the send.
SendReleasing(p) ==
    /\ consumer[p].pc = "send"
    /\ Len(chan[p]) < ChanCap
    /\ chan' = [chan EXCEPT ![p] = Append(@, consumer[p].msg)]
    /\ claims' = [claims EXCEPT ![p] = @ \ {consumer[p].msg[1]}]
    /\ ConsumerDone(p)
    /\ UNCHANGED <<rows, broker, proc, worker, client, budget, excused>>

\* The blocking send to taskChan; the worker now owns the claim.
Send(p) ==
    /\ consumer[p].pc = "send"
    /\ Len(chan[p]) < ChanCap
    /\ chan' = [chan EXCEPT ![p] = Append(@, consumer[p].msg)]
    /\ ConsumerDone(p)
    /\ UNCHANGED <<rows, broker, proc, claims, worker, client, budget, excused>>

\* Shutdown wins the select: the claim is released, nothing is settled.
SendShutdown(p) ==
    /\ consumer[p].pc = "send" /\ proc[p] = "stopping"
    /\ claims' = [claims EXCEPT ![p] = @ \ {consumer[p].msg[1]}]
    /\ ConsumerDone(p)
    /\ UNCHANGED <<rows, broker, proc, chan, worker, client, budget, excused>>

\* Ack or Nack of processMessage.
ConsumerSettle(p) ==
    LET m == consumer[p].msg IN
    /\ \/ consumer[p].pc = "ack" /\ BrokerAck(m)
       \/ consumer[p].pc = "nack" /\ BrokerNack(m)
    /\ ConsumerDone(p)
    /\ UNCHANGED <<rows, sent, proc, claims, chan, worker, client, budget, excused>>

\* The acknowledgement fails and is only logged.
ConsumerSettleFails(p) ==
    /\ consumer[p].pc \in {"ack", "nack"} /\ Fault
    /\ ConsumerDone(p)
    /\ UNCHANGED <<rows, broker, proc, claims, chan, worker, requesters, excused>>

ConsumerStep(p) ==
    \/ StartRunning(p) \/ StartShutdown(p)
    \/ ClaimTask(p) \/ Send(p) \/ SendShutdown(p) \/ ConsumerSettle(p)

-----------------------------------------------------------------------------
(* The workers: executeTask, settleMessage and runTask.                    *)

T(w) == worker[w].msg[1]

WorkerAt(w, pc) == worker' = [worker EXCEPT ![w].pc = pc]

\* The body returns, and the message is to be settled.
Return(w, ok) == worker' = [worker EXCEPT ![w].pc = "settle", ![w].ok = ok]

others == <<proc, chan, consumer, client, requests, excused>>

\* workerLoop takes a task; a select may do so although e.ctx is over.
Take(w) ==
    LET p == ProcOf[w] IN
    /\ worker[w].pc = "idle" /\ chan[p] # <<>>
    /\ worker' = [worker EXCEPT ![w] = [IdleWorker EXCEPT !.pc = "check", !.msg = Head(chan[p])]]
    /\ chan' = [chan EXCEPT ![p] = Tail(@)]
    /\ UNCHANGED <<rows, broker, proc, claims, consumer, client, budget, excused>>

\* defaultCancelCheck
CancelCheck(w) ==
    proc[ProcOf[w]] = "up" /\ (T(w) \in flags \/ row[T(w)] = "stopping")

\* pollCancel cancels the context of the task.
PollCancel(w) ==
    /\ worker[w].pc \in {"check", "clear", "run", "complete", "fail", "stop", "mark"}
    /\ ~ worker[w].cancelled /\ CancelCheck(w)
    /\ worker' = [worker EXCEPT ![w].cancelled = TRUE]
    /\ UNCHANGED <<rows, broker, claims, others, faults>>

\* The check before the pipeline and the first select of runTask; markStopped
\* then has a context of its own.
Check(w) ==
    /\ worker[w].pc = "check"
    /\ IF CtxDone(w) \/ CancelCheck(w)
       THEN worker' = [worker EXCEPT ![w].pc = "stop", ![w].cancelled = TRUE, ![w].bg = TRUE]
       ELSE WorkerAt(w, "clear")
    /\ UNCHANGED <<rows, broker, claims, others, faults>>

\* ClearComponentProgress, and the stale cancel flag.
Clear(w) ==
    /\ worker[w].pc = "clear"
    /\ IF CtxDone(w)
       THEN Return(w, FALSE) /\ UNCHANGED flags
       ELSE WorkerAt(w, "run") /\ flags' = flags \ {T(w)}
    /\ UNCHANGED <<row, broker, claims, others, faults>>

ClearFails(w) ==
    /\ worker[w].pc = "clear" /\ Fault
    /\ WorkerAt(w, "fail")
    /\ UNCHANGED <<rows, broker, claims, others>>

\* runDocumentTask returns nil or an error, or panics; once the context is over
\* every call that follows with it fails, markStopped too, but for the recover
\* of a panic.  A context.Canceled under a live context, of a call with a
\* context of its own, counts as a fault.
RunDocumentTask(w) ==
    /\ worker[w].pc = "run"
    /\ \/ CtxDone(w) /\ Return(w, FALSE) /\ UNCHANGED faults
       \/ ~ CtxDone(w) /\ WorkerAt(w, "complete") /\ UNCHANGED faults
       \/ ~ CtxDone(w) /\ WorkerAt(w, "fail") /\ UNCHANGED faults
       \/ ~ CtxDone(w) /\ WorkerAt(w, "stop") /\ Fault
       \/ WorkerAt(w, "panic") /\ UNCHANGED faults
    /\ UNCHANGED <<rows, broker, claims, others>>

\* A transition of the task of w, or nothing when it is terminal already.
Finish(w, to) ==
    \/ /\ row[T(w)] \in Terminal
       /\ Return(w, TRUE) /\ UNCHANGED row
    \/ /\ row[T(w)] \notin Terminal /\ ValidTransition(row[T(w)], to)
       /\ row' = [row EXCEPT ![T(w)] = to]
       /\ Return(w, TRUE)

\* completeTask.  A retry of completeOrSettle is this step taken later.
CompleteTask(w) ==
    /\ worker[w].pc = "complete"
    /\ \/ ~ CtxDone(w) /\ Finish(w, "completed")
       \/ /\ ~ CtxDone(w) /\ row[T(w)] = "stopping"
          /\ WorkerAt(w, "stop") /\ UNCHANGED row
       \/ /\ CtxDone(w) \/ row[T(w)] \notin Terminal \cup {"running", "stopping"}
          /\ Return(w, FALSE) /\ UNCHANGED row
    /\ UNCHANGED <<flags, broker, claims, others, faults>>

\* markFailed
MarkFailed(w) ==
    /\ worker[w].pc = "fail"
    /\ \/ ~ CtxDone(w) /\ Finish(w, "failed")
       \/ /\ CtxDone(w) \/ row[T(w)] \notin Terminal \cup {"running"}
          /\ Return(w, FALSE) /\ UNCHANGED row
    /\ UNCHANGED <<flags, broker, claims, others, faults>>

\* The recover of settleMessage: markFailed with e.ctx, and a Nack unless the
\* database says otherwise.
Recover(w) ==
    LET failing == proc[ProcOf[w]] = "up" /\ row[T(w)] = "running" IN
    /\ worker[w].pc = "panic"
    /\ row' = [row EXCEPT ![T(w)] = IF failing THEN "failed" ELSE @]
    /\ Return(w, FALSE)
    /\ UNCHANGED <<flags, broker, claims, others, faults>>

StopCtxDone(w) == ~ worker[w].bg /\ CtxDone(w)

\* markStopped: RequestStop ...
MarkStopping(w) ==
    LET t == T(w) IN
    /\ worker[w].pc = "stop"
    /\ IF StopCtxDone(w) \/ row[t] \in {"new", "absent"}
       THEN Return(w, FALSE) /\ UNCHANGED rows
       ELSE /\ WorkerAt(w, "mark")
            /\ row' = [row EXCEPT ![t] = CASE @ = "created" -> "stopped"
                                           [] @ = "running" -> "stopping"
                                           [] OTHER -> @]
            /\ flags' = IF row[t] = "running" THEN flags \cup {t} ELSE flags
    /\ UNCHANGED <<broker, claims, others, faults>>

\* ... then MarkStopped, and the flag is deleted.
MarkStopped(w) ==
    /\ worker[w].pc = "mark"
    /\ \/ ~ StopCtxDone(w) /\ Finish(w, "stopped") /\ flags' = flags \ {T(w)}
       \/ /\ StopCtxDone(w) \/ row[T(w)] \notin Terminal \cup {"created", "stopping"}
          /\ Return(w, FALSE) /\ UNCHANGED rows
    /\ UNCHANGED <<broker, claims, others, faults>>

\* A database error in one of the calls above.
BodyFails(w) ==
    /\ worker[w].pc \in {"complete", "fail", "panic", "stop", "mark"} /\ Fault
    /\ Return(w, FALSE)
    /\ UNCHANGED <<rows, broker, claims, others>>

\* Mutant: a stop that is under way counts as done.
IsTerminalOrStopping(s) == s \in Terminal \cup {"stopping"}

IsTerminal(s) == s \in Terminal

\* safeGetTerminal: the database decides, the body's answer only without it.
Settle(w) ==
    LET known == proc[ProcOf[w]] = "up" /\ row[T(w)] \notin {"new", "absent"} IN
    /\ worker[w].pc = "settle"
    /\ worker' = [worker EXCEPT ![w].pc = "ack",
                                ![w].ok = IF known THEN IsTerminal(row[T(w)]) ELSE @]
    /\ UNCHANGED <<rows, broker, claims, others, faults>>

SettleFails(w) ==
    /\ worker[w].pc = "settle" /\ Fault
    /\ WorkerAt(w, "ack")
    /\ UNCHANGED <<rows, broker, claims, others>>

AckOrNack(w) ==
    /\ worker[w].pc = "ack"
    /\ IF worker[w].ok THEN BrokerAck(worker[w].msg) ELSE BrokerNack(worker[w].msg)
    /\ WorkerAt(w, "release")
    /\ UNCHANGED <<rows, sent, claims, others, faults>>

AckFails(w) ==
    /\ worker[w].pc = "ack" /\ Fault
    /\ WorkerAt(w, "release")
    /\ UNCHANGED <<rows, broker, claims, others>>

\* The deferred releaseTask of executeTask.
ReleaseTask(w) ==
    /\ worker[w].pc = "release"
    /\ claims' = [claims EXCEPT ![ProcOf[w]] = @ \ {T(w)}]
    /\ worker' = [worker EXCEPT ![w] = IdleWorker]
    /\ UNCHANGED <<rows, broker, others, faults>>

WorkerStep(w) ==
    \/ Take(w) \/ Check(w) \/ Clear(w) \/ RunDocumentTask(w) \/ CompleteTask(w)
    \/ MarkFailed(w) \/ Recover(w) \/ MarkStopping(w) \/ MarkStopped(w) \/ Settle(w)
    \/ AckOrNack(w) \/ ReleaseTask(w)

-----------------------------------------------------------------------------
(* Processes.                                                              *)

\* Stop cancels e.ctx.
Shutdown(p) ==
    /\ proc[p] = "up" /\ Fault
    /\ proc' = [proc EXCEPT ![p] = "stopping"]
    /\ UNCHANGED <<rows, broker, claims, consumer, chan, worker, requesters, excused>>

\* A process is started again: its memory is gone.
FreshProcess(p) ==
    /\ proc' = [proc EXCEPT ![p] = "up"]
    /\ claims' = [claims EXCEPT ![p] = {}]
    /\ consumer' = [consumer EXCEPT ![p] = IdleConsumer]
    /\ chan' = [chan EXCEPT ![p] = <<>>]
    /\ worker' = [w \in Worker |-> IF ProcOf[w] = p THEN IdleWorker ELSE worker[w]]

\* Stop returns, its wait is bounded, and the process ends.
Restart(p) ==
    /\ proc[p] = "stopping"
    /\ FreshProcess(p)
    /\ UNCHANGED <<rows, broker, client, budget, excused>>

Crash(p) ==
    /\ Fault
    /\ FreshProcess(p)
    /\ UNCHANGED <<rows, broker, requesters, excused>>

Next ==
    \/ \E c \in Client :
          \/ ClientStep(c) \/ PublishFails(c)
          \/ \E t \in Task : \/ Create(c, t) \/ Retry(c, t) \/ Remove(c, t)
                             \/ DeleteIfTerminal(c, t) \/ RequestStop(c, t)
    \/ \E m \in out : AckExpire(m)
    \/ \E p \in Proc :
          \/ ConsumerStep(p) \/ StartFails(p) \/ ConsumerSettleFails(p)
          \/ Shutdown(p) \/ Restart(p) \/ Crash(p)
          \/ \E m \in ready : Fetch(p, m)
    \/ \E w \in Worker :
          \/ WorkerStep(w) \/ PollCancel(w) \/ ClearFails(w) \/ BodyFails(w)
          \/ SettleFails(w) \/ AckFails(w)

Spec == Init /\ [][Next]_vars

\* Requests and goroutines that can go on do, the pipeline returns, the broker's
\* timer fires, delivers what is ready and a stopping process is started again.
FairSpec ==
    /\ Spec
    /\ \A c \in Client : WF_vars(ClientStep(c))
    /\ \A p \in Proc :
          /\ WF_vars(ConsumerStep(p))
          /\ WF_vars(\E m \in ready : Fetch(p, m))
          /\ WF_vars(Restart(p))
    /\ \A w \in Worker : WF_vars(WorkerStep(w))
    /\ WF_vars(\E m \in out : AckExpire(m))

-----------------------------------------------------------------------------
(* Properties.                                                             *)

Busy(p) == {w \in Worker : ProcOf[w] = p /\ worker[w].pc # "idle"}

Queued(p) == {chan[p][i][1] : i \in DOMAIN chan[p]}

Sending(p) == consumer[p].pc = "send"

HoldsEach(p) ==
    /\ \A i, j \in DOMAIN chan[p] : chan[p][i][1] = chan[p][j][1] => i = j
    /\ \A v, w \in Busy(p) : T(v) = T(w) => v = w
    /\ \A w \in Busy(p) : T(w) \notin Queued(p)
    /\ Sending(p) => consumer[p].msg[1] \notin Queued(p)
    /\ Sending(p) => \A w \in Busy(p) : T(w) # consumer[p].msg[1]

HoldsAll(p) ==
    claims[p] = Queued(p) \cup {T(w) : w \in Busy(p)}
                          \cup {t \in Task : Sending(p) /\ consumer[p].msg[1] = t}

\* In one process the task the consume loop is sending, the queued ones and the
\* ones in the hands of workers are all different, and together they are exactly
\* the claims: no redelivery puts a task into the pool twice, and no exit of
\* processMessage or executeTask leaves a claim behind or drops one too early.
ClaimExact == \A p \in Proc : HoldsEach(p) /\ HoldsAll(p)

\* A request on t is between its transition to CREATED and the end of its
\* enqueue or rollback.
Enqueueing(t) ==
    \E c \in Client : /\ client[c].task = t
                      /\ \/ client[c].pc \in {"publish", "rollback"}
                         \/ client[c].pc = "delete" /\ client[c].was = "new"

Latest(t) == <<t, sent[t]>>

\* A task that is not finished has its last message still at the broker: no crash,
\* shutdown, failed call or redelivery between the acknowledgement and the status
\* loses it, unless the message was skipped over the claim of an earlier one or
\* the request could not undo its own failure.
CarriedUnlessExcused ==
    \A t \in Task :
        row[t] \in Active /\ t \notin excused /\ ~ Enqueueing(t) =>
            Latest(t) \in ready \cup out

\* A task that was created, run or asked to stop reaches COMPLETED, STOPPED or
\* FAILED or is deleted, through redeliveries, shutdowns and failed calls.
Settles == \A t \in Task : row[t] \in Active ~> row[t] \notin Active \/ t \in excused

\* The same without the exceptions: no document is left in RUNNING, which is what
\* the comments of processMessage and Stop promise of at-least-once delivery.
NeverStuck == \A t \in Task : row[t] \in Active ~> row[t] \notin Active
=============================================================================
