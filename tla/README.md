# A TLA+ model of the background services

RAGFlow's Go backend (`src/internal/`) is a retrieval-augmented-generation
server.  Most of it transforms documents or talks to external services.  Its
distributed core logic is in three background services that share state
through a database, a message broker and locks:

* the **data-source syncer** (`internal/syncer`, with `internal/dao/sync_task.go`,
  `internal/dao/connector.go`, the task and connector services and
  `internal/engine/nats/syncer.go`): pulls documents from external sources into
  knowledge bases, incrementally, resumably, in several processes;
* the **ingestion service** (`internal/ingestion/service`,
  `internal/dao/ingestion.go`): runs document pipelines from broker messages;
* the **knowledge compiler** (`internal/ingestion/knowledge_compile`): a debounced
  backlog with leases.

This project models the syncer in six modules, the ingestion tasks in one and the
knowledge compiler in two, with eight modules of proofs.

## Inventory

What each part keeps, what it does, what is hard about it and what makes it
correct.  `PROJECT.json` lists the parts with their files, and the hazards with
the line where each one bites.

| part | state | operations | hard behaviour | correct when |
|---|---|---|---|---|
| connector lock, `syncer/connector_lock.go` | per process a map of held keys and of Redis lock objects; a Redis string whose value is the process's holder id | `TryLock`, `Unlock` | several workers share one holder id; process death; lost answers of Redis; TTL | at most one holder; the local map does not leak |
| task table, `dao/sync_task.go`, `dao/connector.go` | `sync_logs` rows (status, type, poll window, retries), connector status, links | claim, complete, fail, retry, reschedule, recover; cancel, schedule, link, rebuild, resume, delete | transactions of many processes and of the API in any order, and late ones | a success never ends the chain of tasks; cancels final; the waterline skips nothing |
| task worker, `syncer/task_worker.go` | the envelope and task context of the handler | `handle` | each call may fail, the context may end between any two, messages come twice | runs of a knowledge base exclude each other; nothing stays RUNNING; nothing is forgotten |
| scheduler, `syncer/scheduler.go` | one timer per task, the in-process queue | startup recovery and scan, `ScheduleTaskAfter`, timer callbacks, `stopTimers` | callbacks race with new timers; recovery races with deliveries | an owed wakeup comes |
| broker, `engine/nats/syncer.go` | stream with a duplicate window, durable consumer | publish, wake up, ack, nack, redeliver | a dropped duplicate, at-least-once delivery, `MaxDeliver` | (environment) |
| checkpoint store, the same file and `syncer/checkpoint_store.go` | one checkpoint per task in a KV bucket | load, save, delete | a save that reports an error after the write | see the runner |
| sync runner, `syncer/sync_runner.go` | statistics, checkpoint state, results in order | `Run`, `collectResults`, batch jobs with retries | partial failure of later or earlier batches, abandoned jobs, restarts | checkpoint and DONE never claim an unwritten document |
| prune runner, `syncer/prune_runner.go` | the set of documents to retain | `Run` | a snapshot that is read while the source changes | deletes only what the full snapshot lacks |
| job executor, `syncer/job_executor.go` | task queues, round-robin order and cursor, shared channel | `RegisterTask`, `submit`, `Close` of a queue, dispatcher, workers, `Close` | cursor under deletions, abandoned registrations, full channels at shutdown | no starvation, bounded bypass, `Close` returns |
| task coordinator, syncer process | run context and deadline; lifecycle | `Execute`; start, stop | a stop in the middle of anything | (the frame of the above) |
| connector service, `service/connector.go` | none of its own | create, update, cancel, rebuild, resume, delete | a request is several updates, workers act in between | cancels final, rows are published |
| ingestion task table and service, `service/ingestion_task_service.go`, `dao/ingestion.go` | `ingestion_task` rows (status), a cancel flag in Redis per task | `CreateAndEnqueue`, `RequestStop`, `Remove`, `DeleteIfTerminal`, the transitions of the worker, rollbacks | requests are several steps; compare-and-set transitions lose races; a publication fails after it was stored | a task that is not finished has a message that will finish it |
| ingestor, `ingestion/service/ingestion_service.go` | per process `currentTasks`, a bounded channel, a consume loop and workers; the broker's messages | `processMessage`, `executeTask`, `runTask`, `settleMessage`, `ackOrNack`, `pollCancel`, `Start`, `Stop` | redelivery while the task is queued or runs; shutdown, crash, cancel in the middle; acknowledgement that fails | a task is once in a process; claims do not leak; every task settles |
| knowledge-compile scheduler, `ingestion/knowledge_compile/scheduler.go` | a row per dataset: backlog, inflight entries, claim token, lease, state | `PublishCompleted`, `PublishDeleted`, `Claim`, `TryClaim`, `reclaimOne`, `TouchClaim`, `Ack` | leases that run out under a living worker, leftovers of dead claims, append order | no event leaves before it was merged |
| knowledge-compile consumer and writer, `consumer.go`, `writer.go` | the products of a dataset, per kind | `processBatch` and its locked sections | a batch is half merged when its worker dies or is superseded; documents change meanwhile | products hold the last version of each document and nothing of a deleted one |

Interactions: the API server inserts rows and publishes their ids; NATS pushes
an id to some process; a worker claims the row in a transaction, takes the
lock, and `TaskCoordinator.Execute` runs the sync or prune runner; the sync
runner registers with the executor and submits a job per batch; the completion
inserts the next row, which the worker publishes or gives to a timer.  A started
process resets all RUNNING rows and publishes what is scheduled.

An API request sets an ingestion task to CREATED and publishes a message; the
consume loop of an ingestor sets it to RUNNING, claims it in its process and sends
it to the channel; a worker runs the pipeline and acknowledges the message when the
row has a final status, and otherwise asks for redelivery.  A stop request sets
STOPPING and a flag, which the worker polls.  A pipeline with compiled products,
and a delete of a document, append an event to the backlog of the dataset; an
ingestor's consumer claims a batch under a lease, merges it in sections under the
row lock and acknowledges it.

Left aside: data-source connectors, document pipelines and parsers, tokenizer,
model drivers, storage and search clients, HTTP handlers, CLI, the admin server,
the agent canvas and harness, the Python services and the web front end (see
"Not modelled").

## Modules

Each module has its `MC...` module, which only gives model values and constant
definitions.

**ConnectorLock** -- one lock key.  A step is a critical section of the mutex or
a Redis command: `TryLocal` (lines 57-66 of `connector_lock.go`),
`AcquireDelete` and `AcquireSetNX` (`DistributedLock.Acquire` first deletes the
key if it carries its own value, then `SETNX`), `TryLockFail`, `TryLockStore`,
and for `Unlock` `UnlockLocal` and `UnlockRelease`.  A Redis command may be lost
or executed with its answer lost.  `Crash` leaves the key behind as `Dead`: a
restarted process draws a new holder id.  `Expire` is the TTL.

**SyncTasks** -- the table of one connector, one action per transaction, with
arbitrary callers: the contract of the DAO.  A row has knowledge base, type,
status, `from_beginning`, the start and end of its poll window and its retry
count.  `covered[k]` is a ghost: up to where completed SYNC tasks have read the
source since the last rebuild.  `ClaimTask` tolerates a missing `connector2kb` row, and
then locks nothing that another claim asks for: such a claim is two steps,
`CountUnlinked` and `ClaimCounted`, with the open claim in `counted`, so that two
rows can be RUNNING.  `RecoverRunning(S)` is the transaction over rows that were scanned
earlier.

**TaskWorkers** -- EXTENDS SyncTasks and composes the table with workers,
processes, timers, broker, lock, checkpoint windows and API requests.  A step of
a worker is a transaction of `TaskWorker.handle` with the messaging that follows
it; `pc` names the point between two of them: `claimed` (row RUNNING, context not
read), `context`, `lock`, `run`, `next` (completed, next task not yet scheduled),
`unlock`, `release`, `recheck` for a refused claim, `counted` for an open claim of
an unlinked knowledge base, and `unsure` for a completion whose commit got no answer.  A message is
deliverable (`ready`) or held by the handler that will ack or nack it.
`proc` is the lifecycle: `recover`, `reset` and `publish` are the scan for running
rows, their reset and the publication of `publishStartupTasks`, during which the process
already consumes messages; each may fail, which is only logged.  A database fault
(`MaxDbFault`) also stands for an error of Redis or of the broker: it fails the
claim, the lookups, the ignored reschedule after a refused lock, the lock itself, the commit
of a completion (with the row DONE), the record of an outcome, or the startup.
The API requests are one at a time, each in its separate updates.

**SyncRunner** -- the runs of one SYNC task: batches `1..N` of `D` documents,
jobs with per-document attempts, `collectResults`, checkpoints and statistics
over several runs, with cancellation, deadline, crash, failed saves, failed
upserts (with or without effect) and jobs that outlive their run.  Statistics are the
changed documents (added or updated), which `CompleteSync` commits, and the skipped ones,
which it does not: a document an earlier attempt has written may be skipped by its
fingerprint.  `Lapse` is a recovery of another process that resets the row of the run.

**SyncTimers** -- the timers of one task in one process: the map entry, the
timers created so far, and each callback between its steps.

**SyncJobExecutor** -- registrations, queues, the dispatcher's round and cursor,
the shared channel, the workers and `Close`.  A queue is its length.

**IngestionTasks** -- rows, cancel flags, messages, clients, processes and workers.
A client is an API request between its steps (`publish`, `rollback`, `delete`,
`stop`, `flag`); several run at once.  A message is the k-th one published for a
task; it is ready, or out (delivered, not acknowledged), or gone.  A consume loop
is at `start` (before `StartRunning`), `claim`, `send` (blocked on the channel) or at
its acknowledgement.  A worker goes `check` (cancelled before the pipeline?),
`clear`, `run`, then `complete`, `fail` or `panic`, for a cancel (or a `context.Canceled` under a
live context) `stop` and `mark` (the
two transitions of `markStopped`), and `settle`, `ack`, `release`.  `bg` says whether
`markStopped` runs with `context.Background()`; with the task's own context every call
fails once it is over.  `excused` is a ghost: tasks whose message was acknowledged over
another's claim, or whose failed request could not be undone.

**CompileBacklog** -- the row of one dataset, the documents with their compiled chunks, and
the workers with the sections of `processBatch`.  The two lists are sets of entries
with a position; a position is compared, never computed with.  A pipeline run inserts the
chunks of a version in two bulks next to what is there (`Write`, `WriteRest`) and publishes
its event after the last, or fails in between (`WriteFails`); a re-parse, a stop or a reset
removes a document's chunks without an event (`Clear`), and a delete may be without one
(`Delete`).  What a merge computes is left out: `merged[k][d]` are the chunks of `d` that
the dataset products of kind `k` name as their sources.  Sources accumulate (`MergeKind`)
until the document's deleted event strips them.  The ghost `wtoken` is the claim of the last
locked write, `applied` the events whose batch was merged, `last` the last completely written
version, and `lost` and `overtaken` name the documents for which the code makes no promise.

**EventLog** -- what the backlog promises: an event is published, applied, and only
then leaves the log.  `CompileBacklog` implements it with
`open <- Numbers(backlog \cup inflight)`.

`TaskWorkers` implements `SyncTasks`: every step of the program is a transaction
of the contract or leaves the table alone (property and theorem `DbSpec`), so
what holds of the contract under arbitrary callers holds of the program.
`TaskWorkers` uses the lock with `TryLock` as one step; `ConnectorLock` shows what
the steps inside it do.  It uses a timer as an entry of a set; `SyncTimers` shows
that an entry is published.  A run is one step there; `SyncRunner` opens it.

## Runs

`tlc -config <cfg> <module>`; sizes are distinct states.

| run | cfg | instance | checks |
|---|---|---|---|
| lock | `MCConnectorLock.cfg` | a process with two workers, two processes with one; 2,987 | `LocalExclusion`, `LocalOwned`, `SoloExclusion` |
| tasks | `MCSyncTasks.cfg` | one knowledge base, 3 rows, 2 times, 2 retries; 1,077,727 | `ChainContinues`, `NoGap`, `CancelIsFinal` |
| workers_restart | `MCTaskWorkers_restart.cfg` | two processes with one worker, SYNC and PRUNE, 3 rows, one stop or crash; 866,423 | `ExclusiveRun`, `OwnedRunning`, `DbSpec` |
| workers_faults | `MCTaskWorkers_faults.cfg` | one process with two workers, SYNC, 2 rows, a database fault or redelivery, a stop or crash, any API request; 1,023,118 | `ExclusiveRun`, `DoneIsFinal` |
| workers_solo | `MCTaskWorkers_solo.cfg` | one process with two workers, SYNC only, two source errors, fairness; 24,802 | `NoLostWakeup`, `ScheduledSettles` |
| runner | `MCSyncRunner.cfg` | 2 batches of 2 documents, 2 attempts, 2 runs, a fault, 2 job workers, queue of 1, fairness; 522,187 | `CkptPrefix`, `DoneComplete`, `StatsExact`, `CkptForward`, `RunEnds` |
| timers | `MCSyncTimers.cfg` | 5 timers, 2 failed publications, fairness; 3,134 | `OwedHasTimer`, `WakeupComes` |
| ingest | `MCIngestionTasks.cfg` | one task, one process with one worker, two clients, 3 requests, one fault (crash, shutdown or failed call), channel of 1, fairness; 997,684 | `ClaimExact`, `CarriedUnlessExcused`, `Settles` |
| ingest_stuck | `MCIngestionTasks_stuck.cfg` | one client, 2 requests, no fault, fairness | violation of `NeverStuck` |
| backlog | `MCCompileBacklog.cfg` | one document, two workers, batches of 2, 2 pipeline runs or clears and a delete, one fault, fairness; 1,047,723 | `Converged`, `WriteFence`, `ImplementsLog`, `Drains` |
| backlog_order | `MCCompileBacklog_order.cfg` | the same | violation of `LastEventWins` |
| executor | `MCSyncJobExecutor.cfg` | 3 tasks, 1 worker, queues of 1, fairness; 237,744 | `BoundedBypass`, `Served`, `CloseReturns` |

What the properties say:

* `LocalExclusion`, `LocalOwned`: workers of one process exclude each other, and
  the local map holds the key exactly while one of them is inside.
  `SoloExclusion`: workers alone in their process exclude each other across
  processes, also next to processes with several workers.
* `ChainContinues`: where a knowledge base has a task it has one of that type which is not
  DONE; only a completion creates the next task, so a success that leaves none would end
  the periodic sync silently.  `CancelIsFinal`: no
  late completion, failure or recovery revives a canceled row.  `NoGap`: no
  incremental row that can still run starts beyond what was read, although
  completions may come late, after a rebuild, a recovery or a resume, and two rows may run.
* `ExclusiveRun`: runs of one knowledge base that overlap belong to different processes, at
  least one of which has several workers; workers of one process exclude each other, and so do
  workers alone in theirs.  The table alone does not ensure it: after a cancel or a recovery the
  old run goes on while the next row is claimed.  More is not true of the lock with a pool
  of workers (below).  `OwnedRunning`: a RUNNING row has a handler or a recovery to
  come.  `DbSpec`: the program implements the table's contract.  `DoneIsFinal`: until a process
  stops, no late failure turns a DONE row into a failed one, except by the handler whose own commit
  got no answer.  `NoLostWakeup`: a scheduled row
  has a message, timer, handler, request or startup scan that will wake it.
  `ScheduledSettles`: it ends DONE or FAILED.
* `CkptPrefix`, `DoneComplete`: neither the checkpoint nor DONE covers a document
  that was not written.  `StatsExact`: the statistics count every document once,
  as changed or skipped, over all runs, and all of them as changed when the first run goes through without a fault.  `CkptForward`: a checkpoint does not move back.  `RunEnds`: a run
  does not block for ever.
* `OwedHasTimer`, `WakeupComes`: the wakeup asked for is published while the
  scheduler lives.
* `BoundedBypass`: while a task waits, each registration of another task is served at most once,
  and once more for each task ahead of the waiting one that left the round.  It is about
  registrations: with four tasks, one that leaves behind the waiting task while the cursor is past it,
  and registers again, is served twice before the waiting one although nobody ahead has left.  `Served`: no queue
  starves.  `CloseReturns`: `Close` returns.
* `ClaimExact`: in a process the task being sent, the queued ones and the ones at
  workers are different, and together they are `currentTasks`.  `CarriedUnlessExcused`: a task that
  is not finished still has its last message at the broker, whatever crashed or failed
  between status and acknowledgement.  `Settles`: it reaches a final status or is deleted.
  Both except the tasks the ghost `excused` names; `NeverStuck` is `Settles` without the
  exception, and does not hold (below).
* `WriteFence`: no locked write under a claim that was taken over, once the new claim
  has written.  `ImplementsLog`: no claim, reclaim, lost lease, failed batch or acknowledgement drops an
  event before its merge.  `Drains`: the log becomes empty again and again.  `Converged`: when it is, every chunk of the
  last completed version of a document that is still in the index is merged into the products of its kind,
  and nothing of a deleted document remains; what earlier versions contributed stays.  `LastEventWins` is the same without
  the exception for reclaimed batches, and does not hold.

### Bounds

* Rows (`MaxTask`): 3 rows hold a running task, its successor and a task scheduled
  or resumed by a request; each completion or schedule needs one. Knowledge bases do
  not interact except through the connector's status, so the runs have one; the
  theorems have any number.
* Time (`MaxTime`): 2 values of the waterline besides NULL are enough for a window
  that ends later than another starts.
* `MaxCopies` bounds deliverable messages of one task; a publication beyond it is
  absorbed, which matters to no property once one is deliverable.
* `MaxFault`, `MaxDbFault`, `MaxStop`, `MaxRequest` bound errors, redeliveries,
  stops and requests. A retry cap of 2 attempts has both outcomes (3 in the code).
* `SyncRunner`: two batches are a prefix and a rest; two documents, a partial batch;
  two runs, a resume.  `SyncTimers`: five timers let two failures meet replaced timers;
  `Room` keeps a number for the retries that are due, so the bound never blocks one.
* `SyncJobExecutor`: three tasks are one waiting, one before and one after it; four
  are too many for TLC with fairness, and the theorem has any number.
* `IngestionTasks`: tasks share nothing but the channel, the workers and the consume loop. One task with
  its redeliveries and republications has several messages at a time; two clients let
  a retry, a stop and a delete overlap; 3 requests are a creation and two more.  With
  one task the channel is never full when the consume loop sends. The theorems have any
  number of tasks, workers and processes, and an instance with three tasks, one client, 3 requests
  and no fault (1,011,390 states) satisfies the same three properties with the loop blocked.
* `CompileBacklog`: `MaxWrite` bounds pipeline runs and clears together; two runs and a delete of one
  document are three events, more than a batch; two workers are an old claim and a new one. Documents of a batch are treated
  independently, so one document is enough for what the properties tell apart; the theorems have any
  number of each, and random behaviours of two documents, three workers, 4 pipeline runs or clears and 4 faults
  do not violate `Converged`.

Deadlock is not checked where the system may stop: every bound ends the
behaviours of the bounded modules and a closed executor has nothing left to do.
`ConnectorLock` has no bound and is checked for deadlock.

### Fairness

`TaskWorkers` (`workers_solo`, no stops): weak fairness of each worker (a goroutine
that can run does; a run ends by its deadline), each armed timer, and the
publication that ends an API request.  `SyncRunner`: the runner's own steps, its
return once canceled or out of time, the start of a queued job and the steps of
a job; errors are not fair.  `SyncTimers`: delays end and callbacks run; a
publication is not assumed to succeed at any particular attempt, only a bounded
number fails.  `SyncJobExecutor`: dispatcher and workers, under the assumption
that each job function returns; tasks are free never to submit, to come and go.
`IngestionTasks`: a request that was started goes on, consume loop and workers run, the pipeline
returns, AckWait ends, the broker delivers what is ready, a process that shuts down is
started again; no fairness for faults, for the poll of the cancel flag or for a new request.
`CompileBacklog`: an event that is due is published, a lease that nobody refreshes runs
out, the tickers of `Consumer.Run` fire and a batch goes on; no fairness for heartbeats.

### Assumptions

* Transactions on a (connector, knowledge base) pair are serialised, as the
  `FOR UPDATE` locks do for existing rows; a claim that finds no `connector2kb` row is not. The existence check before an insert in
  `scheduleConnectorTask` is not covered by a row lock; it is atomic here.  The end of
  the latest DONE row, which the code orders by update time, is any DONE row's.
* `sync_deleted_files` of the connector does not change.
* A lease in use does not expire: `taskExecutionDeadline` ends the run 5 seconds
  before the lease of 24 hours (`task_coordinator.go:111-133`), and calls end by
  then.
* Batches of a window are stable and resume where the checkpoint says, and upserts
  are idempotent: what `internal/syncer/README.md` asks of connectors.
* Only `Syncer.Stop` closes the executor, after the workers have returned.
* A status transition of an ingestion task (read, validate, compare-and-set) is one step;
  the loser of a race gets an error, as from a failed call. A heartbeat keeps a delivery from
  expiring while its context lives. Messages of a batch are fetched one at a time.
* The documents of a sync window are new or changed; an upsert of one that was written before is counted as
  updated or skipped.  A document version has two bulks of chunks of one kind.
* The row lock of the dataset serialises the sections of `processBatch` with the scheduler's
  transactions.  A heartbeat that failed makes the worker skip its `Ack`; the model lets it do either.

## What disagrees with the documentation

Two runs end in a counterexample to a comment of the code; `PROJECT.json` quotes the lines.

1. `ingest_stuck`: a message that waits in the channel longer than AckWait is redelivered, and
   acknowledged because this process holds the claim (`ingestion_service.go:423`), which removes it
   from the stream. When a stop then cancels the worker, `markStopped` runs with the cancelled
   context (`:661`) and fails, the task stays STOPPING, and the Nack has no message left to redeliver.
2. `backlog_order`: `reclaimOne` appends the entries of a dead claim behind events published
   since (`scheduler.go:609`), so a batch may end with the older event of a document: its
   products are then missing, or those of a deleted document come back.

Observed while modelling, without a run.  In the syncer:

* With several workers per process the connector lock is not exclusive: `Unlock` frees the local
  entry first, a sibling acquires with the same holder id, and the late Redis delete of
  the first removes the sibling's key (`connector_lock.go:94`), so that another process may run the same
  knowledge base; the default is a pool of 5 workers (`syncer/config.go:36`).  `SoloExclusion` is therefore
  about workers that are alone in their process, and `ExclusiveRun` promises no more of a pool than that its own
  workers exclude each other.
* A rebuild of a knowledge base that is not linked inserts and publishes a SYNC and a PRUNE task
  (`service/connector.go:1070-1112`); their claims share no lock (`sync_task.go:176-180`), and both may become
  RUNNING.
* A document that was written before an uncheckpointed stop is skipped by its fingerprint on resume
  (`sync_runner.go:337`), and is missing from what `CompleteSync` commits, which is Added and Added+Updated
  (`sync_task_service.go:145`).  The deleted checkpoint of a run whose row was reset meanwhile
  (`sync_runner.go:136`) makes the next run start over.
* A completion whose commit got no answer is treated as a failed run; `FailTask`, which spares only canceled
  rows, then turns the DONE row into a failed one.
* A failed startup recovery or publication is only logged (`scheduler.go:95`), and so is the error of
  the reschedule after a refused lock ignored (`task_worker.go:120`): the rows wait for the next start.
* `scheduleNext` looks the next task up with `GetScheduledTask`, which also wants the
  connector's status SCHEDULE; if the claim of the PRUNE task has set it to RUNNING the new
  SYNC row waits for a restart.  `NoLostWakeup` is checked and proved for SYNC
  only, and for one knowledge base: the knowledge bases of a connector share its status too.
* A process consumes messages before its startup recovery, which then resets a row the
  process has just claimed, while the row's startup publication is dropped as a duplicate.
  `NoLostWakeup` is checked and proved without restarts.
* `RegisterTask` returns on a canceled context although its command was applied; the
  registration refuses later runs of the task in this process.
* A run that returns early leaves a job inside an upsert after the lock has been released
  (`sync_runner.go:102`); the delete at the end of a timer callback drops the entry of a newer
  timer (`scheduler.go:172`); a database error in the second half of `Claim` leaves the row
  RUNNING without an owner until a restart (`task_worker.go:89`), and so does a rebuild for a
  knowledge base that is not linked, which is why `OwnedRunning` is checked and proved
  without them.  `DoneIsFinal` is about the time until a process stops: a recovery lets a second handler run the row.

In the ingestion service:

* A retry after the final status of the old run and before its `releaseTask` publishes a message
  that is acknowledged over the old claim; the row stays RUNNING (`excused` covers it).
* A shutdown ends the context of a task that was just taken; `runTask` writes STOPPED, a final
  status nobody asked for (`ingestion_service.go:630`).
* `Remove` decides on a status read without a lock and may delete a row that runs
  (`dao/ingestion.go:121`).  The claim is a map of one process: a redelivery to another process runs
  the pipeline twice.  `RequestStop` sets its flag after the transition, so a late `Set` cancels the
  next run.

In the knowledge compiler:

* `PublishDeleted` needs the scheduler that only the ingestor provisions
  (`ingestion_service.go:286`); in the API process, which deletes documents, it does nothing,
  although `document_crud.go:407` relies on the consumer to remove merged products.  The deletes of a connector
  (`connector.go:1237`) have no event at all.  The model has deletes with and without an event; merged products of the
  latter stay, and the ghost `lost` names these documents.
* A re-parse, a stop and a reset remove a document's chunks without an event (`document_parse.go:114`, `:408`,
  `document_ingest.go:150`), possibly with no later write: merged products of the old version stay.  They stay after a
  later version too: `WriteMerged` unites the sources of a row with the ones it has (`writer.go:293-343`), and only a deleted
  event strips them.
* `consumer.go:130` says that `TryClaim` reclaims expired claims before it claims ready ones;
  the code claims ready ones first.  An `Ack` that leaves entries of a dead claim shows the
  dataset as completed.  A completed event may be published after the deleted event of its document.

## Proofs

`tlapm <module>`.  The constants' assumptions are named in the modules that declare
them and say only that they are of their type and that sizes are not 0.

* **ConnectorLock_proofs**.  `LocalInv` = type, `LocalOwned` and "at most one worker of a
  process is inside" is inductive; it gives `LocalOwnedAlways` and
  `LocalExclusionAlways` for any processes and workers.  `SoloExclusionAlways` needs
  Redis and `SoloInv`: from `SETNX` to `Unlock` the key names the process of a worker that is
  alone in it.
* **SyncTasks_proofs**.  `DbInv` = `TypeOK`, `ChainContinues`, `NoGap` and `DoneCovered`.
  `NoGap` is not inductive by itself: a new row starts at the end of a DONE row, which
  must be covered as well, and `FailTask` may turn a DONE row into a failed one that is
  resumed.  `ChainContinues` rests on what a transaction
  may do to DONE rows: only a completion makes one, with a row that is scheduled next to it.  One lemma per transaction.
  `ChainContinuesAlways`, `NoGapAlways`,
  `CancelIsFinalAlways`.
* **TaskWorkers_proofs**.  `WorkersImplementDb`: Spec implies `DbSpec`.  It needs `JobInv`: the context
  a handler works with still describes its row if the row exists, because ids are not reused.
  `ExclusiveRunAlways`, in any deployment: `LockInv` says that from the start of the run to the unlock the local
  map of the worker's process has the entry, for this worker only, and that the lock key names the process if the
  worker is alone in it.  `WorkersTypeCorrect` adds `RestOK`,
  the types of broker, processes, lock and requests, to `DbInv` and `JobInv`; `Typed` is the three together and
  carries the next three theorems, two of them under the hypotheses their runs have too:
  * `OwnedRunningAlways`, without database errors and with links as the only requests.  `LinksInv` (the
    connector exists, the knowledge base of every row is linked) makes the second half of
    `Claim` succeed once the first has; a handler that ends has then taken its row out of RUNNING
    or belongs to a process that is stopping, whose restart recovers the row.
  * `DoneIsFinalAlways`, with everything.  `SoleInv`: until the first stop all processes are up, a task has one
    handler, and the row of a handler, if it is still there, is RUNNING or canceled, or DONE at `unsure`.
  * `NoLostWakeupAlways`, for `Quiet` systems: one knowledge base with SYNC tasks, no stop, database
    error or request but the link, and a broker that stores what it is given.  `QuietInv` is `LinksInv`,
    `SoleInv` and three facts about the task to come: at most one row is active and the row of a handler is
    RUNNING (`RowInv`); broker, timers and workers know only ids that were created, and a task a request has
    yet to publish is not among the ids the stream remembers (`TouchInv`); the next task of a completed
    run is scheduled, its connector shows SCHEDULE, and nobody has heard of it before it is announced
    (`FollowInv`), so that its publication is not dropped as a duplicate.  The observations above
    show what each hypothesis excludes.
* **SyncRunner_proofs**.  `RunnerInv` = `TypeOK`, `JobsOK` (what a job has counted, as changed or skipped, and passed
  is written, in abandoned runs too), `StoreOK` (the checkpoint's prefix is written and its
  statistics are `pos * D`), `RunOK` (statistics and position of the current run, the
  error-free prefix) and `DoneOK`.  That a first run without a fault counts all as changed needs `FirstInv`: while
  it lasts, what a job has not reached yet is not written, so nothing is skipped.  One lemma per action; job steps go through
  `JobUpdate`, returns through `ReturnStep`.  `CkptPrefixAlways`, `DoneCompleteAlways`,
  `StatsExactAlways`, `CkptForwardAlways`, for any number of batches, documents, attempts,
  workers, runs and faults.
* **SyncTimers_proofs**.  `OwedHasTimerAlways`, for any number of timers and failures.
* **SyncJobExecutor_proofs**.  `BypassBounded`, for any tasks, workers and queue sizes, and
  `TypeCorrect`.  `BoundedBypass` is not inductive: `TurnOK` says that a task the cursor still meets before a
  waiting one has been served no more often than tasks ahead have left, which a pop uses up and
  a departure gives back; `RoundOK` (nobody twice in the round, the cursor inside), `ClientOK` and `GhostOK` carry
  it.  The steps of the cursor rest on lemmas about `%` and about removing an element of a sequence.
* **IngestionTasks_proofs**, for any tasks, clients, processes, workers, channel size and faults.
  `TypeCorrect`.  `Carried` rests on `CarryInv`: besides types, only published messages are held
  anywhere (`HeldKnown`), whoever is going to acknowledge a message may (`AckSafe`: its task is finished,
  excused, about to be published again, or has a later message), and a known message that may not be
  acknowledged is at the broker (`KnownCarried`).  `AckSafe` has to be about every message, not only the
  last one, because a publication turns the last one into an earlier one.  `ClaimsExact` rests on `ExactInv`:
  the claims as the disjoint union of their holders, per process.
* **CompileBacklog_proofs**, for any documents, workers, batch size, writes and faults.
  `TypeCorrect` carries the finiteness of the lists, because the place of an entry is a
  cardinality.  `Fence` rests on `TokenInv`: claims are numbered in order, a claim has one worker,
  and nothing was written under a later claim than the row's.  `Refines` rests on `LogInv`: an event is once in the two lists, under a number
  that was given out, and a worker about to acknowledge under the row's claim has merged all that the
  acknowledgement will remove.  Each step then maps to `Publish`, `Apply`, `Settle` or a stutter of `EventLog`.
  `ConvergedAlways` needs what `Converged` says at the end of a drain at every moment before:
  `DocInv`, that a document without an event due is either reflected for good or has a latest event in the
  row that announces its current chunks, and that the worker holding this event has merged of them what the
  sections it has passed should have.  Current are the chunks of the last complete version that are still in the
  index; a clear removes some at any time, and a half-written version adds none.  `PosInv` (positions are unique, what is in flight comes before the backlog, the batch of
  the row's claim behind leftovers of dead claims) makes "latest" survive claims and reclaims, and `SrcInv`
  relates events to the index and to deleted documents.  That the event which
  decides for a document is the last one of its batch rests on `LastOf`: a non-empty list has a last entry,
  from the library's least elements of sets of naturals (`WFMin`), without an induction over data.

Only model-checked: the liveness properties (`RunEnds`, `ScheduledSettles`, `WakeupComes`,
`Served`, `CloseReturns`, `Settles`, `Drains`), which are
out of the prover's reach.  Every invariant, every action property and both refinements of the passing runs
are theorems.

## Not modelled, and why

* Data-source connectors, parsers, tokenizer, model drivers, pipelines: conversions
  and remote services; their contracts are assumptions above.
* HTTP handlers, CLI, permissions, OAuth, listings: request decoding around the
  services.  The Python services and the web front end: not part of the Go backend.
* `RecoverStaleRunning`: it has no caller.
* `MaxDeliver` (16) and limits of the stream, the TTL of checkpoints (7 days), the size
  of the in-process task queue, the values of delays.
* The prune runner's snapshot and `DeleteStale`: a prune run is one step.
* The model, chat, retrieval and command-line code, by far the largest part of the repository: requests
  that translate and forward data and keep no state between steps of several actors.
* Ingestion: the memory-extraction messages that share the channel, the mirror of the status on the
  document row, what a pipeline computes.
* Knowledge compiler: what a merge computes (deduplication, language-model calls), the navigation
  tree, tombstones (they decide nothing but their own cleanup), `RebuildDataset` and `CancelInflight`
  (no caller), several datasets (they share nothing but the workers).

## Plan

Done: the syncer's core in the order lock, table, workers, runner, timers, executor; the ingestion
tasks; the knowledge compiler's backlog with its abstract log; the proofs above.  Left, in this order:

1. **PruneRun**: snapshot, retained set, `DeleteStale`, with documents appearing meanwhile.
2. The broker as a module of its own, with delivery counts and `MaxDeliver`; two API requests
   at once and weaker isolation of `scheduleConnectorTask`.
3. The graph scheduler, cancellation and retries of the agent harness.
4. Theorems: `OwnedRunning` with requests that schedule, resume and cancel linked rows;
   `NoLostWakeup` with two knowledge bases and a lookup that does not ask for the connector's status.
