----------------------------- MODULE SyncRunner -----------------------------
(***************************************************************************)
(* The runs of one SYNC task (internal/syncer/sync_runner.go): the runner  *)
(* reads the batches of the task's window in order, submits one job per    *)
(* batch to the shared executor, collects the results in order and saves a *)
(* checkpoint for every batch of the error-free prefix.  A run that ends   *)
(* early, or whose process crashes, is followed by another one that        *)
(* resumes after the saved checkpoint.                                     *)
(*                                                                         *)
(* The source yields the same batches 1..N for the window of the task, and *)
(* OpenSync skips the ones up to the checkpoint (what the README asks of   *)
(* the connectors); all documents of the window are new or changed.        *)
(* Upserts are idempotent: a document counts as synced from its first      *)
(* effective upsert on.                                                    *)
(***************************************************************************)
EXTENDS Naturals, FiniteSets

CONSTANTS
    N,               \* batches of the window
    D,               \* documents of a batch
    Marked,          \* batches that carry a checkpoint
    ItemRetryCount,
    QueueSize,       \* jobs the executor holds for the task before submit blocks
    JobWorkers,      \* workers of the executor
    MaxRun,          \* bound: runs of the task
    MaxFault         \* bound: failed upserts and failed cancel checks of the jobs

ASSUME SyncRunnerAssumption ==
    /\ N \in Nat /\ MaxRun \in Nat /\ MaxFault \in Nat
    /\ D \in Nat \ {0}
    /\ ItemRetryCount \in Nat \ {0}
    /\ QueueSize \in Nat \ {0}
    /\ JobWorkers \in Nat \ {0}
    /\ Marked \subseteq 1..N

Batch == 1..N
Doc   == 1..D
Run   == 1..MaxRun

\* SyncStats: the documents added or updated, whose number CompleteSync commits,
\* and the ones skipped because of their fingerprint, which it does not.
SyncStats == [changed : Nat, skipped : Nat]
NoStats   == [changed |-> 0, skipped |-> 0]
Plus(a, b) == [changed |-> a.changed + b.changed, skipped |-> a.skipped + b.skipped]
Total(a)  == a.changed + a.skipped

\* SyncCheckpointState: pos is the last batch of the committed prefix, seq is
\* NextCommitSeq, stats the documents counted so far.
Checkpoint == [pos : 0..N, seq : Nat, stats : SyncStats]

\* Nothing stored.
NoCheckpoint == [pos |-> 0, seq |-> 0, stats |-> NoStats]

\* A batch job: "check" is before a document's context check, "upsert" after it.
Job == [st  : {"none", "queued", "check", "upsert", "ok", "err"},
        doc : Doc,              \* document being processed
        try : Nat,              \* failed attempts on it
        n   : SyncStats,        \* documents counted by the job
        bad : BOOLEAN]          \* processDocuments has a firstErr

VARIABLES
    store,     \* the saved checkpoint
    synced,    \* documents upserted into the knowledge base
    canceled,  \* the task's row is CANCEL
    lapsed,    \* a recovery has reset the row of the run in progress to SCHEDULE
    done,      \* the task's row is DONE
    run,       \* the current run, or the last one
    phase,     \* where Run is
    live,      \* the run's context is alive
    state,     \* checkpointState
    stats,     \* documents counted by the run
    next,      \* the batch NextBatch returns next
    got,       \* the batch whose result is collected next
    failed,    \* collectResults has a firstErr
    srcErr,    \* NextBatch failed
    job,       \* job[r][b]: batch b in run r
    faults     \* counts up to MaxFault

runVars == <<run, phase, live, state, stats, next, got, failed, srcErr>>
vars == <<store, synced, canceled, lapsed, done, runVars, job, faults>>

NoJob == [st |-> "none", doc |-> 1, try |-> 0, n |-> NoStats, bad |-> FALSE]

TypeOK ==
    /\ store \in Checkpoint
    /\ synced \subseteq Batch \X Doc
    /\ canceled \in BOOLEAN
    /\ lapsed \in BOOLEAN
    /\ done \in BOOLEAN
    /\ run \in 0..MaxRun
    /\ phase \in {"off", "loop", "collect", "verify", "complete"}
    /\ phase # "off" => run \in Run
    /\ live \in BOOLEAN
    /\ state \in Checkpoint
    /\ stats \in SyncStats
    /\ next \in 1..N + 1
    /\ got \in 1..N + 1
    /\ failed \in BOOLEAN
    /\ srcErr \in BOOLEAN
    /\ job \in [Run -> [Batch -> Job]]
    /\ faults \in 0..MaxFault

Init ==
    /\ store = NoCheckpoint
    /\ synced = {}
    /\ canceled = FALSE
    /\ lapsed = FALSE
    /\ done = FALSE
    /\ run = 0
    /\ phase = "off"
    /\ live = FALSE
    /\ state = NoCheckpoint
    /\ stats = NoStats
    /\ next = 1
    /\ got = 1
    /\ failed = FALSE
    /\ srcErr = FALSE
    /\ job = [r \in Run |-> [b \in Batch |-> NoJob]]
    /\ faults = 0

-----------------------------------------------------------------------------
(* SyncRunner.Run                                                          *)

Off == phase = "off"

\* Mutant: prepareCheckpoint starts over.
PreparedFresh == [NoCheckpoint EXCEPT !.seq = store.seq + 1]

\* The checkpoint prepareCheckpoint returns: the saved one, else a fresh one.
Prepared == IF store.seq = 0 THEN [NoCheckpoint EXCEPT !.seq = 1] ELSE store

\* Mutant: the statistics of the earlier runs are dropped.
StatsFresh == NoStats

StatsFromCheckpointState == Prepared.stats

\* A run of a task that is neither done nor canceled: prepareCheckpoint, which
\* stores a fresh state, then OpenSync after the checkpoint.
Start ==
    /\ Off
    /\ ~done /\ ~canceled
    /\ run < MaxRun
    /\ run' = run + 1
    /\ store' = Prepared
    /\ state' = Prepared
    /\ stats' = StatsFromCheckpointState
    /\ next' = Prepared.pos + 1
    /\ got' = Prepared.pos + 1
    /\ failed' = FALSE
    /\ srcErr' = FALSE
    /\ live' = TRUE
    /\ lapsed' = FALSE
    /\ phase' = "loop"
    /\ UNCHANGED <<synced, canceled, done, job, faults>>

\* One turn of the loop: not canceled, NextBatch, submitBatch.  A full queue
\* blocks the submit.
SubmitBatch ==
    /\ phase = "loop"
    /\ live
    /\ ~canceled
    /\ next <= N
    /\ Cardinality({b \in Batch : job[run][b].st = "queued"}) < QueueSize
    /\ job' = [job EXCEPT ![run][next] = [NoJob EXCEPT !.st = "queued"]]
    /\ next' = next + 1
    /\ UNCHANGED <<store, synced, canceled, lapsed, done, run, phase, live, state, stats,
                   got, failed, srcErr, faults>>

\* NextBatch returns io.EOF or another error; both lead to collectResults.
EndOfBatches ==
    /\ phase = "loop"
    /\ ~canceled
    /\ \/ next = N + 1 /\ UNCHANGED srcErr
       \/ srcErr' = TRUE
    /\ phase' = "collect"
    /\ UNCHANGED <<store, synced, canceled, lapsed, done, run, live, state, stats, next,
                   got, failed, job, faults>>

\* The jobs of run r that outlive it: a worker is on them.
Abandoned(r) ==
    [b \in Batch |-> IF job[r][b].st \in {"check", "upsert"} THEN job[r][b] ELSE NoJob]

\* Run returns with an error.  Execute ends the run's context and closes its
\* queue: jobs no worker has taken yet never run, the others are not waited for.
Return ==
    /\ phase' = "off"
    /\ live' = FALSE
    /\ job' = [job EXCEPT ![run] = Abandoned(run)]
    /\ UNCHANGED <<synced, canceled, lapsed, done, run, stats, next, got, failed, srcErr, faults>>

\* The error returns of checkCanceled (before a batch and before CompleteSync;
\* its query may fail too), of submit and CompleteSync, and the ctx.Done branch
\* of collectResults; right after Start it stands for a failed OpenSync.
ReturnError ==
    /\ ~Off
    /\ ~live \/ phase # "collect"
    /\ Return
    /\ UNCHANGED <<store, state>>

\* Mutant: a checkpoint is stored for every successful batch.
SavesAny ==
    /\ job[run][got].st = "ok"
    /\ got \in Marked

\* collectResults stores a checkpoint for batch got if its job returned one and
\* no result up to it was an error.
Saves ==
    /\ ~failed
    /\ job[run][got].st = "ok"
    /\ got \in Marked

NewState == [pos |-> got, seq |-> state.seq + 1, stats |-> Plus(stats, job[run][got].n)]

Collecting ==
    /\ phase = "collect"
    /\ got < next
    /\ job[run][got].st \in {"ok", "err"}

\* One turn of collectResults.
Collect ==
    /\ Collecting
    /\ stats' = Plus(stats, job[run][got].n)
    /\ failed' = (failed \/ job[run][got].st = "err")
    /\ IF Saves
       THEN state' = NewState /\ store' = NewState
       ELSE UNCHANGED <<state, store>>
    /\ got' = got + 1
    /\ UNCHANGED <<synced, canceled, lapsed, done, run, phase, live, next, srcErr, job, faults>>

\* SaveSyncCheckpoint reports an error: the run ends, the write may have happened.
SaveError ==
    /\ Collecting
    /\ Saves
    /\ store' \in {store, NewState}
    /\ state' = NewState
    /\ Return

\* Mutant: the source's error is forgotten after the collection.
CollectEndNoErr ==
    /\ phase = "collect"
    /\ got = next
    /\ IF failed
       THEN Return
       ELSE /\ phase' = "verify"
            /\ UNCHANGED <<synced, canceled, lapsed, done, run, live, stats, next, got,
                           failed, srcErr, job, faults>>
    /\ UNCHANGED <<store, state>>

\* The end of collectResults: Run returns its error or the source's, if any.
CollectEnd ==
    /\ phase = "collect"
    /\ got = next
    /\ IF failed \/ srcErr
       THEN Return
       ELSE /\ phase' = "verify"
            /\ UNCHANGED <<synced, canceled, lapsed, done, run, live, stats, next, got,
                           failed, srcErr, job, faults>>
    /\ UNCHANGED <<store, state>>

\* The cancel check before CompleteSync.
Verify ==
    /\ phase = "verify"
    /\ live
    /\ ~canceled
    /\ phase' = "complete"
    /\ UNCHANGED <<store, synced, canceled, lapsed, done, run, live, state, stats, next,
                   got, failed, srcErr, job, faults>>

\* CompleteSync, without effect on a row that is no longer RUNNING (canceled
\* since the check, or reset by a recovery), then the deletion of the checkpoint
\* all the same, whose error is only logged.
Complete ==
    /\ phase = "complete"
    /\ live
    /\ done' = (~canceled /\ ~lapsed)
    /\ store' \in {NoCheckpoint, store}
    /\ phase' = "off"
    /\ live' = FALSE
    /\ job' = [job EXCEPT ![run] = Abandoned(run)]
    /\ UNCHANGED <<synced, canceled, lapsed, run, state, stats, next, got, failed, srcErr,
                   faults>>

-----------------------------------------------------------------------------
(* The batch jobs.                                                         *)

Live(r) == r = run /\ live

\* Only the run in progress still waits for results.
Settled(r, b, res) == [job EXCEPT ![r][b] =
    IF r = run /\ ~Off THEN [@ EXCEPT !.st = res] ELSE NoJob]

jobFrame == UNCHANGED <<store, canceled, lapsed, done, runVars>>

\* A free worker takes the task's oldest job.
JobStart(b) ==
    /\ ~Off
    /\ job[run][b].st = "queued"
    /\ \A c \in 1..b - 1 : job[run][c].st # "queued"
    /\ Cardinality({p \in Run \X Batch :
                        job[p[1]][p[2]].st \in {"check", "upsert"}}) < JobWorkers
    /\ job' = [job EXCEPT ![run][b].st = "check"]
    /\ jobFrame /\ UNCHANGED <<synced, faults>>

\* The checks before an attempt pass.  The row is read before the first document
\* and then at most once a second, never before a retry.
DocStart(r, b) ==
    /\ job[r][b].st = "check"
    /\ Live(r)
    /\ job[r][b].doc = 1 /\ job[r][b].try = 0 => ~canceled
    /\ job' = [job EXCEPT ![r][b].st = "upsert"]
    /\ jobFrame /\ UNCHANGED <<synced, faults>>

\* The context ended, or the row was read as canceled.
MustStop(r, b) ==
    /\ job[r][b].st = "check"
    /\ ~Live(r) \/ (canceled /\ job[r][b].try = 0)

\* Mutant: the worker of a stopped job sends no result.
JobStopSilent(r, b) ==
    /\ job[r][b].st = "check"
    /\ \/ MustStop(r, b) /\ UNCHANGED faults
       \/ job[r][b].try = 0 /\ faults < MaxFault /\ faults' = faults + 1
    /\ job' = [job EXCEPT ![r][b] = NoJob]
    /\ jobFrame /\ UNCHANGED synced

\* processDocuments returns the error of a check (the query may fail as well).
JobStop(r, b) ==
    /\ job[r][b].st = "check"
    /\ \/ MustStop(r, b) /\ UNCHANGED faults
       \/ job[r][b].try = 0 /\ faults < MaxFault /\ faults' = faults + 1
    /\ job' = Settled(r, b, "err")
    /\ jobFrame /\ UNCHANGED synced

\* The job after a document: the next one, or the end with firstErr.
NextDoc(r, b, n, bad) ==
    IF job[r][b].doc < D
    THEN [job EXCEPT ![r][b] = [st |-> "check", doc |-> @.doc + 1, try |-> 0,
                                n |-> n, bad |-> bad]]
    ELSE [job EXCEPT ![r][b] =
             IF r = run /\ ~Off
             THEN [@ EXCEPT !.st = IF bad THEN "err" ELSE "ok", !.n = n, !.bad = bad]
             ELSE NoJob]

\* What the job's stats may be after one more document: a document that is not
\* yet in the knowledge base is added or updated; one that an earlier attempt
\* has written is skipped if the source gives it a fingerprint, else updated.
Counts(r, b) ==
    LET n == job[r][b].n
    IN {[n EXCEPT !.changed = @ + 1]}
       \cup (IF <<b, job[r][b].doc>> \in synced THEN {[n EXCEPT !.skipped = @ + 1]} ELSE {})

\* processDocument succeeds.
DocOk(r, b) ==
    /\ job[r][b].st = "upsert"
    /\ synced' = synced \cup {<<b, job[r][b].doc>>}
    /\ \E n \in Counts(r, b) : job' = NextDoc(r, b, n, job[r][b].bad)
    /\ jobFrame /\ UNCHANGED faults

\* processDocument fails, with or without effect.  A retryable error is tried
\* again up to ItemRetryCount attempts; the last one marks the job and the next
\* document follows.
DocError(r, b) ==
    /\ job[r][b].st = "upsert"
    /\ faults < MaxFault
    /\ faults' = faults + 1
    /\ synced' \in {synced, synced \cup {<<b, job[r][b].doc>>}}
    /\ \/ /\ job[r][b].try + 1 < ItemRetryCount
          /\ job' = [job EXCEPT ![r][b].st = "check", ![r][b].try = @ + 1]
       \/ job' = NextDoc(r, b, job[r][b].n, TRUE)
    /\ jobFrame

-----------------------------------------------------------------------------
(* The environment.                                                        *)

\* The task's row is canceled (CancelRunningOrScheduledLogs).
Cancel ==
    /\ ~canceled /\ ~done
    /\ canceled' = TRUE
    /\ UNCHANGED <<store, synced, lapsed, done, runVars, job, faults>>

\* Another process starts: its recovery resets the row although the run goes on.
\* A worker that claims the row again makes it RUNNING, and waits for the lock.
Lapse ==
    /\ ~Off
    /\ ~canceled
    /\ lapsed' = ~lapsed
    /\ UNCHANGED <<store, synced, canceled, done, runVars, job, faults>>

\* The deadline of Execute passes or the syncer stops.
ContextEnds ==
    /\ live
    /\ live' = FALSE
    /\ UNCHANGED <<store, synced, canceled, lapsed, done, run, phase, state, stats, next, got,
                   failed, srcErr, job, faults>>

\* The process dies, and its jobs with it.
Crash ==
    /\ ~Off
    /\ phase' = "off"
    /\ live' = FALSE
    /\ job' = [r \in Run |-> [b \in Batch |-> NoJob]]
    /\ UNCHANGED <<store, synced, canceled, lapsed, done, run, state, stats, next, got, failed,
                   srcErr, faults>>

JobStep(r, b) == DocStart(r, b) \/ JobStop(r, b) \/ DocOk(r, b) \/ DocError(r, b)

RunStep ==
    \/ SubmitBatch \/ EndOfBatches \/ ReturnError
    \/ Collect \/ SaveError \/ CollectEnd \/ Verify \/ Complete

Next ==
    \/ Start
    \/ RunStep
    \/ \E b \in Batch : JobStart(b)
    \/ \E r \in Run, b \in Batch : JobStep(r, b)
    \/ Cancel
    \/ Lapse
    \/ ContextEnds
    \/ Crash

Spec == Init /\ [][Next]_vars

\* The runner's goroutine and the workers keep going: no call they make blocks
\* for ever.  Errors of calls, cancellation, deadlines and crashes are not fair.
Fairness ==
    /\ WF_vars(SubmitBatch \/ EndOfBatches \/ Collect \/ CollectEnd \/ Verify \/ Complete)
    /\ WF_vars((canceled \/ ~live) /\ ReturnError)
    /\ WF_vars(\E b \in Batch : JobStart(b))
    /\ \A r \in Run, b \in Batch :
           /\ WF_vars(DocStart(r, b) \/ DocOk(r, b))
           /\ WF_vars(MustStop(r, b) /\ JobStop(r, b))

FairSpec == Spec /\ Fairness

-----------------------------------------------------------------------------
(* Correctness.                                                            *)

BatchSynced(b) == \A d \in Doc : <<b, d>> \in synced

\* The stored checkpoint never runs ahead of the knowledge base: every document
\* of every batch it covers has been upserted, whatever retries, failed or
\* abandoned jobs, lost saves and crashes came before (collectResults stores a
\* checkpoint only for the error-free prefix, README "only saves the checkpoint
\* when there were no prior errors").
CkptPrefix == \A b \in 1..store.pos : BatchSynced(b)

\* A task is DONE only when every document of its window is in the knowledge
\* base, however many runs it took (Run commits after collectResults without
\* error); its successor's window starts where this one ends, so a document
\* missed here would be missed for ever.
DoneComplete == done => \A b \in Batch : BatchSynced(b)

\* The statistics committed with the task count every document once, as changed
\* or as skipped: runs that resume add to what the checkpoint recorded, not to
\* what earlier runs saw (statsFromCheckpointState and
\* applyStatsToCheckpointState).  The number CompleteSync commits is the changed
\* ones.  It is the whole window, whose documents are all new or changed here,
\* for a task whose first run goes through; a resumed task leaves out what an
\* earlier attempt wrote after its last checkpoint, and never counts a document
\* twice.
StatsExact ==
    done => /\ Total(stats) = N * D
            /\ run = 1 /\ faults = 0 => stats.changed = N * D

\* A checkpoint already stored is lost or moved back only by the deletion at the
\* end of a run that reached CompleteSync (prepareCheckpoint reuses it,
\* collectResults extends it).
CkptForward ==
    [][\/ store'.pos >= store.pos /\ store'.seq >= store.seq
       \/ phase = "complete" /\ store' = NoCheckpoint]_vars

\* A run ends: neither the submit of a batch nor the wait for its result blocks
\* for ever, though abandoned jobs of earlier runs hold workers.
RunEnds == (phase # "off") ~> (phase = "off")
=============================================================================
