-------------------------- MODULE SyncRunner_proofs --------------------------
(***************************************************************************)
(* For any number of batches, documents, workers and runs: the stored      *)
(* checkpoint covers only synced documents, a task that is DONE has synced *)
(* all of them and counted each once (in its first run as changed), and    *)
(* checkpoints never move back.                                            *)
(***************************************************************************)
EXTENDS SyncRunner, TLAPS

\* What a job's record says about the knowledge base: documents before the
\* current one are synced and counted unless an earlier error was kept, and a
\* job that returned ok synced its whole batch.
JobOK(b, j, set) ==
    /\ j.st = "queued" => j.doc = 1 /\ Total(j.n) = 0
    /\ j.st = "ok" => Total(j.n) = D /\ \A d \in Doc : <<b, d>> \in set
    /\ j.st \in {"check", "upsert"} /\ ~j.bad =>
           Total(j.n) = j.doc - 1 /\ \A d \in 1..j.doc - 1 : <<b, d>> \in set

JobsOK == \A r \in Run, b \in Batch : JobOK(b, job[r][b], synced)

\* The stored checkpoint, with its statistics.
StoreOK ==
    /\ CkptPrefix
    /\ Total(store.stats) = store.pos * D
    /\ store.seq = 0 => store.pos = 0

\* The run in progress: its copy of the checkpoint is the stored one, and what it
\* has collected without an error is synced and counted.
RunOK ==
    ~Off =>
        /\ ~done
        /\ state = store
        /\ got <= next
        /\ store.pos < got
        /\ ~failed => /\ \A b \in 1..got - 1 : BatchSynced(b)
                      /\ Total(stats) = (got - 1) * D
        /\ phase = "collect" /\ ~srcErr => next = N + 1
        /\ phase \in {"verify", "complete"} => ~failed /\ got = N + 1

DoneOK == DoneComplete /\ (done => Total(stats) = N * D)

RunnerInv == TypeOK /\ JobsOK /\ StoreOK /\ RunOK /\ DoneOK

-----------------------------------------------------------------------------

LEMMA NoStatsFacts == NoStats \in SyncStats /\ Total(NoStats) = 0
BY DEF NoStats, SyncStats, Total

\* Adding statistics adds their totals.
LEMMA PlusFacts ==
    ASSUME NEW a \in SyncStats, NEW b \in SyncStats
    PROVE  /\ Plus(a, b) \in SyncStats
           /\ Total(a) \in Nat
           /\ Total(Plus(a, b)) = Total(a) + Total(b)
           /\ Plus(a, b).skipped = a.skipped + b.skipped
BY DEF Plus, Total, SyncStats

\* One more document counts once.
LEMMA CountsFacts ==
    ASSUME NEW r, NEW b, job[r][b].n \in SyncStats, NEW n \in Counts(r, b)
    PROVE  /\ n \in SyncStats /\ Total(n) = Total(job[r][b].n) + 1
           /\ <<b, job[r][b].doc>> \notin synced => n.skipped = job[r][b].n.skipped
<1>1. n = [job[r][b].n EXCEPT !.changed = @ + 1]
      \/ (n = [job[r][b].n EXCEPT !.skipped = @ + 1] /\ <<b, job[r][b].doc>> \in synced)
  BY DEF Counts
<1> QED BY <1>1 DEF SyncStats, Total

LEMMA NoJobIsJob == NoJob \in Job
BY SyncRunnerAssumption, NoStatsFacts DEF NoJob, Job, Doc

LEMMA InitRunnerInv == Init => RunnerInv
<1> SUFFICES ASSUME Init PROVE RunnerInv
  OBVIOUS
<1> USE SyncRunnerAssumption
<1>1. TypeOK
  <2>1. job \in [Run -> [Batch -> Job]]
    BY NoJobIsJob DEF Init
  <2>2. NoCheckpoint \in Checkpoint
    BY NoStatsFacts DEF Checkpoint, NoCheckpoint
  <2>3. synced \subseteq Batch \X Doc
    BY Zenon DEF Init
  <2>4. canceled \in BOOLEAN /\ done \in BOOLEAN /\ live \in BOOLEAN
        /\ failed \in BOOLEAN /\ srcErr \in BOOLEAN /\ lapsed \in BOOLEAN
    BY DEF Init
  <2>5. run \in 0..MaxRun /\ next \in 1..N + 1 /\ got \in 1..N + 1 /\ faults \in 0..MaxFault
        /\ stats \in SyncStats
    BY NoStatsFacts DEF Init
  <2>6. phase \in {"off", "loop", "collect", "verify", "complete"} /\ phase = "off"
    BY DEF Init
  <2> QED BY <2>1, <2>2, <2>3, <2>4, <2>5, <2>6 DEF Init, TypeOK
<1>2. JobsOK
  BY NoStatsFacts DEF Init, JobsOK, JobOK, NoJob
<1>3. StoreOK
  BY NoStatsFacts DEF Init, StoreOK, CkptPrefix, NoCheckpoint
<1>4. RunOK /\ DoneOK
  BY DEF Init, RunOK, Off, DoneOK, DoneComplete
<1> QED BY <1>1, <1>2, <1>3, <1>4 DEF RunnerInv

\* Documents are never removed, so what is synced stays synced.
LEMMA SyncedGrows ==
    ASSUME synced \subseteq synced'
    PROVE  /\ \A b : BatchSynced(b) => BatchSynced(b)'
           /\ \A b, j : JobOK(b, j, synced) => JobOK(b, j, synced')
BY DEF BatchSynced, JobOK

\* A step that replaces the record of one job.
LEMMA JobUpdate ==
    ASSUME RunnerInv, NEW r \in Run, NEW b \in Batch, NEW j \in Job,
           synced \subseteq synced', synced' \subseteq Batch \X Doc,
           job' = [job EXCEPT ![r] = [job[r] EXCEPT ![b] = j]],
           JobOK(b, j, synced'), jobFrame, faults' \in 0..MaxFault
    PROVE  RunnerInv'
<1> USE SyncRunnerAssumption
<1>1. TypeOK'
  BY DEF RunnerInv, TypeOK, jobFrame, runVars
<1>2. JobsOK'
  <2> SUFFICES ASSUME NEW q \in Run, NEW c \in Batch
               PROVE  JobOK(c, job'[q][c], synced')
    BY DEF JobsOK
  <2>1. CASE q = r /\ c = b
    <3>1. job'[q][c] = j
      BY <2>1 DEF RunnerInv, TypeOK
    <3> QED BY <3>1, <2>1
  <2>2. CASE ~(q = r /\ c = b)
    <3>1. job'[q][c] = job[q][c]
      BY <2>2 DEF RunnerInv, TypeOK
    <3>2. JobOK(c, job[q][c], synced)
      BY DEF RunnerInv, JobsOK
    <3> QED BY <3>1, <3>2 DEF JobOK, BatchSynced
  <2> QED BY <2>1, <2>2
<1>3. StoreOK' /\ DoneOK'
  BY SyncedGrows DEF RunnerInv, StoreOK, CkptPrefix, DoneOK, DoneComplete, jobFrame, runVars
<1>4. RunOK'
  BY SyncedGrows DEF RunnerInv, RunOK, Off, jobFrame, runVars
<1> QED BY <1>1, <1>2, <1>3, <1>4 DEF RunnerInv

\* A run that ends leaves only the jobs a worker is on.
LEMMA AbandonedOK ==
    ASSUME RunnerInv, ~Off, synced' = synced,
           job' = [job EXCEPT ![run] = Abandoned(run)]
    PROVE  job' \in [Run -> [Batch -> Job]] /\ JobsOK'
<1>1. run \in Run
  BY DEF RunnerInv, TypeOK, Off
<1>2. Abandoned(run) \in [Batch -> Job]
  BY <1>1, NoJobIsJob DEF RunnerInv, TypeOK, Abandoned
<1>3. job' \in [Run -> [Batch -> Job]]
  BY <1>1, <1>2 DEF RunnerInv, TypeOK
<1>4. ASSUME NEW q \in Run, NEW c \in Batch
      PROVE  JobOK(c, job'[q][c], synced')
  <2>1. job'[q][c] \in {job[q][c], NoJob}
    BY <1>1 DEF RunnerInv, TypeOK, Abandoned
  <2>2. JobOK(c, job[q][c], synced) /\ JobOK(c, NoJob, synced)
    BY NoStatsFacts DEF RunnerInv, JobsOK, JobOK, NoJob
  <2> QED BY <2>1, <2>2 DEF JobOK, BatchSynced
<1> QED BY <1>3, <1>4 DEF JobsOK

\* Run returns; the stored checkpoint stays or is the one just saved.
LEMMA ReturnStep ==
    ASSUME RunnerInv, ~Off, Return, state' \in Checkpoint, store' \in Checkpoint,
           \A b \in 1..store'.pos : BatchSynced(b),
           Total(store'.stats) = store'.pos * D,
           store'.seq = 0 => store'.pos = 0
    PROVE  RunnerInv'
<1>1. job' \in [Run -> [Batch -> Job]] /\ JobsOK'
  BY AbandonedOK DEF Return
<1>2. TypeOK'
  BY <1>1 DEF RunnerInv, TypeOK, Return
<1>3. StoreOK' /\ DoneOK'
  BY DEF RunnerInv, StoreOK, CkptPrefix, DoneOK, DoneComplete, BatchSynced, Return
<1>4. RunOK'
  BY DEF RunOK, Off, Return
<1> QED BY <1>1, <1>2, <1>3, <1>4 DEF RunnerInv

LEMMA StartStep == RunnerInv /\ Start => RunnerInv'
<1> SUFFICES ASSUME RunnerInv, Start PROVE RunnerInv'
  OBVIOUS
<1> USE SyncRunnerAssumption
<1>1. Prepared \in Checkpoint /\ Prepared.pos = (IF store.seq = 0 THEN 0 ELSE store.pos)
      /\ Total(Prepared.stats) = Prepared.pos * D /\ Prepared.seq # 0
  <2>1. CASE store.seq = 0
    <3>1. Prepared = [pos |-> 0, seq |-> 1, stats |-> NoStats]
      BY <2>1 DEF Prepared, NoCheckpoint
    <3>2. 0 * D = 0
      OBVIOUS
    <3> QED BY <2>1, <3>1, <3>2, NoStatsFacts DEF Checkpoint
  <2>2. CASE store.seq # 0
    BY <2>2 DEF RunnerInv, TypeOK, StoreOK, Prepared
  <2> QED BY <2>1, <2>2
<1>2. \A b \in 1..Prepared.pos : BatchSynced(b)
  <2> SUFFICES ASSUME NEW b \in 1..Prepared.pos PROVE BatchSynced(b)
    OBVIOUS
  <2>1. Prepared.pos = 0 \/ Prepared.pos = store.pos
    BY <1>1
  <2>2. Prepared.pos # 0
    OBVIOUS
  <2> QED BY <2>1, <2>2 DEF RunnerInv, StoreOK, CkptPrefix
<1>3. Prepared.pos \in 0..N /\ Prepared.stats \in SyncStats
  BY <1>1 DEF Checkpoint
<1>4. TypeOK'
  <2>1. run' \in 0..MaxRun /\ run' \in Run
    BY DEF RunnerInv, TypeOK, Start, Run
  <2>2. next' \in 1..N + 1 /\ got' \in 1..N + 1 /\ stats' \in SyncStats
    BY <1>3 DEF Start, StatsFromCheckpointState
  <2>3. store' \in Checkpoint /\ state' \in Checkpoint
    BY <1>1 DEF Start
  <2> QED BY <2>1, <2>2, <2>3 DEF RunnerInv, TypeOK, Start
<1>5. JobsOK'
  BY DEF RunnerInv, JobsOK, JobOK, BatchSynced, Start
<1>6. StoreOK' /\ DoneOK'
  BY <1>1, <1>2 DEF RunnerInv, StoreOK, CkptPrefix, DoneOK, DoneComplete, BatchSynced, Start, StatsFromCheckpointState
<1>7. RunOK'
  BY <1>1, <1>2, <1>3 DEF RunOK, Off, Start, StatsFromCheckpointState, BatchSynced
<1> QED BY <1>4, <1>5, <1>6, <1>7 DEF RunnerInv

LEMMA SubmitStep == RunnerInv /\ SubmitBatch => RunnerInv'
<1> SUFFICES ASSUME RunnerInv, SubmitBatch PROVE RunnerInv'
  OBVIOUS
<1> USE SyncRunnerAssumption
<1> DEFINE j == [NoJob EXCEPT !.st = "queued"]
<1>1. j \in Job /\ JobOK(next, j, synced)
  BY NoJobIsJob, NoStatsFacts DEF Job, NoJob, JobOK
<1>2. run \in Run /\ next \in Batch
  BY DEF RunnerInv, TypeOK, SubmitBatch, Batch
<1>3. job' = [job EXCEPT ![run] = [job[run] EXCEPT ![next] = j]]
  BY DEF SubmitBatch
<1> HIDE DEF j
<1>4. job' \in [Run -> [Batch -> Job]]
  BY <1>1, <1>2, <1>3 DEF RunnerInv, TypeOK
<1>5. TypeOK'
  BY <1>4 DEF RunnerInv, TypeOK, SubmitBatch
<1>6. ASSUME NEW q \in Run, NEW c \in Batch
      PROVE  JobOK(c, job'[q][c], synced')
  <2>1. job'[q][c] = IF q = run /\ c = next THEN j ELSE job[q][c]
    BY <1>2, <1>3 DEF RunnerInv, TypeOK
  <2>2. JobOK(c, job[q][c], synced)
    BY DEF RunnerInv, JobsOK
  <2>3. synced' = synced
    BY DEF SubmitBatch
  <2> QED BY <1>1, <2>1, <2>2, <2>3 DEF JobOK, BatchSynced
<1>7. JobsOK'
  BY <1>6 DEF JobsOK
<1>8. StoreOK' /\ DoneOK'
  BY DEF RunnerInv, StoreOK, CkptPrefix, DoneOK, DoneComplete, BatchSynced, SubmitBatch
<1>9. RunOK'
  BY DEF RunnerInv, TypeOK, RunOK, Off, SubmitBatch, BatchSynced
<1> QED BY <1>5, <1>7, <1>8, <1>9 DEF RunnerInv

LEMMA CollectStep == RunnerInv /\ Collect => RunnerInv'
<1> SUFFICES ASSUME RunnerInv, Collect PROVE RunnerInv'
  OBVIOUS
<1> USE SyncRunnerAssumption
<1>1. run \in Run /\ got \in Batch /\ got < next /\ got \in Nat
  BY DEF RunnerInv, TypeOK, Collect, Collecting, Batch
<1>2. job[run][got] \in Job /\ JobOK(got, job[run][got], synced)
  BY <1>1 DEF RunnerInv, TypeOK, JobsOK
<1>3. job[run][got].n \in SyncStats /\ stats \in SyncStats
  BY <1>2 DEF Job, RunnerInv, TypeOK
<1>4. ~Off /\ synced' = synced
  BY DEF Collect, Collecting, Off
<1>5. ~failed' => /\ ~failed
                  /\ BatchSynced(got) /\ Total(job[run][got].n) = D
                  /\ Total(stats') = got' * D - D
                  /\ \A b \in 1..got : BatchSynced(b)
  <2> SUFFICES ASSUME ~failed' PROVE
        /\ ~failed
        /\ BatchSynced(got) /\ Total(job[run][got].n) = D
        /\ Total(stats') = got' * D - D
        /\ \A b \in 1..got : BatchSynced(b)
    OBVIOUS
  <2>1. ~failed /\ job[run][got].st = "ok"
    BY DEF Collect, Collecting
  <2>2. BatchSynced(got) /\ Total(job[run][got].n) = D
    BY <2>1, <1>2 DEF JobOK, BatchSynced
  <2>3. Total(stats) = (got - 1) * D /\ \A b \in 1..got - 1 : BatchSynced(b)
    BY <2>1, <1>4 DEF RunnerInv, RunOK
  <2>4. \A b \in 1..got : b \in 1..got - 1 \/ b = got
    BY <1>1
  <2>5. Total(stats') = Total(stats) + D /\ got' = got + 1
    BY <2>2, <1>3, PlusFacts DEF Collect
  <2>6. (got - 1) * D + D = (got + 1) * D - D
    BY <1>1
  <2> QED BY <2>1, <2>2, <2>3, <2>4, <2>5, <2>6
<1>6. Saves => ~failed'
  BY DEF Saves, Collect
<1>7. store' \in Checkpoint /\ state' \in Checkpoint /\ StoreOK' /\ state' = store'
      /\ store'.pos <= got
  <2>1. CASE Saves
    <3>1. store' = NewState /\ state' = NewState
      BY <2>1 DEF Collect
    <3>2. NewState \in Checkpoint /\ NewState.pos = got /\ NewState.stats = stats'
          /\ NewState.seq # 0
      <4>1. state.seq + 1 \in Nat /\ state.seq + 1 # 0
        BY DEF RunnerInv, TypeOK, Checkpoint
      <4>2. Plus(stats, job[run][got].n) \in SyncStats
        BY <1>3, PlusFacts
      <4>3. got \in 0..N
        BY <1>1 DEF Batch
      <4>4. stats' = Plus(stats, job[run][got].n)
        BY DEF Collect
      <4> QED BY <4>1, <4>2, <4>3, <4>4 DEF NewState, Checkpoint
    <3>3. Total(stats') = got * D
      <4>1. Total(stats') = got' * D - D /\ got' = got + 1
        BY <2>1, <1>5, <1>6 DEF Collect
      <4>2. (got + 1) * D - D = got * D
        BY <1>1
      <4> QED BY <4>1, <4>2
    <3> QED BY <2>1, <3>1, <3>2, <3>3, <1>1, <1>4, <1>5, <1>6 DEF StoreOK, CkptPrefix, BatchSynced
  <2>2. CASE ~Saves
    <3>1. store' = store /\ state' = state
      BY <2>2 DEF Collect
    <3>2. store.pos <= got
      BY <1>1, <1>4 DEF RunnerInv, TypeOK, RunOK, Checkpoint
    <3> QED BY <3>1, <3>2, <1>4 DEF RunnerInv, TypeOK, RunOK, StoreOK, CkptPrefix, BatchSynced
  <2> QED BY <2>1, <2>2
<1>8. TypeOK'
  <2>1. stats' \in SyncStats
    BY <1>3, PlusFacts DEF Collect
  <2>2. failed' \in BOOLEAN
    BY DEF Collect
  <2>3. got' \in 1..N + 1
    BY <1>1 DEF Collect, Batch
  <2> QED BY <2>1, <2>2, <2>3, <1>7 DEF RunnerInv, TypeOK, Collect
<1>9. JobsOK' /\ DoneOK'
  <2>1. ~done
    BY <1>4 DEF RunnerInv, RunOK
  <2> QED BY <2>1 DEF RunnerInv, JobsOK, JobOK, BatchSynced, DoneOK, DoneComplete, Collect
<1>10. RunOK'
  <2>1. got' <= next'
    BY <1>1 DEF RunnerInv, TypeOK, Collect
  <2>2. store'.pos < got'
    BY <1>7, <1>1 DEF Checkpoint, Collect
  <2>3. ~failed' => /\ \A b \in 1..got' - 1 : BatchSynced(b)'
                    /\ Total(stats') = (got' - 1) * D
    BY <1>1, <1>4, <1>5 DEF Collect, BatchSynced
  <2>4. phase' = "collect" /\ ~srcErr' => next' = N + 1
    BY DEF RunnerInv, RunOK, Off, Collect, Collecting
  <2>5. phase' = "collect" /\ ~done'
    BY <1>4 DEF RunnerInv, RunOK, Collect, Collecting
  <2> QED BY <1>7, <2>1, <2>2, <2>3, <2>4, <2>5 DEF RunOK, Off
<1> QED BY <1>7, <1>8, <1>9, <1>10 DEF RunnerInv

\* SaveSyncCheckpoint fails after it may have stored the new checkpoint.
LEMMA SaveErrorStep == RunnerInv /\ SaveError => RunnerInv'
<1> SUFFICES ASSUME RunnerInv, SaveError PROVE RunnerInv'
  OBVIOUS
<1> USE SyncRunnerAssumption
<1>1. run \in Run /\ got \in Batch /\ got \in Nat /\ ~Off /\ ~failed
      /\ job[run][got].st = "ok"
  BY DEF RunnerInv, TypeOK, SaveError, Saves, Collecting, Batch, Off
<1>2. BatchSynced(got) /\ Total(job[run][got].n) = D
  BY <1>1 DEF RunnerInv, JobsOK, JobOK, BatchSynced
<1>3. Total(stats) = (got - 1) * D /\ \A b \in 1..got - 1 : BatchSynced(b)
  BY <1>1 DEF RunnerInv, RunOK
<1>4. \A b \in 1..got : BatchSynced(b)
  <2>1. \A b \in 1..got : b \in 1..got - 1 \/ b = got
    BY <1>1
  <2> QED BY <2>1, <1>2, <1>3
<1>5. /\ Plus(stats, job[run][got].n) \in SyncStats
      /\ Total(Plus(stats, job[run][got].n)) = got * D
  <2>1. (got - 1) * D + D = got * D
    BY <1>1
  <2>2. stats \in SyncStats /\ job[run][got].n \in SyncStats
    BY <1>1 DEF RunnerInv, TypeOK, Job
  <2> QED BY <2>1, <2>2, <1>2, <1>3, PlusFacts
<1>6. NewState \in Checkpoint /\ NewState.pos = got /\ Total(NewState.stats) = got * D
      /\ NewState.seq # 0
  <2>1. state.seq + 1 \in Nat /\ state.seq + 1 # 0
    BY DEF RunnerInv, TypeOK, Checkpoint
  <2>2. got \in 0..N
    BY <1>1 DEF Batch
  <2> QED BY <2>1, <2>2, <1>5 DEF NewState, Checkpoint
<1>7. CASE store' = store
  BY <1>1, <1>6, <1>7, ReturnStep DEF SaveError, RunnerInv, TypeOK, StoreOK, CkptPrefix
<1>8. CASE store' = NewState
  BY <1>1, <1>4, <1>6, <1>8, ReturnStep DEF SaveError
<1> QED BY <1>7, <1>8 DEF SaveError

\* ReturnError, and CollectEnd with an error.
LEMMA PlainReturnStep ==
    ASSUME RunnerInv, ~Off, Return, UNCHANGED <<store, state>>
    PROVE  RunnerInv'
BY ReturnStep DEF RunnerInv, TypeOK, StoreOK, CkptPrefix

\* Steps that change neither the knowledge base, the checkpoint nor a job.
LEMMA QuietStep ==
    ASSUME RunnerInv, UNCHANGED <<store, synced, done, job, stats, state>>, TypeOK', RunOK'
    PROVE  RunnerInv'
BY DEF RunnerInv, JobsOK, JobOK, BatchSynced, StoreOK, CkptPrefix, DoneOK, DoneComplete

LEMMA LoopSteps == RunnerInv /\ (EndOfBatches \/ CollectEnd \/ Verify) => RunnerInv'
<1> SUFFICES ASSUME RunnerInv, EndOfBatches \/ CollectEnd \/ Verify PROVE RunnerInv'
  OBVIOUS
<1> USE SyncRunnerAssumption
<1>1. CASE EndOfBatches
  <2>1. TypeOK'
    BY <1>1 DEF RunnerInv, TypeOK, EndOfBatches
  <2>2. RunOK'
    BY <1>1 DEF RunnerInv, TypeOK, RunOK, Off, EndOfBatches, BatchSynced
  <2> QED BY <1>1, <2>1, <2>2, QuietStep DEF EndOfBatches
<1>2. CASE CollectEnd
  <2>1. CASE failed \/ srcErr
    BY <1>2, <2>1, PlainReturnStep DEF CollectEnd, Off
  <2>2. CASE ~(failed \/ srcErr)
    <3>1. TypeOK'
      BY <1>2, <2>2 DEF RunnerInv, TypeOK, CollectEnd
    <3>2. RunOK'
      BY <1>2, <2>2 DEF RunnerInv, TypeOK, RunOK, Off, CollectEnd, BatchSynced
    <3> QED BY <1>2, <2>2, <3>1, <3>2, QuietStep DEF CollectEnd
  <2> QED BY <2>1, <2>2
<1>3. CASE Verify
  <2>1. TypeOK'
    BY <1>3 DEF RunnerInv, TypeOK, Verify
  <2>2. RunOK'
    BY <1>3 DEF RunnerInv, TypeOK, RunOK, Off, Verify, BatchSynced
  <2> QED BY <1>3, <2>1, <2>2, QuietStep DEF Verify
<1> QED BY <1>1, <1>2, <1>3

LEMMA CompleteStep == RunnerInv /\ Complete => RunnerInv'
<1> SUFFICES ASSUME RunnerInv, Complete PROVE RunnerInv'
  OBVIOUS
<1> USE SyncRunnerAssumption
<1>1. ~Off /\ ~failed /\ got = N + 1
  BY DEF RunnerInv, RunOK, Off, Complete
<1>2. job' \in [Run -> [Batch -> Job]] /\ JobsOK'
  BY <1>1, AbandonedOK DEF Complete
<1>3. NoCheckpoint \in Checkpoint /\ NoCheckpoint.pos = 0 /\ Total(NoCheckpoint.stats) = 0 /\ 0 * D = 0
  BY NoStatsFacts DEF NoCheckpoint, Checkpoint
<1>4. TypeOK'
  <2>1. store' \in Checkpoint
    BY <1>3 DEF RunnerInv, TypeOK, Complete
  <2>2. done' \in BOOLEAN
    BY DEF Complete
  <2> QED BY <1>2, <2>1, <2>2 DEF RunnerInv, TypeOK, Complete
<1>5. StoreOK'
  <2>1. CASE store' = store
    BY <2>1 DEF RunnerInv, StoreOK, CkptPrefix, BatchSynced, Complete
  <2>2. CASE store' = NoCheckpoint
    BY <2>2, <1>3 DEF StoreOK, CkptPrefix
  <2> QED BY <2>1, <2>2 DEF Complete
<1>6. DoneOK'
  <2>1. Total(stats) = (got - 1) * D /\ \A b \in 1..got - 1 : BatchSynced(b)
    BY <1>1 DEF RunnerInv, RunOK
  <2>2. got - 1 = N
    BY <1>1
  <2> QED BY <2>1, <2>2 DEF DoneOK, DoneComplete, BatchSynced, Batch, Complete
<1>7. RunOK'
  BY DEF RunOK, Off, Complete
<1> QED BY <1>2, <1>4, <1>5, <1>6, <1>7 DEF RunnerInv

LEMMA EnvironmentSteps == RunnerInv /\ (Cancel \/ Lapse \/ ContextEnds \/ Crash) => RunnerInv'
<1> SUFFICES ASSUME RunnerInv, Cancel \/ Lapse \/ ContextEnds \/ Crash PROVE RunnerInv'
  OBVIOUS
<1>1. CASE Cancel
  <2>1. TypeOK'
    BY <1>1 DEF RunnerInv, TypeOK, Cancel, runVars
  <2>2. RunOK'
    BY <1>1 DEF RunnerInv, RunOK, Off, Cancel, runVars, BatchSynced
  <2> QED BY <1>1, <2>1, <2>2, QuietStep DEF Cancel, runVars
<1>2. CASE ContextEnds
  <2>1. TypeOK'
    BY <1>2 DEF RunnerInv, TypeOK, ContextEnds
  <2>2. RunOK'
    BY <1>2 DEF RunnerInv, RunOK, Off, ContextEnds, BatchSynced
  <2> QED BY <1>2, <2>1, <2>2, QuietStep DEF ContextEnds
<1>3. CASE Crash
  <2>1. job' \in [Run -> [Batch -> Job]]
    BY <1>3, NoJobIsJob DEF Crash
  <2>2. TypeOK'
    BY <1>3, <2>1 DEF RunnerInv, TypeOK, Crash
  <2>3. JobsOK'
    BY <1>3, NoStatsFacts DEF Crash, JobsOK, JobOK, NoJob
  <2>4. StoreOK' /\ DoneOK'
    BY <1>3 DEF RunnerInv, StoreOK, CkptPrefix, DoneOK, DoneComplete, BatchSynced, Crash
  <2>5. RunOK'
    BY <1>3 DEF RunOK, Off, Crash
  <2> QED BY <2>2, <2>3, <2>4, <2>5 DEF RunnerInv
<1>4. CASE Lapse
  <2>1. TypeOK'
    BY <1>4 DEF RunnerInv, TypeOK, Lapse, runVars
  <2>2. RunOK'
    BY <1>4 DEF RunnerInv, RunOK, Off, Lapse, runVars, BatchSynced
  <2> QED BY <1>4, <2>1, <2>2, QuietStep DEF Lapse, runVars
<1> QED BY <1>1, <1>2, <1>3, <1>4

-----------------------------------------------------------------------------
(* The jobs. *)

LEMMA JobFacts ==
    ASSUME RunnerInv, NEW r \in Run, NEW b \in Batch
    PROVE  /\ job[r][b] \in Job
           /\ job[r][b].doc \in Doc /\ job[r][b].doc \in Nat
           /\ job[r][b].n \in SyncStats /\ job[r][b].try \in Nat /\ job[r][b].bad \in BOOLEAN
           /\ JobOK(b, job[r][b], synced)
BY SyncRunnerAssumption DEF RunnerInv, TypeOK, JobsOK, Job, Doc

LEMMA JobStartStep == ASSUME RunnerInv, NEW b \in Batch, JobStart(b) PROVE RunnerInv'
<1> DEFINE j == [job[run][b] EXCEPT !.st = "check"]
<1>1. run \in Run
  BY DEF RunnerInv, TypeOK, JobStart, Off
<1>2. j \in Job
  BY <1>1, JobFacts DEF Job
<1>3. JobOK(b, j, synced')
  <2>1. job[run][b].doc = 1 /\ Total(job[run][b].n) = 0
    BY <1>1, JobFacts DEF JobStart, JobOK
  <2>2. j.st = "check" /\ j.doc = 1 /\ Total(j.n) = 0
    BY <1>1, <2>1, JobFacts DEF Job
  <2> HIDE DEF j
  <2>3. Total(j.n) = j.doc - 1 /\ 1..j.doc - 1 = {}
    BY <2>2
  <2> QED BY <2>2, <2>3 DEF JobOK
<1>4. job' = [job EXCEPT ![run] = [job[run] EXCEPT ![b] = j]]
  BY <1>1 DEF JobStart, RunnerInv, TypeOK, Job
<1> HIDE DEF j
<1>5. synced' = synced /\ faults' \in 0..MaxFault /\ synced' \subseteq Batch \X Doc
  BY DEF JobStart, RunnerInv, TypeOK
<1>6. jobFrame
  BY DEF JobStart
<1> QED BY <1>1, <1>2, <1>3, <1>4, <1>5, <1>6, JobUpdate

LEMMA DocStartStep ==
    ASSUME RunnerInv, NEW r \in Run, NEW b \in Batch, DocStart(r, b) PROVE RunnerInv'
<1> DEFINE j == [job[r][b] EXCEPT !.st = "upsert"]
<1>1. j \in Job /\ j.st = "upsert" /\ j.doc = job[r][b].doc /\ j.n = job[r][b].n
      /\ j.bad = job[r][b].bad
  BY JobFacts DEF Job
<1>2. job' = [job EXCEPT ![r] = [job[r] EXCEPT ![b] = j]]
  BY DEF DocStart, RunnerInv, TypeOK, Job
<1> HIDE DEF j
<1>3. synced' = synced /\ faults' \in 0..MaxFault /\ synced' \subseteq Batch \X Doc
  BY DEF DocStart, RunnerInv, TypeOK
<1>4. JobOK(b, j, synced')
  BY <1>1, <1>3, JobFacts DEF JobOK, DocStart
<1>5. jobFrame
  BY DEF DocStart
<1> QED BY <1>1, <1>2, <1>3, <1>4, <1>5, JobUpdate

LEMMA JobStopStep ==
    ASSUME RunnerInv, NEW r \in Run, NEW b \in Batch, JobStop(r, b) PROVE RunnerInv'
<1> DEFINE j == IF r = run /\ ~Off THEN [job[r][b] EXCEPT !.st = "err"] ELSE NoJob
<1>1. j \in Job /\ j.st \in {"err", "none"}
  BY JobFacts, NoJobIsJob DEF Job, NoJob
<1>2. job' = [job EXCEPT ![r] = [job[r] EXCEPT ![b] = j]]
  BY DEF JobStop, Settled, RunnerInv, TypeOK, Job
<1> HIDE DEF j
<1>3. synced' = synced /\ faults' \in 0..MaxFault /\ synced' \subseteq Batch \X Doc
  BY SyncRunnerAssumption DEF JobStop, RunnerInv, TypeOK
<1>4. JobOK(b, j, synced')
  BY <1>1 DEF JobOK
<1>5. jobFrame
  BY DEF JobStop
<1> QED BY <1>1, <1>2, <1>3, <1>4, <1>5, JobUpdate

\* NextDoc keeps the documents behind it synced and counted, if the current one
\* now is, or the job is marked.
LEMMA NextDocStep ==
    ASSUME RunnerInv, NEW r \in Run, NEW b \in Batch, NEW n \in SyncStats, NEW bad \in BOOLEAN,
           job[r][b].st = "upsert",
           job' = NextDoc(r, b, n, bad),
           synced \subseteq synced', synced' \subseteq Batch \X Doc,
           jobFrame, faults' \in 0..MaxFault,
           ~bad => /\ ~job[r][b].bad
                   /\ Total(n) = Total(job[r][b].n) + 1
                   /\ <<b, job[r][b].doc>> \in synced'
    PROVE  RunnerInv'
<1> USE SyncRunnerAssumption
<1> DEFINE d0 == job[r][b].doc
           more == [st |-> "check", doc |-> d0 + 1, try |-> 0, n |-> n, bad |-> bad]
           last == IF r = run /\ ~Off
                   THEN [job[r][b] EXCEPT !.st = IF bad THEN "err" ELSE "ok", !.n = n, !.bad = bad]
                   ELSE NoJob
<1>1. d0 \in Nat /\ d0 \in 1..D
  BY JobFacts DEF Doc
<1>2. ~bad => Total(n) = d0 /\ \A d \in 1..d0 : <<b, d>> \in synced'
  <2> SUFFICES ASSUME ~bad PROVE Total(n) = d0 /\ \A d \in 1..d0 : <<b, d>> \in synced'
    OBVIOUS
  <2>1. Total(job[r][b].n) = d0 - 1 /\ \A d \in 1..d0 - 1 : <<b, d>> \in synced
    BY JobFacts DEF JobOK
  <2>2. \A d \in 1..d0 : d \in 1..d0 - 1 \/ d = d0
    BY <1>1
  <2> QED BY <1>1, <2>1, <2>2
<1>3. CASE d0 < D
  <2>1. job' = [job EXCEPT ![r] = [job[r] EXCEPT ![b] = more]]
    BY <1>3 DEF NextDoc, RunnerInv, TypeOK
  <2>2. more \in Job
    BY <1>1, <1>3 DEF Job, Doc
  <2>3. JobOK(b, more, synced')
    <3>1. more.st = "check" /\ more.doc - 1 = d0 /\ more.n = n /\ more.bad = bad
      BY <1>1
    <3> QED BY <3>1, <1>2 DEF JobOK
  <2> HIDE DEF more
  <2> QED BY <2>1, <2>2, <2>3, JobUpdate
<1>4. CASE ~(d0 < D)
  <2>1. job' = [job EXCEPT ![r] = [job[r] EXCEPT ![b] = last]]
    BY <1>4 DEF NextDoc, RunnerInv, TypeOK, Off
  <2>2. last \in Job /\ last.st \in {"ok", "err", "none"}
        /\ (last.st = "ok" => ~bad /\ last.n = n)
    BY JobFacts, NoJobIsJob DEF Job, NoJob
  <2> HIDE DEF last
  <2>3. JobOK(b, last, synced')
    <3>1. d0 = D
      BY <1>1, <1>4
    <3> QED BY <2>2, <3>1, <1>2 DEF JobOK, Doc
  <2> QED BY <2>1, <2>2, <2>3, JobUpdate
<1> QED BY <1>3, <1>4

LEMMA DocOkStep ==
    ASSUME RunnerInv, NEW r \in Run, NEW b \in Batch, DocOk(r, b) PROVE RunnerInv'
<1>1. job[r][b].n \in SyncStats /\ job[r][b].bad \in BOOLEAN /\ job[r][b].doc \in Doc
  BY JobFacts
<1>2. synced \subseteq synced' /\ synced' \subseteq Batch \X Doc
      /\ <<b, job[r][b].doc>> \in synced'
  BY <1>1 DEF DocOk, RunnerInv, TypeOK
<1>3. faults' \in 0..MaxFault /\ jobFrame /\ job[r][b].st = "upsert"
  BY DEF DocOk, RunnerInv, TypeOK
<1>4. PICK n \in Counts(r, b) : job' = NextDoc(r, b, n, job[r][b].bad)
  BY DEF DocOk
<1>5. n \in SyncStats /\ Total(n) = Total(job[r][b].n) + 1
  BY <1>1, CountsFacts
<1> QED BY <1>1, <1>2, <1>3, <1>4, <1>5, NextDocStep

LEMMA DocErrorStep ==
    ASSUME RunnerInv, NEW r \in Run, NEW b \in Batch, DocError(r, b) PROVE RunnerInv'
<1> USE SyncRunnerAssumption
<1>1. job[r][b] \in Job /\ job[r][b].n \in SyncStats /\ job[r][b].doc \in Doc /\ job[r][b].try \in Nat
  BY JobFacts
<1>2. synced \subseteq synced' /\ synced' \subseteq Batch \X Doc
  BY <1>1 DEF DocError, RunnerInv, TypeOK
<1>3. faults' \in 0..MaxFault /\ jobFrame /\ job[r][b].st = "upsert"
  BY DEF DocError, RunnerInv, TypeOK
<1>4. CASE job' = NextDoc(r, b, job[r][b].n, TRUE)
  BY <1>1, <1>2, <1>3, <1>4, NextDocStep
<1>5. CASE job' = [job EXCEPT ![r][b].st = "check", ![r][b].try = @ + 1]
  <2> DEFINE t == job[r][b].try + 1
             j == [job[r][b] EXCEPT !.st = "check", !.try = t]
  <2>0. t \in Nat
    BY <1>1
  <2>1. j \in Job /\ j.st = "check" /\ j.doc = job[r][b].doc /\ j.n = job[r][b].n
        /\ j.bad = job[r][b].bad
    <3> HIDE DEF t
    <3> QED BY <1>1, <2>0 DEF Job
  <2>2. job' = [job EXCEPT ![r] = [job[r] EXCEPT ![b] = j]]
    BY <1>5, <1>1 DEF RunnerInv, TypeOK, Job
  <2> HIDE DEF j
  <2>3. JobOK(b, j, synced')
    BY <2>1, <1>2, <1>3, JobFacts DEF JobOK
  <2> QED BY <2>1, <2>2, <2>3, <1>2, <1>3, JobUpdate
<1> QED BY <1>4, <1>5 DEF DocError

-----------------------------------------------------------------------------

LEMMA RunnerInvStep == RunnerInv /\ [Next]_vars => RunnerInv'
<1> SUFFICES ASSUME RunnerInv, [Next]_vars PROVE RunnerInv'
  OBVIOUS
<1>1. CASE Start
  BY <1>1, StartStep
<1>2. CASE SubmitBatch
  BY <1>2, SubmitStep
<1>3. CASE EndOfBatches \/ CollectEnd \/ Verify
  BY <1>3, LoopSteps
<1>4. CASE ReturnError
  BY <1>4, PlainReturnStep DEF ReturnError
<1>5. CASE Collect
  BY <1>5, CollectStep
<1>6. CASE SaveError
  BY <1>6, SaveErrorStep
<1>7. CASE Complete
  BY <1>7, CompleteStep
<1>8. CASE \E b \in Batch : JobStart(b)
  BY <1>8, JobStartStep
<1>9. CASE \E r \in Run, b \in Batch : JobStep(r, b)
  BY <1>9, DocStartStep, JobStopStep, DocOkStep, DocErrorStep DEF JobStep
<1>10. CASE Cancel \/ Lapse \/ ContextEnds \/ Crash
  BY <1>10, EnvironmentSteps
<1>11. CASE UNCHANGED vars
  <2>1. TypeOK'
    BY <1>11 DEF RunnerInv, TypeOK, vars, runVars
  <2>2. RunOK'
    BY <1>11 DEF RunnerInv, RunOK, Off, vars, runVars, BatchSynced
  <2> QED BY <1>11, <2>1, <2>2, QuietStep DEF vars, runVars
<1> QED BY <1>1, <1>2, <1>3, <1>4, <1>5, <1>6, <1>7, <1>8, <1>9, <1>10, <1>11 DEF Next, RunStep

\* The inductive invariant holds in every state of every behaviour.
THEOREM RunnerInvAlways == Spec => []RunnerInv
<1>1. Init => RunnerInv
  BY InitRunnerInv
<1>2. RunnerInv /\ [Next]_vars => RunnerInv'
  BY RunnerInvStep
<1> QED BY <1>1, <1>2, PTL DEF Spec

\* The checkpoint that collectResults stores never covers a document that is not
\* in the knowledge base.
THEOREM CkptPrefixAlways == Spec => []CkptPrefix
<1>1. RunnerInv => CkptPrefix
  BY DEF RunnerInv, StoreOK
<1> QED BY <1>1, RunnerInvAlways, PTL

\* A task that Run completes has synced its whole window, over all its runs.
THEOREM DoneCompleteAlways == Spec => []DoneComplete
<1>1. RunnerInv => DoneComplete
  BY DEF RunnerInv, DoneOK
<1> QED BY <1>1, RunnerInvAlways, PTL

-----------------------------------------------------------------------------
(* The first run of a task skips nothing: no document of its window is in   *)
(* the knowledge base before its own job has written it.                    *)

\* Job j is past document d: it has written it or given up.
Past(j, d) ==
    \/ j.st \in {"ok", "err"}
    \/ j.st \in {"check", "upsert"} /\ d < j.doc

FirstJob(b, j, set) ==
    /\ j.n.skipped = 0
    /\ \A d \in Doc : <<b, d>> \in set => Past(j, d)

NoLaterJobs == \A r \in Run, b \in Batch : r > run => job[r][b] = NoJob

FirstRunOK ==
    ~Off /\ run = 1 /\ faults = 0 =>
        /\ stats.skipped = 0 /\ store.stats.skipped = 0
        /\ \A b \in Batch : FirstJob(b, job[1][b], synced)
        /\ \A b \in Batch : b >= next => job[1][b] = NoJob

FirstInv ==
    /\ NoLaterJobs
    /\ run = 0 => synced = {} /\ store = NoCheckpoint /\ Off
    /\ FirstRunOK
    /\ done /\ run = 1 /\ faults = 0 => stats.skipped = 0

LEMMA InitFirstInv == Init => FirstInv
BY DEF Init, FirstInv, NoLaterJobs, FirstRunOK, Off

\* A step that replaces the record of one job, of a run that has started.
LEMMA FirstJobUpdate ==
    ASSUME RunnerInv, FirstInv, NEW r \in Run, NEW b \in Batch, NEW j \in Job,
           r <= run, job[r][b] # NoJob,
           job' = [job EXCEPT ![r] = [job[r] EXCEPT ![b] = j]],
           synced \subseteq synced', synced' \subseteq synced \cup {<<b, job[r][b].doc>>},
           jobFrame, faults' >= faults,
           ~Off /\ run = 1 /\ faults' = 0 /\ FirstJob(b, job[r][b], synced)
               => FirstJob(b, j, synced')
    PROVE  FirstInv'
<1> USE SyncRunnerAssumption
<1>0. /\ UNCHANGED <<store, done, run, phase, stats, next>>
      /\ run \in Nat /\ faults \in Nat /\ r \in Nat /\ 1 <= r
  BY DEF jobFrame, runVars, RunnerInv, TypeOK, Run
<1>1. \A q \in Run, c \in Batch : ~(q = r /\ c = b) => job'[q][c] = job[q][c]
  BY DEF RunnerInv, TypeOK
<1>2. job'[r][b] = j
  BY DEF RunnerInv, TypeOK
<1>3. NoLaterJobs'
  BY <1>0, <1>1 DEF FirstInv, NoLaterJobs
<1>4. run # 0
  BY <1>0
<1>5. FirstRunOK'
  <2> SUFFICES ASSUME ~Off', run' = 1, faults' = 0
               PROVE  /\ stats'.skipped = 0 /\ store'.stats.skipped = 0
                      /\ \A c \in Batch : FirstJob(c, job'[1][c], synced')
                      /\ \A c \in Batch : c >= next' => job'[1][c] = NoJob
    BY DEF FirstRunOK
  <2>1. ~Off /\ run = 1 /\ faults = 0 /\ r = 1
    <3>1. ~Off /\ run = 1 /\ r = 1
      BY <1>0 DEF Off
    <3>2. faults = 0
      BY <1>0, faults' = 0, faults' >= faults
    <3> QED BY <3>1, <3>2
  <2>2. /\ stats.skipped = 0 /\ store.stats.skipped = 0
        /\ \A c \in Batch : FirstJob(c, job[1][c], synced)
        /\ \A c \in Batch : c >= next => job[1][c] = NoJob
    BY <2>1 DEF FirstInv, FirstRunOK
  <2>3. ASSUME NEW c \in Batch PROVE FirstJob(c, job'[1][c], synced')
    <3>1. CASE c = b
      BY <3>1, <2>1, <2>2, <1>2
    <3>2. CASE c # b
      <4>1. job'[1][c] = job[1][c]
        BY <3>2, <1>1, <2>1
      <4>2. \A d : <<c, d>> \in synced' => <<c, d>> \in synced
        BY <3>2
      <4> QED BY <4>1, <4>2, <2>2 DEF FirstJob
    <3> QED BY <3>1, <3>2
  <2>4. \A c \in Batch : c >= next' => job'[1][c] = NoJob
    BY <2>1, <2>2, <1>0, <1>1
  <2> QED BY <2>2, <2>3, <2>4, <1>0
<1>6. done' /\ run' = 1 /\ faults' = 0 => stats'.skipped = 0
  BY <1>0 DEF FirstInv
<1> QED BY <1>0, <1>3, <1>4, <1>5, <1>6 DEF FirstInv

\* A step that ends the run, or keeps what the first run is about.
LEMMA FirstQuiet ==
    ASSUME RunnerInv, FirstInv, UNCHANGED <<synced, job, run, stats, store, faults, done>>,
           ~Off' => ~Off, run = 0 => Off', next' = next
    PROVE  FirstInv'
BY DEF FirstInv, NoLaterJobs, FirstRunOK

\* A run ends: some of its jobs go, and the first run is over.
LEMMA FirstReturn ==
    ASSUME RunnerInv, FirstInv, ~Off, phase' = "off", UNCHANGED <<synced, run, stats, faults>>,
           job' = [job EXCEPT ![run] = Abandoned(run)]
               \/ job' = [r \in Run |-> [b \in Batch |-> NoJob]],
           done' => done \/ (run = 1 /\ faults = 0 => stats.skipped = 0)
    PROVE  FirstInv'
<1>1. NoLaterJobs'
  <2> SUFFICES ASSUME NEW r \in Run, NEW b \in Batch, r > run PROVE job'[r][b] = NoJob
    BY DEF NoLaterJobs
  <2>1. r # run
    BY SyncRunnerAssumption DEF RunnerInv, TypeOK, Run
  <2> QED BY <2>1 DEF RunnerInv, TypeOK, FirstInv, NoLaterJobs
<1>2. run' # 0 /\ Off'
  BY SyncRunnerAssumption DEF RunnerInv, TypeOK, Off, Run
<1> QED BY <1>1, <1>2 DEF FirstInv, FirstRunOK

LEMMA FirstStart == RunnerInv /\ FirstInv /\ Start => FirstInv'
<1> SUFFICES ASSUME RunnerInv, FirstInv, Start PROVE FirstInv'
  OBVIOUS
<1> USE SyncRunnerAssumption
<1>1. run \in Nat /\ run' = run + 1 /\ job' = job /\ synced' = synced /\ ~done'
  BY DEF RunnerInv, TypeOK, Start
<1>2. NoLaterJobs'
  BY <1>1 DEF FirstInv, NoLaterJobs, Run
<1>3. FirstRunOK'
  <2> SUFFICES ASSUME run' = 1
               PROVE  /\ stats'.skipped = 0 /\ store'.stats.skipped = 0
                      /\ \A b \in Batch : FirstJob(b, job[1][b], {})
                      /\ \A b \in Batch : job[1][b] = NoJob
    BY <1>1 DEF FirstRunOK, FirstInv
  <2>1. run = 0
    BY <1>1
  <2>2. stats'.skipped = 0 /\ store'.stats.skipped = 0
    BY <2>1 DEF FirstInv, Start, StatsFromCheckpointState, Prepared, NoCheckpoint, NoStats
  <2>3. 1 \in Run
    BY <2>1 DEF RunnerInv, TypeOK, Start, Run
  <2>4. \A b \in Batch : job[1][b] = NoJob
    BY <2>1, <2>3 DEF FirstInv, NoLaterJobs
  <2> QED BY <2>2, <2>4 DEF FirstJob, NoJob, NoStats
<1> QED BY <1>1, <1>2, <1>3 DEF FirstInv

LEMMA FirstSubmit == RunnerInv /\ FirstInv /\ SubmitBatch => FirstInv'
<1> SUFFICES ASSUME RunnerInv, FirstInv, SubmitBatch PROVE FirstInv'
  OBVIOUS
<1> USE SyncRunnerAssumption
<1> DEFINE j == [NoJob EXCEPT !.st = "queued"]
<1>1. run \in Run /\ next \in Batch /\ next \in Nat /\ run \in Nat /\ run # 0 /\ next' = next + 1
  BY DEF RunnerInv, TypeOK, SubmitBatch, Batch, Run
<1>2. UNCHANGED <<synced, run, phase, stats, store, faults, done>> /\ ~Off
  BY DEF SubmitBatch, Off
<1>3. \A q \in Run, c \in Batch : job'[q][c] = IF q = run /\ c = next THEN j ELSE job[q][c]
  BY <1>1 DEF SubmitBatch, RunnerInv, TypeOK
<1>4. j.st = "queued" /\ j.n.skipped = 0
  BY DEF NoJob, NoStats
<1> HIDE DEF j
<1>5. NoLaterJobs'
  BY <1>1, <1>2, <1>3 DEF FirstInv, NoLaterJobs, Run
<1>6. FirstRunOK'
  <2> SUFFICES ASSUME run = 1, faults = 0
               PROVE  /\ stats.skipped = 0 /\ store.stats.skipped = 0
                      /\ \A b \in Batch : FirstJob(b, job'[1][b], synced)
                      /\ \A b \in Batch : b >= next' => job'[1][b] = NoJob
    BY <1>2 DEF FirstRunOK
  <2>1. /\ stats.skipped = 0 /\ store.stats.skipped = 0
        /\ \A b \in Batch : FirstJob(b, job[1][b], synced)
        /\ \A b \in Batch : b >= next => job[1][b] = NoJob
    BY <1>2 DEF FirstInv, FirstRunOK
  <2>2. FirstJob(next, j, synced)
    <3>1. FirstJob(next, NoJob, synced)
      BY <1>1, <2>1
    <3>2. \A d \in Doc : <<next, d>> \notin synced
      BY <3>1 DEF FirstJob, Past, NoJob
    <3> QED BY <3>2, <1>4 DEF FirstJob
  <2>3. \A b \in Batch : FirstJob(b, job'[1][b], synced)
    BY <1>1, <1>3, <2>1, <2>2
  <2>4. \A b \in Batch : b >= next' => job'[1][b] = NoJob
    BY <1>1, <1>3, <2>1 DEF Batch
  <2> QED BY <2>1, <2>3, <2>4
<1> QED BY <1>1, <1>2, <1>5, <1>6 DEF FirstInv

LEMMA FirstCollect == RunnerInv /\ FirstInv /\ Collect => FirstInv'
<1> SUFFICES ASSUME RunnerInv, FirstInv, Collect PROVE FirstInv'
  OBVIOUS
<1> USE SyncRunnerAssumption
<1>1. run \in Run /\ got \in Batch /\ ~Off /\ ~done /\ run # 0
  BY DEF RunnerInv, TypeOK, Collect, Collecting, Batch, Off, Run, RunOK
<1>2. UNCHANGED <<synced, job, run, phase, next, faults, done>>
  BY DEF Collect
<1>3. job[run][got].n \in SyncStats /\ stats \in SyncStats
  BY <1>1 DEF Job, RunnerInv, TypeOK
<1>4. stats'.skipped = stats.skipped + job[run][got].n.skipped
  BY <1>3, PlusFacts DEF Collect
<1>5. store' = store \/ store'.stats = stats'
  BY DEF Collect, NewState
<1>6. FirstRunOK'
  BY <1>1, <1>2, <1>4, <1>5 DEF FirstInv, FirstRunOK, FirstJob
<1> QED BY <1>1, <1>2, <1>6 DEF FirstInv, NoLaterJobs

LEMMA FirstRunSteps ==
    RunnerInv /\ FirstInv
        /\ (EndOfBatches \/ CollectEnd \/ Verify \/ ReturnError \/ SaveError \/ Complete)
    => FirstInv'
<1> SUFFICES ASSUME RunnerInv, FirstInv,
        EndOfBatches \/ CollectEnd \/ Verify \/ ReturnError \/ SaveError \/ Complete
             PROVE  FirstInv'
  OBVIOUS
<1>1. CASE EndOfBatches \/ Verify
  <2>1. ~Off /\ UNCHANGED <<synced, job, run, stats, store, faults, done, next>>
    BY <1>1 DEF EndOfBatches, Verify, Off
  <2> QED BY <2>1, FirstQuiet DEF FirstInv
<1>2. CASE ReturnError \/ SaveError \/ (CollectEnd /\ Return)
  <2>1. ~Off /\ Return
    BY <1>2 DEF ReturnError, SaveError, Collecting, CollectEnd, Off
  <2> QED BY <2>1, FirstReturn DEF Return
<1>3. CASE CollectEnd /\ ~Return
  <2>1. ~Off /\ UNCHANGED <<synced, job, run, stats, store, faults, done, next>>
    BY <1>3 DEF CollectEnd, Off
  <2> QED BY <2>1, FirstQuiet DEF FirstInv
<1>4. CASE Complete
  <2>1. ~Off /\ phase' = "off" /\ UNCHANGED <<synced, run, stats, faults>>
        /\ job' = [job EXCEPT ![run] = Abandoned(run)]
    BY <1>4 DEF Complete, Off
  <2>2. run = 1 /\ faults = 0 => stats.skipped = 0
    BY <2>1 DEF FirstInv, FirstRunOK
  <2> QED BY <2>1, <2>2, FirstReturn
<1> QED BY <1>1, <1>2, <1>3, <1>4

\* A job that is past the documents before its current one stays so.
LEMMA FirstJobSteps ==
    ASSUME RunnerInv, FirstInv, NEW r \in Run, NEW b \in Batch,
           JobStep(r, b) \/ (r = run /\ JobStart(b))
    PROVE  FirstInv'
<1> USE SyncRunnerAssumption
<1>0. job[r][b].st \in {"queued", "check", "upsert"} /\ job[r][b] # NoJob
  <2>1. job[r][b].st \in {"queued", "check", "upsert"}
    BY DEF JobStep, JobStart, DocStart, JobStop, DocOk, DocError
  <2> QED BY <2>1 DEF NoJob
<1>1. r <= run
  BY <1>0 DEF FirstInv, NoLaterJobs, RunnerInv, TypeOK, Run
<1>2. /\ job[r][b] \in Job /\ job[r][b].n \in SyncStats /\ job[r][b].doc \in Nat
      /\ job[r][b].doc \in Doc /\ job[r][b].try \in Nat /\ job[r][b].bad \in BOOLEAN
  BY JobFacts
<1>3. faults \in Nat /\ run \in Nat
  BY DEF RunnerInv, TypeOK
<1>4. CASE r = run /\ JobStart(b)
  <2> DEFINE j == [job[r][b] EXCEPT !.st = "check"]
  <2>1. j \in Job /\ j.n = job[r][b].n /\ j.st = "check"
    BY <1>2 DEF Job
  <2>2. job' = [job EXCEPT ![r] = [job[r] EXCEPT ![b] = j]]
    BY <1>4 DEF JobStart, RunnerInv, TypeOK, Job
  <2> HIDE DEF j
  <2>3. FirstJob(b, job[r][b], synced) => FirstJob(b, j, synced)
    BY <1>4, <2>1 DEF FirstJob, Past, JobStart
  <2>4. faults' >= faults /\ synced' = synced /\ jobFrame
    BY <1>3, <1>4 DEF JobStart
  <2> QED BY <1>0, <1>1, <2>1, <2>2, <2>3, <2>4, FirstJobUpdate
<1>5. CASE DocStart(r, b)
  <2> DEFINE j == [job[r][b] EXCEPT !.st = "upsert"]
  <2>1. j \in Job /\ j.n = job[r][b].n /\ j.st = "upsert" /\ j.doc = job[r][b].doc
    BY <1>2 DEF Job
  <2>2. job' = [job EXCEPT ![r] = [job[r] EXCEPT ![b] = j]]
    BY <1>5 DEF DocStart, RunnerInv, TypeOK, Job
  <2> HIDE DEF j
  <2>3. FirstJob(b, job[r][b], synced) => FirstJob(b, j, synced)
    BY <1>5, <2>1 DEF FirstJob, Past, DocStart
  <2>4. faults' >= faults /\ synced' = synced /\ jobFrame
    BY <1>3, <1>5 DEF DocStart
  <2> QED BY <1>0, <1>1, <2>1, <2>2, <2>3, <2>4, FirstJobUpdate
<1>6. CASE JobStop(r, b)
  <2> DEFINE j == IF r = run /\ ~Off THEN [job[r][b] EXCEPT !.st = "err"] ELSE NoJob
  <2>1. j \in Job /\ (r = run /\ ~Off => j.n = job[r][b].n /\ j.st = "err")
    BY <1>2, NoJobIsJob DEF Job
  <2>2. job' = [job EXCEPT ![r] = [job[r] EXCEPT ![b] = j]]
    BY <1>6 DEF JobStop, Settled, RunnerInv, TypeOK, Job
  <2> HIDE DEF j
  <2>3. run = 1 => r = run
    BY <1>1, <1>3 DEF Run
  <2>4. ~Off /\ run = 1 /\ FirstJob(b, job[r][b], synced) => FirstJob(b, j, synced)
    BY <2>1, <2>3 DEF FirstJob, Past
  <2>5. faults' >= faults /\ synced' = synced /\ jobFrame
    BY <1>3, <1>6 DEF JobStop
  <2> QED BY <1>0, <1>1, <2>1, <2>2, <2>4, <2>5, FirstJobUpdate
<1>7. CASE DocError(r, b)
  <2>1. /\ faults' = faults + 1 /\ faults' # 0 /\ faults' >= faults /\ jobFrame
        /\ synced \subseteq synced' /\ synced' \subseteq synced \cup {<<b, job[r][b].doc>>}
    BY <1>3, <1>7 DEF DocError
  <2>2. \E j \in Job : job' = [job EXCEPT ![r] = [job[r] EXCEPT ![b] = j]]
    <3>1. CASE job' = NextDoc(r, b, job[r][b].n, TRUE)
      <4> DEFINE more == [st |-> "check", doc |-> job[r][b].doc + 1, try |-> 0,
                          n |-> job[r][b].n, bad |-> TRUE]
                 last == IF r = run /\ ~Off
                         THEN [job[r][b] EXCEPT !.st = "err", !.n = job[r][b].n, !.bad = TRUE]
                         ELSE NoJob
      <4>1. CASE job[r][b].doc < D
        <5>1. more \in Job
          BY <1>2, <4>1 DEF Job, Doc
        <5>2. job' = [job EXCEPT ![r] = [job[r] EXCEPT ![b] = more]]
          BY <3>1, <4>1 DEF NextDoc, RunnerInv, TypeOK
        <5> QED BY <5>1, <5>2
      <4>2. CASE ~(job[r][b].doc < D)
        <5>1. last \in Job
          BY <1>2, NoJobIsJob DEF Job
        <5>2. job' = [job EXCEPT ![r] = [job[r] EXCEPT ![b] = last]]
          BY <3>1, <4>2 DEF NextDoc, RunnerInv, TypeOK, Off
        <5> QED BY <5>1, <5>2
      <4> QED BY <4>1, <4>2
    <3>2. CASE job' = [job EXCEPT ![r][b].st = "check", ![r][b].try = @ + 1]
      <4> DEFINE t == job[r][b].try + 1
                 j == [job[r][b] EXCEPT !.st = "check", !.try = t]
      <4>1. t \in Nat
        BY <1>2
      <4>2. j \in Job
        <5> HIDE DEF t
        <5> QED BY <1>2, <4>1 DEF Job
      <4>3. job' = [job EXCEPT ![r] = [job[r] EXCEPT ![b] = j]]
        BY <3>2, <1>2 DEF RunnerInv, TypeOK, Job
      <4> QED BY <4>2, <4>3
    <3> QED BY <1>7, <3>1, <3>2 DEF DocError
  <2>3. PICK j \in Job : job' = [job EXCEPT ![r] = [job[r] EXCEPT ![b] = j]]
    BY <2>2
  <2> QED BY <1>0, <1>1, <2>1, <2>3, FirstJobUpdate
<1>8. CASE DocOk(r, b)
  <2>1. PICK n \in Counts(r, b) : job' = NextDoc(r, b, n, job[r][b].bad)
    BY <1>8 DEF DocOk
  <2>2. n \in SyncStats /\ (<<b, job[r][b].doc>> \notin synced => n.skipped = job[r][b].n.skipped)
    BY <1>2, CountsFacts
  <2>3. /\ faults' = faults /\ faults' >= faults /\ jobFrame
        /\ synced' = synced \cup {<<b, job[r][b].doc>>}
    BY <1>3, <1>8 DEF DocOk
  <2>4. FirstJob(b, job[r][b], synced) => <<b, job[r][b].doc>> \notin synced
    BY <1>2, <1>8 DEF FirstJob, Past, DocOk
  <2>5. CASE job[r][b].doc < D
    <3> DEFINE j == [st |-> "check", doc |-> job[r][b].doc + 1, try |-> 0,
                     n |-> n, bad |-> job[r][b].bad]
    <3>1. j \in Job /\ j.n = n /\ j.st = "check" /\ j.doc = job[r][b].doc + 1
      BY <1>2, <2>2, <2>5 DEF Job, Doc
    <3>2. job' = [job EXCEPT ![r] = [job[r] EXCEPT ![b] = j]]
      BY <2>1, <2>5 DEF NextDoc, RunnerInv, TypeOK
    <3> HIDE DEF j
    <3>3. FirstJob(b, job[r][b], synced) => FirstJob(b, j, synced')
      <4> SUFFICES ASSUME FirstJob(b, job[r][b], synced), NEW d \in Doc, <<b, d>> \in synced'
                   PROVE  Past(j, d)
        BY <2>2, <2>4, <3>1 DEF FirstJob
      <4>1. d = job[r][b].doc \/ <<b, d>> \in synced
        BY <2>3
      <4>2. d \in Nat /\ (d = job[r][b].doc \/ d < job[r][b].doc)
        BY <1>8, <4>1 DEF FirstJob, Past, DocOk, Doc
      <4> QED BY <1>2, <3>1, <4>2 DEF Past
    <3> QED BY <1>0, <1>1, <2>3, <3>1, <3>2, <3>3, FirstJobUpdate
  <2>6. CASE ~(job[r][b].doc < D)
    <3> DEFINE j == IF r = run /\ ~Off
                    THEN [job[r][b] EXCEPT !.st = IF job[r][b].bad THEN "err" ELSE "ok",
                                           !.n = n, !.bad = job[r][b].bad]
                    ELSE NoJob
    <3>1. j \in Job /\ (r = run /\ ~Off => j.n = n /\ j.st \in {"ok", "err"})
      BY <1>2, <2>2, NoJobIsJob DEF Job
    <3>2. job' = [job EXCEPT ![r] = [job[r] EXCEPT ![b] = j]]
      BY <2>1, <2>6 DEF NextDoc, RunnerInv, TypeOK, Off
    <3> HIDE DEF j
    <3>3. run = 1 => r = run
      BY <1>1, <1>3 DEF Run
    <3>4. ~Off /\ run = 1 /\ FirstJob(b, job[r][b], synced) => FirstJob(b, j, synced')
      BY <2>2, <2>4, <3>1, <3>3 DEF FirstJob, Past
    <3> QED BY <1>0, <1>1, <2>3, <3>1, <3>2, <3>4, FirstJobUpdate
  <2> QED BY <2>5, <2>6
<1> QED BY <1>4, <1>5, <1>6, <1>7, <1>8 DEF JobStep

LEMMA FirstEnvironment ==
    RunnerInv /\ FirstInv /\ (Cancel \/ Lapse \/ ContextEnds \/ Crash \/ UNCHANGED vars)
    => FirstInv'
<1> SUFFICES ASSUME RunnerInv, FirstInv, Cancel \/ Lapse \/ ContextEnds \/ Crash \/ UNCHANGED vars
             PROVE  FirstInv'
  OBVIOUS
<1>1. CASE Crash
  BY <1>1, FirstReturn DEF Crash
<1>2. CASE Cancel \/ Lapse \/ ContextEnds \/ UNCHANGED vars
  <2>1. UNCHANGED <<synced, job, run, stats, store, faults, done, next, phase>>
    BY <1>2 DEF Cancel, Lapse, ContextEnds, vars, runVars
  <2> QED BY <2>1, FirstQuiet DEF FirstInv, Off
<1> QED BY <1>1, <1>2

LEMMA FirstInvStep == RunnerInv /\ FirstInv /\ [Next]_vars => FirstInv'
<1> SUFFICES ASSUME RunnerInv, FirstInv, [Next]_vars PROVE FirstInv'
  OBVIOUS
<1>1. CASE \E b \in Batch : JobStart(b)
  <2>1. run \in Run
    BY <1>1 DEF JobStart, Off, RunnerInv, TypeOK
  <2> QED BY <1>1, <2>1, FirstJobSteps
<1>2. CASE \E r \in Run, b \in Batch : JobStep(r, b)
  BY <1>2, FirstJobSteps
<1> QED BY <1>1, <1>2, FirstStart, FirstSubmit, FirstCollect, FirstRunSteps, FirstEnvironment
     DEF Next, RunStep

\* A document counts once among the statistics that Run hands to CompleteSync,
\* over all the runs of its task, and as changed when the first run goes through.
THEOREM StatsExactAlways == Spec => []StatsExact
<1>1. Init => FirstInv
  BY InitFirstInv
<1>2. RunnerInv /\ FirstInv /\ [Next]_vars => FirstInv'
  BY FirstInvStep
<1>3. RunnerInv /\ FirstInv => StatsExact
  BY DEF RunnerInv, TypeOK, DoneOK, FirstInv, StatsExact, SyncStats, Total
<1> QED BY <1>1, <1>2, <1>3, RunnerInvAlways, PTL DEF Spec

\* Between prepareCheckpoint and DeleteSyncCheckpoint no step moves the stored
\* checkpoint back.
THEOREM CkptForwardAlways == Spec => CkptForward
<1> DEFINE Fwd == \/ store'.pos >= store.pos /\ store'.seq >= store.seq
                  \/ phase = "complete" /\ store' = NoCheckpoint
<1>1. RunnerInv /\ [Next]_vars => [Fwd]_vars
  <2> SUFFICES ASSUME RunnerInv, [Next]_vars PROVE Fwd \/ UNCHANGED vars
    OBVIOUS
  <2> USE SyncRunnerAssumption
  <2>0. store.pos \in 0..N /\ store.seq \in Nat
    BY DEF RunnerInv, TypeOK, Checkpoint
  <2>1. CASE store' = store
    BY <2>0, <2>1
  <2>2. CASE Start
    <3>1. store' = [NoCheckpoint EXCEPT !.seq = 1] \/ store' = store
      BY <2>2 DEF Start, Prepared
    <3>2. store.seq = 0 => store.pos = 0
      BY DEF RunnerInv, StoreOK
    <3> QED BY <2>0, <2>2, <3>1, <3>2 DEF Start, Prepared, NoCheckpoint
  <2>3. CASE Collect \/ SaveError
    <3>1. store' \in {store, NewState}
      BY <2>3 DEF Collect, SaveError
    <3>2. ~Off
      BY <2>3 DEF Collect, SaveError, Collecting, Off
    <3>3. state = store /\ store.pos < got
      BY <3>2 DEF RunnerInv, RunOK
    <3>4. NewState.pos = got /\ NewState.seq = store.seq + 1
      BY <3>3 DEF NewState
    <3>5. got \in Nat
      BY DEF RunnerInv, TypeOK
    <3> QED BY <2>0, <3>1, <3>3, <3>4, <3>5
  <2>4. CASE Complete
    BY <2>0, <2>4 DEF Complete
  <2> QED BY <2>1, <2>2, <2>3, <2>4
       DEF Next, RunStep, SubmitBatch, EndOfBatches, ReturnError, CollectEnd, Verify,
           JobStart, JobStep, DocStart, JobStop, DocOk, DocError, jobFrame, Cancel, Lapse,
           ContextEnds, Crash, vars
<1> QED BY <1>1, RunnerInvAlways, PTL DEF Spec, CkptForward
=============================================================================
