--------------------------- MODULE CompileBacklog ---------------------------
(***************************************************************************)
(* Dataset-level knowledge compilation (internal/ingestion/                *)
(* knowledge_compile): the scheduling row of one dataset - its backlog,    *)
(* the entries in flight, the claim and its lease - the pipelines and      *)
(* deletes that publish document events, and the workers that claim a      *)
(* batch, merge it into the dataset's products section by locked section   *)
(* and acknowledge it.                                                     *)
(*                                                                         *)
(* backlog_doc_ids and inflight_doc_ids are ordered lists; here they are   *)
(* sets of entries with a position.  What a merge computes is left out:    *)
(* the dataset's products are the compiled chunks of each document that    *)
(* they name as their sources.  Sources accumulate until the document is   *)
(* deleted; the text of a shared row, which a later batch overwrites, is   *)
(* left out.  So are the tombstone map, which decides nothing but its own  *)
(* cleanup, RebuildDataset, which has no caller, and the navigation tree,  *)
(* which is written in a locked section of its own before the structure    *)
(* merge.                                                                  *)
(***************************************************************************)
EXTENDS Naturals, FiniteSets

CONSTANTS
    Doc,
    Worker,      \* Consumer.Run loops, of any ingestor process
    BatchSize,   \* claimBatchSize
    MaxWrite,    \* bound on pipeline runs and clears
    MaxFault     \* bound on crashes, failed calls and stalled heartbeats

ASSUME CompileBacklogAssumption ==
    /\ Worker # {}
    /\ BatchSize \in Nat \ {0}
    /\ MaxWrite \in Nat
    /\ MaxFault \in Nat

VARIABLES
    backlog, inflight, tail,   \* entries; tail: the last position given out
    token,       \* claim_token: the number of the claim, 0 when there is none
    live,        \* claim_expires_at is in the future
    claims,      \* claims made so far
    state,       \* the lifecycle state the status API shows
    product,     \* the compiled chunks of a document in the index
    writing,     \* the version a pipeline has written the first chunks of
    merged,      \* the chunks of a document that a kind of dataset product names
    due,         \* events that are about to be published
    writes, gone, published,
    worker,
    faults,
    wtoken,      \* ghost: the claim of the last locked write
    applied,     \* ghost: events in the log whose merge is complete
    last,        \* ghost: the last version of a document that is completely written
    lost,        \* ghost: documents with an event that was not published, and those
                 \* a pipeline wrote or published after the event of their delete
    overtaken    \* ghost: documents of which a reclaim put an older event behind
                 \* a newer one

row == <<backlog, inflight, tail, token, live, claims, state>>
index == <<product, merged, wtoken>>
source == <<due, writing, last, writes, gone, published>>
ghosts == <<lost, overtaken>>
vars == <<row, index, source, worker, faults, applied, ghosts>>

Kind == {"structure", "wiki"}
Part == Kind \cup {"graph"}
Chunk == [ver : Nat, kind : Kind, part : {1, 2}]   \* a version takes two bulks
NoVersion == [ver |-> 0, kind |-> "none"]
Version == [ver : Nat, kind : Kind] \cup {NoVersion}
Event == [doc : Doc, ev : {"completed", "deleted"}, kind : Kind \cup {"none"}]
Entry == [n : Nat, pos : Nat, doc : Doc, ev : {"completed", "deleted"},
          kind : Kind \cup {"none"}]

Idle == [pc |-> "idle", token |-> 0, batch |-> {}, loaded |-> [d \in Doc |-> {}],
         hb |-> FALSE]

WorkerState ==
    [pc : {"idle", "reclaim", "purge", "strip", "load", "structure", "wiki", "graph", "ack"},
     token : Nat, batch : SUBSET Entry, loaded : [Doc -> SUBSET Chunk], hb : BOOLEAN]

TypeOK ==
    /\ backlog \subseteq Entry /\ inflight \subseteq Entry /\ tail \in Nat
    /\ token \in Nat /\ live \in BOOLEAN /\ claims \in Nat
    /\ state \in {"idle", "pending", "running", "completed"}
    /\ product \in [Doc -> SUBSET Chunk]
    /\ writing \in [Doc -> Version] /\ last \in [Doc -> Nat]
    /\ merged \in [Part -> [Doc -> SUBSET Chunk]]
    /\ due \subseteq Event
    /\ writes \in 0..MaxWrite /\ gone \subseteq Doc /\ published \in Nat
    /\ worker \in [Worker -> WorkerState]
    /\ faults \in 0..MaxFault
    /\ wtoken \in Nat /\ applied \subseteq Nat /\ lost \subseteq Doc /\ overtaken \subseteq Doc

Init ==
    /\ backlog = {} /\ inflight = {} /\ tail = 0
    /\ token = 0 /\ live = FALSE /\ claims = 0 /\ state = "idle"
    /\ product = [d \in Doc |-> {}]
    /\ writing = [d \in Doc |-> NoVersion] /\ last = [d \in Doc |-> 0]
    /\ merged = [k \in Part |-> [d \in Doc |-> {}]]
    /\ due = {} /\ writes = 0 /\ gone = {} /\ published = 0
    /\ worker = [w \in Worker |-> Idle]
    /\ faults = 0
    /\ wtoken = 0 /\ applied = {} /\ lost = {} /\ overtaken = {}

Fault == faults < MaxFault /\ faults' = faults + 1

-----------------------------------------------------------------------------
(* Documents.                                                              *)

\* d is deleted, and no event of the delete is still to come.
Orphan(d) == {d} \cap {g \in gone : \A f \in due : f.doc = g => f.ev = "completed"}

\* One bulk of a pipeline, next to the chunks that are there.
Insert(d, c) ==
    /\ product' = [product EXCEPT ![d] = @ \cup {c}]
    /\ lost' = lost \cup Orphan(d)

\* A pipeline inserts the chunks of a new version of d in bulks; one that was
\* running when d was deleted does so too.
Write(d, k) ==
    /\ writes < MaxWrite
    /\ writing[d] = NoVersion
    /\ \A e \in due : e.doc = d => e.ev = "deleted"
    /\ writes' = writes + 1
    /\ writing' = [writing EXCEPT ![d] = [ver |-> writes + 1, kind |-> k]]
    /\ Insert(d, [ver |-> writes + 1, kind |-> k, part |-> 1])
    /\ UNCHANGED <<row, merged, wtoken, due, last, gone, published, worker, faults,
                   applied, overtaken>>

\* The last bulk; the event follows.
WriteRest(d) ==
    LET v == writing[d] IN
    /\ v # NoVersion
    /\ writing' = [writing EXCEPT ![d] = NoVersion]
    /\ Insert(d, [ver |-> v.ver, kind |-> v.kind, part |-> 2])
    /\ last' = [last EXCEPT ![d] = v.ver]
    /\ due' = due \cup {[doc |-> d, ev |-> "completed", kind |-> v.kind]}
    /\ UNCHANGED <<row, merged, wtoken, writes, gone, published, worker, faults,
                   applied, overtaken>>

\* An insert fails or the pipeline is canceled: its chunks stay, without an event.
WriteFails(d) ==
    /\ writing[d] # NoVersion
    /\ writing' = [writing EXCEPT ![d] = NoVersion]
    /\ UNCHANGED <<row, index, due, last, writes, gone, published, worker, faults,
                   applied, ghosts>>

\* A re-parse, a stop or a reset removes the chunks of d, without an event.
Clear(d) ==
    /\ writes < MaxWrite
    /\ product[d] # {}
    /\ writes' = writes + 1
    /\ product' = [product EXCEPT ![d] = {}]
    /\ UNCHANGED <<row, merged, wtoken, due, writing, last, gone, published, worker, faults,
                   applied, ghosts>>

\* deleteDocEngineData removes the chunks of d; the event follows, unless the
\* process has no publisher or the delete is a connector's.
Delete(d) ==
    /\ d \notin gone
    /\ gone' = gone \cup {d}
    /\ product' = [product EXCEPT ![d] = {}]
    /\ \/ /\ due' = due \cup {[doc |-> d, ev |-> "deleted", kind |-> "none"]}
          /\ UNCHANGED lost
       \/ /\ lost' = lost \cup {d}
          /\ UNCHANGED due
    /\ UNCHANGED <<row, merged, wtoken, writing, last, writes, published, worker, faults,
                   applied, overtaken>>

\* publish: the entry is appended under the row lock.  A pipeline may publish
\* after the delete of its document did, or without it.
Publish(e) ==
    /\ due' = due \ {e}
    /\ published' = published + 1
    /\ tail' = tail + 1
    /\ backlog' = backlog \cup {[n |-> published + 1, pos |-> tail + 1, doc |-> e.doc,
                                 ev |-> e.ev, kind |-> e.kind]}
    /\ state' = IF state = "running" THEN state ELSE "pending"
    /\ lost' = lost \cup IF e.ev = "completed" THEN Orphan(e.doc) ELSE {}
    /\ UNCHANGED <<inflight, token, live, claims, index, writing, last, writes, gone, worker,
                   faults, applied, overtaken>>

\* A failed publish is only logged.
PublishFails(e) ==
    /\ Fault
    /\ due' = due \ {e}
    /\ lost' = lost \cup {e.doc}
    /\ UNCHANGED <<row, index, writing, last, writes, gone, published, worker, applied,
                   overtaken>>

-----------------------------------------------------------------------------
(* Claims.                                                                 *)

\* The place of entry e in a list.
Place(e, list) == Cardinality({f \in list : f.pos <= e.pos})

\* The entry of a batch that decides what happens to document d.
Last(d, batch) == CHOOSE e \in batch : e.doc = d /\ \A f \in batch : f.doc = d => f.pos <= e.pos

\* Mutant: the first event of a document in the batch decides.
FirstEvent(d, batch) ==
    CHOOSE e \in batch : e.doc = d /\ \A f \in batch : f.doc = d => f.pos >= e.pos

\* byDoc of processBatch: the last event in append order wins.
WinEvent(d, batch) == Last(d, batch)

Docs(batch) == {e.doc : e \in batch}

Deleted(batch) == {d \in Docs(batch) : WinEvent(d, batch).ev = "deleted"}

\* claimRow moves the first entries of a list to inflight and stamps the claim.
ClaimRow(w, list, leftover) ==
    LET batch == {e \in list : Place(e, list) <= BatchSize} IN
    /\ backlog' = list \ batch
    /\ inflight' = leftover \cup batch
    /\ token' = claims + 1 /\ claims' = claims + 1
    /\ live' = TRUE
    /\ state' = "running"
    /\ worker' = [worker EXCEPT ![w] =
                    [pc |-> IF Deleted(batch) = {} THEN "load" ELSE "purge", token |-> claims + 1,
                     batch |-> batch, loaded |-> [d \in Doc |-> {}], hb |-> TRUE]]

\* Claim after a notify, or TryClaim with a ready backlog.
Claim(w) ==
    /\ worker[w].pc = "idle"
    /\ ~ live /\ backlog # {}
    /\ ClaimRow(w, backlog, inflight)
    /\ UNCHANGED <<tail, index, source, faults, applied, ghosts>>

\* Mutant: only a dataset that is shown as running is swept.
ReclaimScanRunning(w) ==
    /\ worker[w].pc = "idle" /\ state = "running"
    /\ ~ live /\ token # 0 /\ inflight # {} /\ backlog = {}
    /\ worker' = [worker EXCEPT ![w].pc = "reclaim"]
    /\ UNCHANGED <<row, index, source, faults, applied, ghosts>>

\* TryClaim finds no ready backlog, and reclaimOne an expired claim; neither
\* read takes a lock.
ReclaimScan(w) ==
    /\ worker[w].pc = "idle"
    /\ ~ live /\ token # 0 /\ inflight # {} /\ backlog = {}
    /\ worker' = [worker EXCEPT ![w].pc = "reclaim"]
    /\ UNCHANGED <<row, index, source, faults, applied, ghosts>>

\* Mutant: the expired claim is cleared and its entries with it.
RequeueNothing == {}

\* The entries in flight, appended to the backlog.
Requeued == {[e EXCEPT !.pos = tail + Place(e, inflight)] : e \in inflight}

\* reclaimOne and claimRow under the row lock.
Reclaim(w) ==
    /\ worker[w].pc = "reclaim"
    /\ ~ live /\ inflight # {}
    /\ ClaimRow(w, backlog \cup Requeued, {})
    /\ tail' = tail + Cardinality(inflight)
    /\ overtaken' = overtaken \cup (Docs(backlog) \cap Docs(inflight))
    /\ UNCHANGED <<index, source, faults, applied, lost>>

\* The claim was renewed or taken over since.
ReclaimLost(w) ==
    /\ worker[w].pc = "reclaim"
    /\ live \/ inflight = {}
    /\ worker' = [worker EXCEPT ![w] = Idle]
    /\ UNCHANGED <<row, index, source, faults, applied, ghosts>>

-----------------------------------------------------------------------------
(* Leases.                                                                 *)

Working(w) == worker[w].pc \notin {"idle", "reclaim"}

\* The lease runs out: nobody refreshes it, or its refresh is late.
Expire ==
    /\ live /\ \A w \in Worker : ~ (Working(w) /\ worker[w].hb /\ worker[w].token = token)
    /\ live' = FALSE
    /\ UNCHANGED <<backlog, inflight, tail, token, claims, state, index, source, worker,
                   faults, applied, ghosts>>

ExpireEarly ==
    /\ live /\ Fault
    /\ live' = FALSE
    /\ UNCHANGED <<backlog, inflight, tail, token, claims, state, index, source, worker,
                   applied, ghosts>>

\* TouchClaim of the heartbeat: by token, an expired lease too.
TouchClaim(w) ==
    /\ Working(w) /\ worker[w].hb
    /\ \/ /\ worker[w].token = token /\ ~ live
          /\ live' = TRUE /\ UNCHANGED worker
       \/ /\ worker[w].token # token
          /\ worker' = [worker EXCEPT ![w].hb = FALSE] /\ UNCHANGED live
    /\ UNCHANGED <<backlog, inflight, tail, token, claims, state, index, source, faults,
                   applied, ghosts>>

\* The touch fails; the heartbeat ends.
TouchFails(w) ==
    /\ Working(w) /\ worker[w].hb /\ Fault
    /\ worker' = [worker EXCEPT ![w].hb = FALSE]
    /\ UNCHANGED <<row, index, source, applied, ghosts>>

-----------------------------------------------------------------------------
(* processBatch: its locked sections, in order.                            *)

Goto(w, pc) == worker' = [worker EXCEPT ![w].pc = pc]

\* Mutant: the claim is not compared inside the lock.
UnfencedWrite(w) == wtoken' = worker[w].token

\* withWriteLock: the claim is compared under the row lock, then the write runs.
WithWriteLock(w) == worker[w].token = token /\ wtoken' = worker[w].token

rest == <<row, source, faults, ghosts>>

\* DeleteDocLevelForDocs
Purge(w) ==
    /\ worker[w].pc = "purge" /\ WithWriteLock(w)
    /\ product' = [d \in Doc |-> IF d \in Deleted(worker[w].batch) THEN {} ELSE product[d]]
    /\ Goto(w, "strip")
    /\ UNCHANGED <<merged, applied, rest>>

\* StripMergedSources; DeleteStructureForDocs then finds nothing of these
\* documents.
Strip(w) ==
    /\ worker[w].pc = "strip" /\ WithWriteLock(w)
    /\ merged' = [k \in Part |-> [d \in Doc |->
                    IF k \in Kind /\ d \in Deleted(worker[w].batch) THEN {} ELSE merged[k][d]]]
    /\ Goto(w, "load")
    /\ UNCHANGED <<product, applied, rest>>

\* LoadDocProducts and productsForVariants, without the lock: the chunks of the
\* winning event's kind, of whatever version.
Load(w) ==
    LET batch == worker[w].batch
        wanted(d) == IF d \in Docs(batch) \ Deleted(batch)
                     THEN {c \in product[d] : c.kind = WinEvent(d, batch).kind}
                     ELSE {} IN
    /\ worker[w].pc = "load"
    /\ worker' = [worker EXCEPT ![w].pc = "structure",
                                ![w].loaded = [d \in Doc |-> wanted(d)]]
    /\ UNCHANGED <<index, applied, rest>>

\* The sources of the rows of kind k are the ones there were and the batch's.
MergeKind(w, k) ==
    merged' = [merged EXCEPT ![k] = [d \in Doc |->
                  @[d] \cup {c \in worker[w].loaded[d] : c.kind = k}]]

\* mergeStructureDataset
MergeStructure(w) ==
    /\ worker[w].pc = "structure" /\ WithWriteLock(w)
    /\ MergeKind(w, "structure")
    /\ Goto(w, "wiki")
    /\ UNCHANGED <<product, applied, rest>>

\* WriteMerged
WriteMerged(w) ==
    /\ worker[w].pc = "wiki" /\ WithWriteLock(w)
    /\ MergeKind(w, "wiki")
    /\ worker' = [worker EXCEPT ![w].pc = "graph", ![w].loaded = [d \in Doc |-> {}]]
    /\ UNCHANGED <<product, applied, rest>>

\* removeEntries: by document and event type.
Matching(list, batch) == {e \in list : \E f \in batch : f.doc = e.doc /\ f.ev = e.ev}

Numbers(list) == {e.n : e \in list}

\* ProjectWikiGraph; the batch is merged.
ProjectWikiGraph(w) ==
    /\ worker[w].pc = "graph" /\ WithWriteLock(w)
    /\ merged' = [merged EXCEPT !["graph"] = merged["wiki"]]
    /\ applied' = applied \cup Numbers(Matching(inflight, worker[w].batch))
    /\ Goto(w, "ack")
    /\ UNCHANGED <<product, rest>>

\* A locked section finds another claim: errClaimSuperseded.
Superseded(w) ==
    /\ worker[w].pc \in {"purge", "strip", "structure", "wiki", "graph"}
    /\ worker[w].token # token
    /\ worker' = [worker EXCEPT ![w] = Idle]
    /\ UNCHANGED <<index, applied, rest>>

\* A read or a write fails, the worker is shut down or its process ends: the
\* batch stays in flight.
Abandon(w) ==
    /\ worker[w].pc # "idle" /\ Fault
    /\ worker' = [worker EXCEPT ![w] = Idle]
    /\ UNCHANGED <<row, index, source, applied, ghosts>>

\* Ack, or its refusal.
Ack(w) ==
    LET left == inflight \ Matching(inflight, worker[w].batch) IN
    /\ worker[w].pc = "ack"
    /\ IF worker[w].token = token
       THEN /\ inflight' = left
            /\ token' = IF left = {} THEN 0 ELSE token
            /\ live' = (left # {} /\ live)
            /\ state' = IF backlog = {} THEN "completed" ELSE "pending"
            /\ applied' = applied \ Numbers(inflight \ left)
       ELSE UNCHANGED <<inflight, token, live, state, applied>>
    /\ worker' = [worker EXCEPT ![w] = Idle]
    /\ UNCHANGED <<backlog, tail, claims, index, source, faults, ghosts>>

\* The heartbeat failed before the batch was done: no Ack.
SkipAck(w) ==
    /\ worker[w].pc = "ack" /\ ~ worker[w].hb
    /\ worker' = [worker EXCEPT ![w] = Idle]
    /\ UNCHANGED <<index, applied, rest>>

WorkerStep(w) ==
    \/ Claim(w) \/ ReclaimScan(w) \/ Reclaim(w) \/ ReclaimLost(w)
    \/ Purge(w) \/ Strip(w) \/ Load(w) \/ MergeStructure(w) \/ WriteMerged(w)
    \/ ProjectWikiGraph(w) \/ Superseded(w) \/ Ack(w) \/ SkipAck(w)

Next ==
    \/ \E d \in Doc : \/ \E k \in Kind : Write(d, k)
                     \/ WriteRest(d) \/ WriteFails(d) \/ Clear(d) \/ Delete(d)
    \/ \E e \in due : Publish(e) \/ PublishFails(e)
    \/ Expire \/ ExpireEarly
    \/ \E w \in Worker : WorkerStep(w) \/ TouchClaim(w) \/ TouchFails(w) \/ Abandon(w)

Spec == Init /\ [][Next]_vars

\* Run's tickers fire, a batch that was started goes on, a lease that nobody
\* refreshes runs out and an event that is due is published.
FairSpec ==
    /\ Spec
    /\ WF_vars(\E e \in due : Publish(e))
    /\ WF_vars(Expire)
    /\ \A w \in Worker : WF_vars(WorkerStep(w))

-----------------------------------------------------------------------------
(* Properties.                                                             *)

\* Locked writes never go back to an earlier claim: once a worker has written under
\* its claim, no worker whose lease ran out and was taken over writes again.
WriteFence == [][wtoken' >= wtoken]_vars

Quiet == backlog = {} /\ inflight = {} /\ due = {}

\* Nothing of a deleted document is left; of any other, every chunk of its last
\* complete version that is still in the index is merged.
Reflected(d) ==
    /\ merged["graph"][d] = merged["wiki"][d]
    /\ IF d \in gone
       THEN \A k \in Part : merged[k][d] = {}
       ELSE \A c \in product[d] : c.ver = last[d] => c \in merged[c.kind][d]

\* When the backlog is drained the dataset's products hold all of the last version of
\* every document, of whichever kind, and nothing of a deleted one, through half-written
\* versions, chunks cleared under a batch, crashes, takeovers, retries and the leftovers
\* of dead claims, but for a document whose event was lost or a reclaim that put an
\* older event behind a newer one.  (What an earlier version contributed stays.)
Converged == Quiet => \A d \in Doc \ (lost \cup overtaken) : Reflected(d)

\* The same whatever is reclaimed: "the last event for a given doc (by append order)
\* wins", as the comment on BacklogEntry has it.
LastEventWins == Quiet => \A d \in Doc \ lost : Reflected(d)

Log == INSTANCE EventLog WITH open <- Numbers(backlog \cup inflight)

\* The backlog is a log no event leaves before a batch that covers it has been merged:
\* no claim, reclaim, lost lease, failed batch or acknowledgement drops one.
ImplementsLog == Log!Spec

\* Every event that is published leaves the log, whoever dies holding it.
Drains == []<>(backlog = {} /\ inflight = {})
=============================================================================
