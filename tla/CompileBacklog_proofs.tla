------------------------ MODULE CompileBacklog_proofs ------------------------
(***************************************************************************)
(* Proofs about the compilation backlog, for any number of documents,      *)
(* workers, pipeline runs and faults and any batch size: types, the fence  *)
(* of the locked writes, that the scheduling row implements EventLog, and  *)
(* that the dataset's products converge.                                   *)
(***************************************************************************)
EXTENDS CompileBacklog, FiniteSetTheorems, WellFoundedInduction, TLAPS

-----------------------------------------------------------------------------
(* Types.  Positions are cardinalities of the lists, so the lists are      *)
(* finite.                                                                 *)

TypeInv == TypeOK /\ IsFiniteSet(backlog) /\ IsFiniteSet(inflight)

PC == {"idle", "reclaim", "purge", "strip", "load", "structure", "wiki", "graph", "ack"}

\* Entry e at position p.
At(e, p) == [e EXCEPT !.pos = p]

LEMMA EntryAt ==
    ASSUME NEW e \in Entry, NEW p \in Nat
    PROVE  At(e, p) \in Entry /\ At(e, p).n = e.n
BY DEF At, Entry

LEMMA RequeuedFacts ==
    ASSUME inflight \subseteq Entry, IsFiniteSet(inflight), tail \in Nat
    PROVE  /\ \A e \in inflight : Place(e, inflight) \in Nat
           /\ Requeued = {At(e, tail + Place(e, inflight)) : e \in inflight}
           /\ Requeued \subseteq Entry /\ IsFiniteSet(Requeued)
<1>1. ASSUME NEW e \in inflight PROVE Place(e, inflight) \in Nat
  <2> DEFINE S == {f \in inflight : f.pos <= e.pos}
  <2>1. S \in SUBSET inflight
    OBVIOUS
  <2>2. IsFiniteSet(S)
    BY <2>1, FS_Subset
  <2> QED BY <2>2, FS_CardinalityType DEF Place
<1>2. Requeued = {At(e, tail + Place(e, inflight)) : e \in inflight}
  BY DEF Requeued, At
<1>3. \A e \in inflight : At(e, tail + Place(e, inflight)) \in Entry
  BY <1>1, EntryAt
<1>4. Requeued \subseteq Entry
  BY <1>2, <1>3
<1>5. IsFiniteSet(Requeued)
  <2> DEFINE g == [e \in inflight |-> At(e, tail + Place(e, inflight))]
  <2>1. g \in Surjection(inflight, Requeued)
    BY <1>2 DEF Surjection
  <2> HIDE DEF g
  <2> QED BY <2>1, FS_Surjection
<1> QED BY <1>1, <1>2, <1>4, <1>5

\* What claimRow does to the lists and to the worker.
LEMMA ClaimRowFacts ==
    ASSUME NEW w \in Worker, NEW list \in SUBSET Entry, NEW leftover \in SUBSET Entry,
           IsFiniteSet(list), IsFiniteSet(leftover), TypeOK, ClaimRow(w, list, leftover)
    PROVE  \E r \in WorkerState :
             /\ r.batch \in SUBSET list
             /\ r.pc \in {"load", "purge"} /\ r.token = claims + 1
             /\ worker' = [worker EXCEPT ![w] = r]
             /\ backlog' = list \ r.batch /\ inflight' = leftover \cup r.batch
             /\ IsFiniteSet(backlog') /\ IsFiniteSet(inflight')
<1> DEFINE batch == {e \in list : Place(e, list) <= BatchSize}
           pc == IF Deleted(batch) = {} THEN "load" ELSE "purge"
           none == [d \in Doc |-> {}]
           r == [pc |-> pc, token |-> claims + 1, batch |-> batch, loaded |-> none, hb |-> TRUE]
<1>1. batch \in SUBSET list
  OBVIOUS
<1>2. /\ worker' = [worker EXCEPT ![w] = r]
      /\ backlog' = list \ batch /\ inflight' = leftover \cup batch
  BY DEF ClaimRow
<1>3. pc \in {"load", "purge"}
  OBVIOUS
<1> HIDE DEF batch, pc
<1>4. none \in [Doc -> SUBSET Chunk]
  OBVIOUS
<1>5. /\ r \in WorkerState /\ r.batch = batch /\ r.pc = pc /\ r.token = claims + 1
  <2>1. claims + 1 \in Nat /\ batch \in SUBSET Entry
    BY <1>1 DEF TypeOK
  <2> HIDE DEF none
  <2> QED BY <1>3, <1>4, <2>1 DEF WorkerState
<1>6. IsFiniteSet(list \ batch) /\ IsFiniteSet(batch)
  BY <1>1, FS_Subset
<1>7. IsFiniteSet(leftover \cup batch)
  BY <1>6, FS_Union
<1> HIDE DEF r
<1> QED BY <1>1, <1>2, <1>3, <1>5, <1>6, <1>7

LEMMA WorkerMoves ==
    ASSUME NEW w \in Worker, NEW pc \in PC, worker \in [Worker -> WorkerState],
           worker' = [worker EXCEPT ![w].pc = pc]
    PROVE  /\ worker' \in [Worker -> WorkerState]
           /\ worker'[w].pc = pc /\ worker'[w].token = worker[w].token
           /\ worker'[w].batch = worker[w].batch
           /\ \A v \in Worker \ {w} : worker'[v] = worker[v]
<1> DEFINE r == [worker[w] EXCEPT !.pc = pc]
<1>1. r \in WorkerState /\ r.pc = pc /\ r.token = worker[w].token /\ r.batch = worker[w].batch
  BY DEF WorkerState, PC
<1>2. worker' = [worker EXCEPT ![w] = r]
  OBVIOUS
<1> HIDE DEF r
<1> QED BY <1>1, <1>2

LEMMA WorkerHb ==
    ASSUME NEW w \in Worker, worker \in [Worker -> WorkerState],
           worker' = [worker EXCEPT ![w].hb = FALSE]
    PROVE  /\ worker' \in [Worker -> WorkerState]
           /\ worker'[w].pc = worker[w].pc /\ worker'[w].token = worker[w].token
           /\ worker'[w].batch = worker[w].batch
           /\ \A v \in Worker \ {w} : worker'[v] = worker[v]
<1> DEFINE r == [worker[w] EXCEPT !.hb = FALSE]
<1>1. r \in WorkerState /\ r.pc = worker[w].pc /\ r.token = worker[w].token
      /\ r.batch = worker[w].batch
  BY DEF WorkerState
<1>2. worker' = [worker EXCEPT ![w] = r]
  OBVIOUS
<1> HIDE DEF r
<1> QED BY <1>1, <1>2

LEMMA WorkerIdle ==
    ASSUME NEW w \in Worker, worker \in [Worker -> WorkerState],
           worker' = [worker EXCEPT ![w] = Idle]
    PROVE  /\ worker' \in [Worker -> WorkerState]
           /\ worker'[w].pc = "idle"
           /\ \A v \in Worker \ {w} : worker'[v] = worker[v]
<1>1. [d \in Doc |-> {}] \in [Doc -> SUBSET Chunk]
  OBVIOUS
<1>2. Idle \in WorkerState /\ Idle.pc = "idle"
  BY <1>1 DEF Idle, WorkerState
<1> QED BY <1>2

\* A worker moves with what it has loaded, or lets go of it.
LEMMA WorkerLoads ==
    ASSUME NEW w \in Worker, NEW pc \in PC, NEW l \in [Doc -> SUBSET Chunk],
           worker \in [Worker -> WorkerState],
           worker' = [worker EXCEPT ![w].pc = pc, ![w].loaded = l]
    PROVE  /\ worker' \in [Worker -> WorkerState]
           /\ worker'[w].pc = pc /\ worker'[w].token = worker[w].token
           /\ worker'[w].batch = worker[w].batch /\ worker'[w].loaded = l
           /\ \A v \in Worker \ {w} : worker'[v] = worker[v]
<1> DEFINE r == [worker[w] EXCEPT !.pc = pc, !.loaded = l]
<1>1. /\ r \in WorkerState /\ r.pc = pc /\ r.token = worker[w].token
      /\ r.batch = worker[w].batch /\ r.loaded = l
  BY DEF WorkerState, PC
<1>2. worker' = [worker EXCEPT ![w] = r]
  OBVIOUS
<1> HIDE DEF r
<1> QED BY <1>1, <1>2

LEMMA LoadFacts ==
    ASSUME NEW w \in Worker, TypeOK, Load(w)
    PROVE  /\ worker' \in [Worker -> WorkerState]
           /\ worker'[w].pc = "structure" /\ worker'[w].token = worker[w].token
           /\ worker'[w].batch = worker[w].batch
           /\ \A v \in Worker \ {w} : worker'[v] = worker[v]
<1> DEFINE batch == worker[w].batch
           wanted(d) == IF d \in Docs(batch) \ Deleted(batch)
                        THEN {c \in product[d] : c.kind = WinEvent(d, batch).kind}
                        ELSE {}
           l == [d \in Doc |-> wanted(d)]
<1>1. worker' = [worker EXCEPT ![w].pc = "structure", ![w].loaded = l]
  BY DEF Load
<1>2. l \in [Doc -> SUBSET Chunk]
  <2>1. \A d \in Doc : wanted(d) \in SUBSET Chunk
    BY DEF TypeOK
  <2> HIDE DEF wanted
  <2> QED BY <2>1
<1> HIDE DEF l
<1> QED BY <1>1, <1>2, WorkerLoads DEF TypeOK, PC

\* What only the documents' side changes.
SourceOK ==
    /\ product \in [Doc -> SUBSET Chunk] /\ merged \in [Part -> [Doc -> SUBSET Chunk]]
    /\ writing \in [Doc -> Version] /\ last \in [Doc -> Nat]
    /\ due \subseteq Event /\ writes \in 0..MaxWrite /\ gone \subseteq Doc

\* What only claims and acknowledgements change.
RowOK ==
    /\ backlog \subseteq Entry /\ inflight \subseteq Entry /\ tail \in Nat
    /\ IsFiniteSet(backlog) /\ IsFiniteSet(inflight)
    /\ token \in Nat /\ live \in BOOLEAN /\ claims \in Nat
    /\ state \in {"idle", "pending", "running", "completed"}
    /\ published \in Nat

RestOK ==
    /\ faults \in 0..MaxFault /\ wtoken \in Nat /\ applied \subseteq Nat
    /\ lost \subseteq Doc /\ overtaken \subseteq Doc

WorkersOK == worker \in [Worker -> WorkerState]

LEMMA TypeParts ==
    /\ TypeInv <=> SourceOK /\ RowOK /\ RestOK /\ WorkersOK
    /\ TypeInv' <=> SourceOK' /\ RowOK' /\ RestOK' /\ WorkersOK'
BY DEF TypeInv, TypeOK, SourceOK, RowOK, RestOK, WorkersOK

LEMMA TypeInit == Init => TypeInv
<1> SUFFICES ASSUME Init PROVE SourceOK /\ RowOK /\ RestOK /\ WorkersOK
  BY TypeParts
<1>1. NoVersion \in Version
  BY DEF NoVersion, Version
<1>2. [d \in Doc |-> {}] \in [Doc -> SUBSET Chunk]
  OBVIOUS
<1>3. Idle \in WorkerState
  BY <1>2 DEF Idle, WorkerState
<1>4. WorkersOK
  BY <1>3 DEF Init, WorkersOK
<1>5. merged \in [Part -> [Doc -> SUBSET Chunk]]
  BY <1>2 DEF Init
<1>6. SourceOK
  BY <1>1, <1>2, <1>5, CompileBacklogAssumption DEF Init, SourceOK
<1>7. RowOK
  BY FS_EmptySet DEF Init, RowOK
<1>8. RestOK
  BY CompileBacklogAssumption DEF Init, RestOK
<1> QED BY <1>4, <1>6, <1>7, <1>8

LEMMA SourceKept ==
    SourceOK /\ UNCHANGED <<product, merged, due, writing, last, writes, gone>> => SourceOK'
BY DEF SourceOK

LEMMA RowKept ==
    RowOK /\ UNCHANGED <<row, published>> => RowOK'
BY DEF RowOK, row

LEMMA RestKept ==
    RestOK /\ UNCHANGED <<faults, wtoken, applied, ghosts>> => RestOK'
BY DEF RestOK, ghosts

LEMMA FaultStep == RestOK /\ Fault => faults' \in 0..MaxFault
BY CompileBacklogAssumption DEF RestOK, Fault

LEMMA DocsType == ASSUME NEW list \in SUBSET Entry PROVE Docs(list) \subseteq Doc
BY DEF Docs, Entry

LEMMA NumbersType == ASSUME NEW list \in SUBSET Entry PROVE Numbers(list) \subseteq Nat
BY DEF Numbers, Entry

\* What happens to the chunks of a document d, but for a batch.
Edits(d) ==
    \/ \E k \in Kind : Write(d, k)
    \/ WriteRest(d) \/ WriteFails(d) \/ Clear(d) \/ Delete(d)

LEMMA OrphanType == SourceOK => \A d \in Doc : Orphan(d) \subseteq Doc
BY DEF Orphan

LEMMA EditsFacts ==
    ASSUME SourceOK, NEW d \in Doc, Edits(d)
    PROVE  /\ UNCHANGED <<row, merged, wtoken, published, worker, faults, applied, overtaken>>
           /\ lost \subseteq lost' /\ (lost \subseteq Doc => lost' \subseteq Doc)
<1>1. UNCHANGED <<row, merged, wtoken, published, worker, faults, applied, overtaken>>
  BY DEF Edits, Write, WriteRest, WriteFails, Clear, Delete, index, ghosts
<1>2. lost' = lost \/ lost' = lost \cup {d} \/ lost' = lost \cup Orphan(d)
  BY DEF Edits, Write, WriteRest, WriteFails, Clear, Delete, Insert, ghosts
<1> QED BY <1>1, <1>2, OrphanType

LEMMA TypeEdits ==
    ASSUME SourceOK, NEW d \in Doc, Edits(d)
    PROVE  SourceOK'
<1>0. merged' = merged
  BY EditsFacts
<1>1. ASSUME NEW k \in Kind, Write(d, k) PROVE SourceOK'
  <2> DEFINE c == [ver |-> writes + 1, kind |-> k, part |-> 1]
             v == [ver |-> writes + 1, kind |-> k]
  <2>1. writes + 1 \in Nat /\ writes' \in 0..MaxWrite
    BY <1>1, CompileBacklogAssumption DEF SourceOK, Write
  <2>2. c \in Chunk /\ v \in Version
    BY <2>1 DEF Chunk, Version
  <2>3. /\ product' = [product EXCEPT ![d] = @ \cup {c}]
        /\ writing' = [writing EXCEPT ![d] = v]
        /\ UNCHANGED <<last, due, gone>>
    BY <1>1 DEF Write, Insert
  <2> HIDE DEF c, v
  <2> QED BY <1>0, <2>1, <2>2, <2>3 DEF SourceOK
<1>2. CASE WriteRest(d)
  <2> DEFINE c == [ver |-> writing[d].ver, kind |-> writing[d].kind, part |-> 2]
             e == [doc |-> d, ev |-> "completed", kind |-> writing[d].kind]
  <2>0. writing[d] \in [ver : Nat, kind : Kind] /\ NoVersion \in Version
    BY <1>2 DEF SourceOK, WriteRest, Version
  <2>1. c \in Chunk /\ e \in Event /\ writing[d].ver \in Nat
    BY <2>0 DEF Chunk, Event
  <2>2. /\ product' = [product EXCEPT ![d] = @ \cup {c}]
        /\ writing' = [writing EXCEPT ![d] = NoVersion]
        /\ last' = [last EXCEPT ![d] = writing[d].ver]
        /\ due' = due \cup {e} /\ UNCHANGED <<writes, gone>>
    BY <1>2 DEF WriteRest, Insert
  <2> HIDE DEF c, e
  <2> QED BY <1>0, <2>0, <2>1, <2>2 DEF SourceOK
<1>3. CASE WriteFails(d)
  <2>1. NoVersion \in Version
    BY DEF Version
  <2> QED BY <1>3, <2>1 DEF WriteFails, SourceOK, index
<1>4. CASE Clear(d)
  <2>1. writes' \in 0..MaxWrite
    BY <1>4, CompileBacklogAssumption DEF Clear, SourceOK
  <2> QED BY <1>4, <2>1 DEF Clear, SourceOK
<1>5. CASE Delete(d)
  <2>1. [doc |-> d, ev |-> "deleted", kind |-> "none"] \in Event
    BY DEF Event
  <2>2. due' \subseteq Event
    BY <1>5, <2>1 DEF Delete, SourceOK
  <2> QED BY <1>5, <2>2 DEF Delete, SourceOK
<1> QED BY <1>1, <1>2, <1>3, <1>4, <1>5 DEF Edits

LEMMA TypeDocs ==
    ASSUME SourceOK, RowOK, RestOK, WorkersOK,
           \/ \E d \in Doc : Edits(d)
           \/ \E e \in due : Publish(e) \/ PublishFails(e)
    PROVE  SourceOK' /\ RowOK' /\ RestOK' /\ WorkersOK'
<1>1. ASSUME NEW d \in Doc, Edits(d) PROVE SourceOK' /\ RowOK' /\ RestOK' /\ WorkersOK'
  <2>1. UNCHANGED <<row, published, faults, wtoken, applied, overtaken, worker>>
        /\ (lost \subseteq Doc => lost' \subseteq Doc)
    BY <1>1, EditsFacts
  <2>2. RestOK' /\ WorkersOK'
    BY <2>1 DEF RestOK, WorkersOK
  <2> QED BY <1>1, <2>1, <2>2, RowKept, TypeEdits
<1>2. ASSUME NEW e \in due, Publish(e) PROVE SourceOK' /\ RowOK' /\ RestOK' /\ WorkersOK'
  <2> DEFINE new == [n |-> published + 1, pos |-> tail + 1, doc |-> e.doc,
                     ev |-> e.ev, kind |-> e.kind]
  <2>1. new \in Entry
    BY DEF SourceOK, RowOK, Event, Entry
  <2>2. backlog' = backlog \cup {new}
    BY <1>2 DEF Publish
  <2> HIDE DEF new
  <2>3. backlog' \subseteq Entry /\ IsFiniteSet(backlog')
    BY <2>1, <2>2, FS_AddElement DEF RowOK
  <2>4. RowOK'
    BY <1>2, <2>3 DEF RowOK, Publish
  <2>5. lost' \subseteq Doc
    <3>1. e.doc \in Doc
      BY DEF SourceOK, Event
    <3> QED BY <1>2, <3>1, OrphanType DEF RestOK, Publish
  <2>6. SourceOK' /\ RestOK' /\ WorkersOK'
    BY <1>2, <2>5 DEF SourceOK, RestOK, WorkersOK, Publish, index
  <2> QED BY <2>4, <2>6
<1>3. ASSUME NEW e \in due, PublishFails(e)
      PROVE  SourceOK' /\ RowOK' /\ RestOK' /\ WorkersOK'
  <2>1. e.doc \in Doc
    BY DEF SourceOK, Event
  <2>2. SourceOK' /\ WorkersOK'
    BY <1>3 DEF SourceOK, WorkersOK, PublishFails, index
  <2>3. RestOK'
    BY <1>3, <2>1, FaultStep DEF RestOK, PublishFails, index
  <2>4. UNCHANGED <<row, published>>
    BY <1>3 DEF PublishFails
  <2> QED BY <2>2, <2>3, <2>4, RowKept
<1> QED BY <1>1, <1>2, <1>3

LEMMA ClaimStamp ==
    ASSUME NEW w \in Worker, NEW list, NEW leftover, ClaimRow(w, list, leftover)
    PROVE  token' = claims + 1 /\ claims' = claims + 1 /\ live' = TRUE /\ state' = "running"
BY DEF ClaimRow

LEMMA TypeClaim ==
    ASSUME SourceOK, RowOK, RestOK, WorkersOK, NEW w \in Worker, Claim(w) \/ Reclaim(w)
    PROVE  SourceOK' /\ RowOK' /\ RestOK' /\ WorkersOK'
<1>0. TypeOK
  BY DEF SourceOK, RowOK, RestOK, WorkersOK, TypeOK
<1>1. SourceOK'
  BY DEF SourceOK, Claim, Reclaim, index, source
<1>2. token' \in Nat /\ live' \in BOOLEAN /\ claims' \in Nat /\ state' = "running"
      /\ published' \in Nat
  <2>1. PICK list, leftover : ClaimRow(w, list, leftover)
    BY Zenon DEF Claim, Reclaim
  <2>2. token' = claims + 1 /\ claims' = claims + 1 /\ live' = TRUE /\ state' = "running"
    BY <2>1, ClaimStamp
  <2>3. published' = published
    BY DEF Claim, Reclaim, source
  <2> QED BY <2>2, <2>3 DEF RowOK
<1>3. CASE Claim(w)
  <2>1. ClaimRow(w, backlog, inflight)
    BY <1>3 DEF Claim
  <2>2. PICK r \in WorkerState :
             /\ r.batch \in SUBSET backlog
             /\ worker' = [worker EXCEPT ![w] = r]
             /\ backlog' = backlog \ r.batch /\ inflight' = inflight \cup r.batch
             /\ IsFiniteSet(backlog') /\ IsFiniteSet(inflight')
    BY <1>0, <2>1, ClaimRowFacts DEF RowOK
  <2>3. RowOK'
    BY <1>2, <1>3, <2>2 DEF RowOK, Claim
  <2>4. RestOK' /\ WorkersOK'
    BY <1>3, <2>2 DEF RestOK, WorkersOK, Claim, index, ghosts
  <2> QED BY <1>1, <2>3, <2>4
<1>4. CASE Reclaim(w)
  <2>1. PICK list, none : list = backlog \cup Requeued /\ none = {} /\ ClaimRow(w, list, none)
    BY <1>4 DEF Reclaim
  <2>2. /\ list \in SUBSET Entry /\ none \in SUBSET Entry
        /\ IsFiniteSet(list) /\ IsFiniteSet(none) /\ ClaimRow(w, list, none)
    BY <2>1, RequeuedFacts, FS_Union, FS_EmptySet DEF RowOK
  <2>3. PICK r \in WorkerState :
             /\ r.batch \in SUBSET list
             /\ worker' = [worker EXCEPT ![w] = r]
             /\ backlog' = list \ r.batch /\ inflight' = none \cup r.batch
             /\ IsFiniteSet(backlog') /\ IsFiniteSet(inflight')
    BY <1>0, <2>2, ClaimRowFacts
  <2>4. tail' \in Nat
    BY <1>4, FS_CardinalityType DEF RowOK, Reclaim
  <2>5. RowOK'
    BY <1>2, <2>2, <2>3, <2>4 DEF RowOK
  <2>6. overtaken' \subseteq Doc
    BY <1>4, DocsType DEF RowOK, RestOK, Reclaim
  <2>7. RestOK' /\ WorkersOK'
    BY <1>4, <2>3, <2>6 DEF RestOK, WorkersOK, Reclaim, index
  <2> QED BY <1>1, <2>5, <2>7
<1> QED BY <1>3, <1>4

\* The steps that move a worker along, or back to idle, and change no list.
Moves(w) ==
    \/ Purge(w) \/ Strip(w) \/ Load(w) \/ MergeStructure(w) \/ WriteMerged(w)
    \/ ProjectWikiGraph(w)

Drops(w) == ReclaimLost(w) \/ Superseded(w) \/ Abandon(w) \/ SkipAck(w) \/ Ack(w)

\* The place a move leads to.
After(pc) ==
    CASE pc = "purge" -> "strip" [] pc = "strip" -> "load" [] pc = "load" -> "structure"
      [] pc = "structure" -> "wiki" [] pc = "wiki" -> "graph" [] OTHER -> "ack"

\* A worker that moves keeps its claim and its batch.
LEMMA MovesWorker ==
    ASSUME TypeOK, NEW w \in Worker, Moves(w)
    PROVE  /\ WorkersOK'
           /\ worker'[w].pc = After(worker[w].pc)
           /\ worker[w].pc \in {"purge", "strip", "load", "structure", "wiki", "graph"}
           /\ worker'[w].token = worker[w].token /\ worker'[w].batch = worker[w].batch
           /\ \A v \in Worker \ {w} : worker'[v] = worker[v]
<1>0. WorkersOK /\ worker \in [Worker -> WorkerState]
  BY DEF TypeOK, WorkersOK
<1>1. CASE Load(w)
  <2>1. worker[w].pc = "load"
    BY <1>1 DEF Load
  <2> QED BY <1>1, <2>1, LoadFacts DEF After, WorkersOK
<1>2. CASE WriteMerged(w)
  <2> DEFINE l == [d \in Doc |-> {}]
  <2>1. l \in [Doc -> SUBSET Chunk] /\ "graph" \in PC
    BY DEF PC
  <2>2. worker' = [worker EXCEPT ![w].pc = "graph", ![w].loaded = l] /\ worker[w].pc = "wiki"
    BY <1>2 DEF WriteMerged
  <2> HIDE DEF l
  <2> QED BY <1>0, <2>1, <2>2, WorkerLoads DEF After, WorkersOK
<1>3. CASE ~ Load(w) /\ ~ WriteMerged(w)
  <2>1. PICK pc \in PC : /\ worker' = [worker EXCEPT ![w].pc = pc] /\ pc = After(worker[w].pc)
                         /\ worker[w].pc \in {"purge", "strip", "load", "structure", "wiki", "graph"}
    BY <1>3 DEF Moves, Purge, Strip, MergeStructure, ProjectWikiGraph, Goto, After, PC
  <2> QED BY <1>0, <2>1, WorkerMoves DEF WorkersOK
<1> QED BY <1>1, <1>2, <1>3

LEMMA MergeKindType ==
    ASSUME SourceOK, WorkersOK, NEW w \in Worker, NEW k \in Kind, MergeKind(w, k)
    PROVE  merged' \in [Part -> [Doc -> SUBSET Chunk]]
<1> DEFINE new == [d \in Doc |-> merged[k][d] \cup {c \in worker[w].loaded[d] : c.kind = k}]
<1>1. k \in Part /\ merged[k] \in [Doc -> SUBSET Chunk]
  BY DEF SourceOK, Part
<1>2. merged' = [merged EXCEPT ![k] = new]
  BY <1>1 DEF MergeKind, SourceOK
<1>3. worker[w].loaded \in [Doc -> SUBSET Chunk]
  BY DEF WorkersOK, WorkerState
<1>4. new \in [Doc -> SUBSET Chunk]
  BY <1>1, <1>3
<1> HIDE DEF new
<1> QED BY <1>2, <1>4 DEF SourceOK

LEMMA LockToken ==
    ASSUME WorkersOK, NEW w \in Worker, WithWriteLock(w)
    PROVE  wtoken' = token /\ token = worker[w].token /\ wtoken' \in Nat
BY DEF WorkersOK, WorkerState, WithWriteLock

LEMMA TypeMoves ==
    ASSUME SourceOK, RowOK, RestOK, WorkersOK, NEW w \in Worker, Moves(w)
    PROVE  SourceOK' /\ RowOK' /\ RestOK' /\ WorkersOK'
<1>0. TypeOK
  BY DEF SourceOK, RowOK, RestOK, WorkersOK, TypeOK
<1>1. WorkersOK'
  BY <1>0, MovesWorker
<1>2. UNCHANGED <<row, source, faults, ghosts>>
  BY DEF Moves, Purge, Strip, Load, MergeStructure, WriteMerged, ProjectWikiGraph, rest
<1>3. RowOK'
  BY <1>2, RowKept DEF source
<1>4. wtoken' \in Nat
  BY LockToken DEF RestOK, Moves, Purge, Strip, Load, MergeStructure, WriteMerged,
                   ProjectWikiGraph, index
<1>5. applied' \subseteq Nat
  <2>1. Matching(inflight, worker[w].batch) \in SUBSET Entry
    BY DEF RowOK, Matching
  <2>2. Numbers(Matching(inflight, worker[w].batch)) \subseteq Nat
    BY <2>1, NumbersType
  <2> QED BY <2>2 DEF RestOK, Moves, Purge, Strip, Load, MergeStructure, WriteMerged,
                      ProjectWikiGraph
<1>6. RestOK'
  BY <1>2, <1>4, <1>5 DEF RestOK, ghosts
<1>7. product' \in [Doc -> SUBSET Chunk]
  <2>1. CASE Purge(w)
    BY <2>1 DEF SourceOK, Purge
  <2>2. CASE ~ Purge(w)
    BY <2>2 DEF SourceOK, Moves, Strip, Load, MergeStructure, WriteMerged,
                ProjectWikiGraph, index
  <2> QED BY <2>1, <2>2
<1>8. merged' \in [Part -> [Doc -> SUBSET Chunk]]
  <2>1. CASE Strip(w)
    BY <2>1 DEF SourceOK, Strip
  <2>2. CASE MergeStructure(w)
    BY <2>2, MergeKindType DEF MergeStructure, Kind
  <2>3. CASE WriteMerged(w)
    BY <2>3, MergeKindType DEF WriteMerged, Kind
  <2>4. CASE ProjectWikiGraph(w)
    BY <2>4 DEF SourceOK, ProjectWikiGraph, Part, Kind
  <2>5. CASE Purge(w) \/ Load(w)
    BY <2>5 DEF SourceOK, Purge, Load, index
  <2> QED BY <2>1, <2>2, <2>3, <2>4, <2>5 DEF Moves
<1>9. SourceOK'
  BY <1>2, <1>7, <1>8 DEF SourceOK, source
<1> QED BY <1>1, <1>3, <1>6, <1>9

LEMMA AckFacts ==
    ASSUME NEW w \in Worker, Ack(w)
    PROVE  /\ worker[w].pc = "ack"
           /\ worker' = [worker EXCEPT ![w] = Idle]
           /\ UNCHANGED <<backlog, tail, claims, index, source, faults, ghosts>>
           /\ worker[w].token # token => UNCHANGED <<inflight, token, live, state, applied>>
           /\ worker[w].token = token =>
                 LET left == inflight \ Matching(inflight, worker[w].batch) IN
                    /\ inflight' = left
                    /\ token' = IF left = {} THEN 0 ELSE token
                    /\ live' = (left # {} /\ live)
                    /\ state' = IF backlog = {} THEN "completed" ELSE "pending"
                    /\ applied' = applied \ Numbers(inflight \ left)
BY Zenon DEF Ack

LEMMA TypeAck ==
    ASSUME RowOK, RestOK, NEW w \in Worker, Ack(w)
    PROVE  RowOK' /\ RestOK'
<1>1. CASE worker[w].token = token
  <2> DEFINE left == inflight \ Matching(inflight, worker[w].batch)
  <2>1. /\ inflight' = left /\ token' = (IF left = {} THEN 0 ELSE token)
        /\ live' = (left # {} /\ live)
        /\ state' = (IF backlog = {} THEN "completed" ELSE "pending")
        /\ applied' = applied \ Numbers(inflight \ left)
    BY <1>1, AckFacts, Zenon
  <2>2. left \in SUBSET inflight /\ IsFiniteSet(left)
    <3>1. left \in SUBSET inflight
      OBVIOUS
    <3> HIDE DEF left
    <3> QED BY <3>1, FS_Subset DEF RowOK
  <2> HIDE DEF left
  <2>3. live' \in BOOLEAN
    BY <2>1, Zenon DEF RowOK
  <2>4. UNCHANGED <<backlog, tail, claims, published, faults, wtoken, ghosts>>
    BY AckFacts DEF index, source
  <2>5. RowOK'
    BY <2>1, <2>2, <2>3, <2>4 DEF RowOK
  <2> QED BY <2>1, <2>4, <2>5 DEF RestOK, ghosts
<1>2. CASE worker[w].token # token
  <2>1. UNCHANGED <<row, published, faults, wtoken, applied, ghosts>>
    BY <1>2, AckFacts DEF row, index, source
  <2> QED BY <2>1, RowKept, RestKept
<1> QED BY <1>1, <1>2

LEMMA TypeDrops ==
    ASSUME SourceOK, RowOK, RestOK, WorkersOK, NEW w \in Worker, Drops(w)
    PROVE  SourceOK' /\ RowOK' /\ RestOK' /\ WorkersOK'
<1>1. worker' = [worker EXCEPT ![w] = Idle] /\ UNCHANGED <<index, source>>
  BY AckFacts DEF Drops, ReclaimLost, Superseded, Abandon, SkipAck, index, source, rest
<1>2. WorkersOK'
  BY <1>1, WorkerIdle DEF WorkersOK
<1>3. SourceOK'
  BY <1>1, SourceKept DEF index, source
<1>4. CASE Ack(w)
  BY <1>2, <1>3, <1>4, TypeAck
<1>5. CASE ~ Ack(w)
  <2>1. UNCHANGED <<row, published, wtoken, applied, ghosts>> /\ (Fault \/ UNCHANGED faults)
    BY <1>1, <1>5 DEF Drops, ReclaimLost, Superseded, Abandon, SkipAck, index, source, rest
  <2>2. RestOK'
    BY <2>1, FaultStep DEF RestOK, ghosts
  <2> QED BY <1>2, <1>3, <2>1, <2>2, RowKept
<1> QED BY <1>4, <1>5

\* The steps on the lease, and the scan for an expired one.
Leases(w) == ReclaimScan(w) \/ TouchClaim(w) \/ TouchFails(w) \/ Expire \/ ExpireEarly

LEMMA LeasesFacts ==
    ASSUME WorkersOK, NEW w \in Worker, Leases(w)
    PROVE  /\ WorkersOK'
           /\ UNCHANGED <<backlog, inflight, tail, token, claims, state, index, source, applied,
                          ghosts>>
           /\ \/ worker' = worker
              \/ /\ \A v \in Worker \ {w} : worker'[v] = worker[v]
                 /\ \/ worker[w].pc = "idle" /\ worker'[w].pc = "reclaim"
                    \/ /\ worker'[w].pc = worker[w].pc /\ worker'[w].token = worker[w].token
                       /\ worker'[w].batch = worker[w].batch
<1>1. UNCHANGED <<backlog, inflight, tail, token, claims, state, index, source, applied, ghosts>>
  BY DEF Leases, ReclaimScan, TouchClaim, TouchFails, Expire, ExpireEarly, row
<1>2. CASE ReclaimScan(w)
  <2>1. worker' = [worker EXCEPT ![w].pc = "reclaim"] /\ worker[w].pc = "idle"
    BY <1>2 DEF ReclaimScan
  <2> QED BY <1>1, <2>1, WorkerMoves DEF WorkersOK, PC
<1>3. CASE worker' = [worker EXCEPT ![w].hb = FALSE]
  BY <1>1, <1>3, WorkerHb DEF WorkersOK
<1>4. CASE worker' = worker
  BY <1>1, <1>4 DEF WorkersOK
<1> QED BY <1>2, <1>3, <1>4 DEF Leases, TouchClaim, TouchFails, Expire, ExpireEarly

LEMMA TypeLeases ==
    ASSUME SourceOK, RowOK, RestOK, WorkersOK, NEW w \in Worker, Leases(w)
    PROVE  SourceOK' /\ RowOK' /\ RestOK' /\ WorkersOK'
<1>1. live' \in BOOLEAN
  BY DEF RowOK, Leases, ReclaimScan, TouchClaim, TouchFails, Expire, ExpireEarly, row
<1>2. Fault \/ UNCHANGED faults
  BY DEF Leases, ReclaimScan, TouchClaim, TouchFails, Expire, ExpireEarly
<1>3. UNCHANGED <<backlog, inflight, tail, token, claims, state, index, source, applied, ghosts>>
      /\ WorkersOK'
  BY LeasesFacts
<1>4. RestOK'
  BY <1>2, <1>3, FaultStep DEF RestOK, index, ghosts
<1>5. RowOK'
  BY <1>1, <1>3 DEF RowOK, source
<1>6. SourceOK'
  BY <1>3, SourceKept DEF index, source
<1> QED BY <1>3, <1>4, <1>5, <1>6

\* The shape of a step.
LEMMA Steps ==
    ASSUME Next
    PROVE  \/ \E d \in Doc : Edits(d)
           \/ \E e \in due : Publish(e) \/ PublishFails(e)
           \/ \E w \in Worker : \/ Claim(w) \/ Reclaim(w) \/ Moves(w) \/ Drops(w)
                               \/ Leases(w)
BY CompileBacklogAssumption, Zenon DEF Next, WorkerStep, Edits, Moves, Drops, Leases

LEMMA TypeStep == TypeInv /\ [Next]_vars => TypeInv'
<1> SUFFICES ASSUME SourceOK, RowOK, RestOK, WorkersOK, [Next]_vars
             PROVE  SourceOK' /\ RowOK' /\ RestOK' /\ WorkersOK'
  BY TypeParts
<1>1. CASE UNCHANGED vars
  <2>1. /\ UNCHANGED <<product, merged, due, writing, last, writes, gone>>
        /\ UNCHANGED <<row, published>>
        /\ UNCHANGED <<faults, wtoken, applied, ghosts>> /\ UNCHANGED worker
    BY <1>1 DEF vars, index, source
  <2> QED BY <2>1, SourceKept, RowKept, RestKept DEF WorkersOK
<1>2. CASE Next
  BY <1>2, Steps, TypeDocs, TypeClaim, TypeMoves, TypeDrops, TypeLeases
<1> QED BY <1>1, <1>2

\* Every variable keeps its type, and the two lists stay finite.
THEOREM TypeCorrect == Spec => []TypeOK
<1>1. TypeInv => TypeOK
  BY DEF TypeInv
<1> QED BY <1>1, TypeInit, TypeStep, PTL DEF Spec

-----------------------------------------------------------------------------
(* The fence of the locked writes.                                         *)

\* Claims are numbered in the order they are made, a claim has one worker,
\* and nothing was written under a later claim than the one in the row.
TokenInv ==
    /\ token <= claims /\ wtoken <= claims
    /\ token = 0 \/ wtoken <= token
    /\ \A w \in Worker : Working(w) => 1 <= worker[w].token /\ worker[w].token <= claims
    /\ \A v, w \in Worker :
         Working(v) /\ Working(w) /\ worker[v].token = worker[w].token => v = w

LEMMA TokenInit == Init => TokenInv
BY DEF Init, TokenInv, Working, Idle

LEMMA TokenKept == TokenInv /\ UNCHANGED <<token, claims, wtoken, worker>> => TokenInv'
BY DEF TokenInv, Working

\* A step after which the claims and the workers on them are the old ones.
LEMMA TokenFewer ==
    ASSUME TokenInv, TypeOK, WorkersOK', claims' = claims, token' \in {0, token},
           wtoken' = wtoken \/ (wtoken' = token /\ token' = token),
           \A w \in Worker : Working(w)' => Working(w) /\ worker'[w].token = worker[w].token
    PROVE  TokenInv'
<1>1. token \in Nat /\ claims \in Nat /\ wtoken \in Nat
      /\ \A w \in Worker : worker[w].token \in Nat
  BY DEF TypeOK, WorkerState
<1>2. token' <= claims' /\ wtoken' <= claims' /\ (token' = 0 \/ wtoken' <= token')
  BY <1>1 DEF TokenInv
<1>3. \A w \in Worker : Working(w)' => 1 <= worker'[w].token /\ worker'[w].token <= claims'
  BY DEF TokenInv
<1>4. \A v, w \in Worker :
         Working(v)' /\ Working(w)' /\ worker'[v].token = worker'[w].token => v = w
  BY DEF TokenInv
<1> QED BY <1>2, <1>3, <1>4 DEF TokenInv

LEMMA TokenClaim ==
    ASSUME TypeInv, TokenInv, NEW w \in Worker, Claim(w) \/ Reclaim(w)
    PROVE  TokenInv'
<1>1. PICK list, leftover :
             /\ list \in SUBSET Entry /\ leftover \in SUBSET Entry
             /\ IsFiniteSet(list) /\ IsFiniteSet(leftover) /\ ClaimRow(w, list, leftover)
  <2>1. CASE Claim(w)
    BY <2>1 DEF Claim, TypeInv, TypeOK
  <2>2. CASE Reclaim(w)
    <3>1. ClaimRow(w, backlog \cup Requeued, {})
      BY <2>2 DEF Reclaim
    <3>2. /\ backlog \cup Requeued \in SUBSET Entry /\ {} \in SUBSET Entry
          /\ IsFiniteSet(backlog \cup Requeued) /\ IsFiniteSet({})
      BY RequeuedFacts, FS_Union, FS_EmptySet DEF TypeInv, TypeOK
    <3> QED BY <3>1, <3>2, Zenon
  <2> QED BY <2>1, <2>2
<1>2. token' = claims + 1 /\ claims' = claims + 1
  BY <1>1, ClaimStamp
<1>3. TypeOK
  BY DEF TypeInv
<1>4. PICK r \in WorkerState : /\ r.token = claims + 1 /\ worker' = [worker EXCEPT ![w] = r]
  BY <1>1, <1>3, ClaimRowFacts
<1>5. wtoken' = wtoken
  BY DEF Claim, Reclaim, index
<1>6. /\ token \in Nat /\ claims \in Nat /\ wtoken \in Nat
      /\ \A v \in Worker : worker[v].token \in Nat
  BY DEF TypeInv, TypeOK, WorkerState
<1>7. /\ worker'[w].token = claims + 1
      /\ \A v \in Worker \ {w} : worker'[v] = worker[v]
  BY <1>4 DEF TypeInv, TypeOK
<1>8. \A v \in Worker \ {w} : Working(v)' => Working(v) /\ worker'[v].token = worker[v].token
  BY <1>7 DEF Working
<1>9. token' <= claims' /\ wtoken' <= claims' /\ (token' = 0 \/ wtoken' <= token')
  BY <1>2, <1>5, <1>6 DEF TokenInv
<1>10. \A v \in Worker : Working(v)' => 1 <= worker'[v].token /\ worker'[v].token <= claims'
  BY <1>2, <1>6, <1>7, <1>8 DEF TokenInv
<1>11. ASSUME NEW u \in Worker, NEW v \in Worker, Working(u)', Working(v)',
              worker'[u].token = worker'[v].token
       PROVE  u = v
  BY <1>2, <1>6, <1>7, <1>8, <1>11 DEF TokenInv
<1> QED BY <1>9, <1>10, <1>11 DEF TokenInv

LEMMA MovesLocked ==
    ASSUME TypeOK, NEW w \in Worker, Moves(w)
    PROVE  UNCHANGED <<row, source, faults, ghosts>>
           /\ (wtoken' = wtoken \/ (wtoken' = token /\ token = worker[w].token))
<1>1. WorkersOK
  BY DEF TypeOK, WorkersOK
<1> QED BY <1>1, LockToken DEF Moves, Purge, Strip, Load, MergeStructure, WriteMerged,
           ProjectWikiGraph, rest, index

LEMMA MovesWorking ==
    ASSUME TypeOK, NEW w \in Worker, Moves(w)
    PROVE  \A v \in Worker : Working(v)' => Working(v) /\ worker'[v].token = worker[v].token
BY MovesWorker DEF Working

LEMMA DropsFacts ==
    ASSUME TypeOK, NEW w \in Worker, Drops(w)
    PROVE  /\ claims' = claims /\ token' \in {0, token} /\ wtoken' = wtoken
           /\ WorkersOK' /\ worker'[w].pc = "idle"
           /\ \A v \in Worker \ {w} : worker'[v] = worker[v]
<1>1. worker' = [worker EXCEPT ![w] = Idle]
  BY AckFacts DEF Drops, ReclaimLost, Superseded, Abandon, SkipAck
<1>2. WorkersOK' /\ worker'[w].pc = "idle" /\ \A v \in Worker \ {w} : worker'[v] = worker[v]
  BY <1>1, WorkerIdle DEF TypeOK, WorkersOK
<1>3. CASE Ack(w)
  <2>1. claims' = claims /\ wtoken' = wtoken
    BY <1>3, AckFacts DEF index
  <2>2. token' \in {0, token}
    <3> DEFINE left == inflight \ Matching(inflight, worker[w].batch)
    <3>1. worker[w].token = token => token' = IF left = {} THEN 0 ELSE token
      BY <1>3, AckFacts, Zenon
    <3>2. worker[w].token # token => token' = token
      BY <1>3, AckFacts
    <3> HIDE DEF left
    <3> QED BY <3>1, <3>2
  <2> QED BY <1>2, <2>1, <2>2
<1>4. CASE ~ Ack(w)
  <2>1. UNCHANGED <<claims, token, wtoken>>
    BY <1>4 DEF Drops, ReclaimLost, Superseded, Abandon, SkipAck, row, index, rest
  <2> QED BY <1>2, <2>1
<1> QED BY <1>3, <1>4

LEMMA LeasesWorking ==
    ASSUME WorkersOK, NEW w \in Worker, Leases(w)
    PROVE  /\ WorkersOK' /\ UNCHANGED <<claims, token, wtoken>>
           /\ \A v \in Worker : Working(v)' => Working(v) /\ worker'[v].token = worker[v].token
BY LeasesFacts DEF Working, index

LEMMA TokenStep == TypeInv /\ TokenInv /\ [Next]_vars => TokenInv'
<1> SUFFICES ASSUME TypeInv, TokenInv, [Next]_vars PROVE TokenInv'
  OBVIOUS
<1>0. TypeOK /\ WorkersOK
  BY DEF TypeInv, TypeOK, WorkersOK
<1>1. CASE UNCHANGED vars
  BY <1>1, TokenKept DEF vars, row, index
<1>2. CASE \/ \E d \in Doc : Edits(d)
           \/ \E e \in due : Publish(e) \/ PublishFails(e)
  <2>0. SourceOK
    BY TypeParts
  <2>1. UNCHANGED <<token, claims, wtoken, worker>>
    BY <1>2, <2>0, EditsFacts DEF Publish, PublishFails, row, index
  <2> QED BY <2>1, TokenKept
<1>3. ASSUME NEW w \in Worker, Claim(w) \/ Reclaim(w) PROVE TokenInv'
  BY <1>3, TokenClaim
<1>4. ASSUME NEW w \in Worker, Moves(w) PROVE TokenInv'
  <2>1. claims' = claims /\ token' = token /\ (wtoken' = wtoken \/ wtoken' = token)
    BY <1>0, <1>4, MovesLocked DEF row
  <2>2. WorkersOK'
        /\ \A v \in Worker : Working(v)' => Working(v) /\ worker'[v].token = worker[v].token
    BY <1>0, <1>4, MovesWorker, MovesWorking
  <2> QED BY <1>0, <2>1, <2>2, TokenFewer
<1>5. ASSUME NEW w \in Worker, Drops(w) PROVE TokenInv'
  <2>1. /\ claims' = claims /\ token' \in {0, token} /\ wtoken' = wtoken /\ WorkersOK'
        /\ \A v \in Worker : Working(v)' => Working(v) /\ worker'[v].token = worker[v].token
    BY <1>0, <1>5, DropsFacts DEF Working
  <2> QED BY <1>0, <2>1, TokenFewer
<1>6. ASSUME NEW w \in Worker, Leases(w) PROVE TokenInv'
  BY <1>0, <1>6, LeasesWorking, TokenFewer
<1> QED BY <1>1, <1>2, <1>3, <1>4, <1>5, <1>6, Steps

LEMMA FenceStep == TypeInv /\ TokenInv /\ [Next]_vars => [wtoken' >= wtoken]_vars
<1> SUFFICES ASSUME TypeInv, TokenInv, Next PROVE wtoken' >= wtoken
  BY DEF TypeInv, TypeOK
<1>0. TypeOK /\ WorkersOK /\ wtoken \in Nat /\ token \in Nat
  BY DEF TypeInv, TypeOK, WorkersOK
<1>1. ASSUME NEW w \in Worker, Moves(w) PROVE wtoken' >= wtoken
  <2>1. Working(w)
    BY <1>0, <1>1, MovesWorker DEF Working
  <2>2. wtoken' = wtoken \/ (wtoken' = token /\ token = worker[w].token)
    BY <1>0, <1>1, MovesLocked
  <2>3. CASE wtoken' = wtoken
    BY <1>0, <2>3
  <2>4. CASE wtoken' = token /\ token = worker[w].token
    BY <1>0, <2>1, <2>4 DEF TokenInv
  <2> QED BY <2>2, <2>3, <2>4
<1>2. ASSUME NEW w \in Worker, Claim(w) \/ Reclaim(w) \/ Drops(w) \/ Leases(w)
      PROVE  wtoken' = wtoken
  BY <1>0, <1>2, DropsFacts, LeasesWorking DEF Claim, Reclaim, index
<1>3. CASE \/ \E d \in Doc : Edits(d)
           \/ \E e \in due : Publish(e) \/ PublishFails(e)
  <2>1. SourceOK
    BY TypeParts
  <2> QED BY <1>0, <1>3, <2>1, EditsFacts DEF Publish, PublishFails, index
<1>4. ASSUME wtoken' = wtoken PROVE wtoken' >= wtoken
  BY <1>0, <1>4
<1> QED BY <1>1, <1>2, <1>3, <1>4, Steps

\* A worker whose claim was taken over writes nothing after the first locked write of
\* its successor, for any number of workers, lost leases and crashes.
THEOREM Fence == Spec => WriteFence
BY TypeInit, TypeStep, TokenInit, TokenStep, FenceStep, PTL DEF Spec, WriteFence

-----------------------------------------------------------------------------
(* The scheduling row implements EventLog.                                 *)

Open == Numbers(backlog \cup inflight)

\* Every event is in the row once, under a number that was given out, and the
\* worker that is about to acknowledge under the row's claim has merged all
\* that the acknowledgement will remove.
LogInv ==
    /\ backlog \cap inflight = {}
    /\ \A e, f \in backlog \cup inflight : e.n = f.n => e = f
    /\ \A e \in backlog \cup inflight : e.n <= published
    /\ applied \subseteq Open
    /\ \A w \in Worker : worker[w].pc = "ack" /\ worker[w].token = token
                         => Numbers(Matching(inflight, worker[w].batch)) \subseteq applied

LEMMA LogInit == Init => LogInv /\ Log!Init
<1> SUFFICES ASSUME Init PROVE LogInv /\ Log!Init
  OBVIOUS
<1>1. \A w \in Worker : worker[w].pc = "idle"
  BY DEF Init, Idle
<1>2. backlog = {} /\ inflight = {} /\ applied = {} /\ published = 0
  BY DEF Init
<1>3. Numbers(backlog \cup inflight) = {}
  BY <1>2 DEF Numbers
<1> QED BY <1>1, <1>2, <1>3 DEF LogInv, Open, Log!Init

\* A step that leaves the lists and the merged events alone.
LEMMA LogKept ==
    ASSUME LogInv, UNCHANGED <<backlog, inflight, published, applied, token>>,
           \A w \in Worker : worker'[w].pc = "ack" =>
              worker[w].pc = "ack" /\ worker'[w].token = worker[w].token
              /\ worker'[w].batch = worker[w].batch
    PROVE  LogInv' /\ UNCHANGED Log!vars
<1>1. Open' = Open /\ Numbers(backlog \cup inflight)' = Numbers(backlog \cup inflight)
  BY DEF Open, Numbers
<1>2. UNCHANGED Log!vars
  BY <1>1 DEF Log!vars
<1>3. ASSUME NEW w \in Worker, worker'[w].pc = "ack", worker'[w].token = token'
      PROVE  Numbers(Matching(inflight', worker'[w].batch)) \subseteq applied'
  BY <1>3 DEF LogInv
<1> QED BY <1>1, <1>2, <1>3 DEF LogInv

LEMMA LogPublish ==
    ASSUME TypeInv, LogInv, NEW e \in due, Publish(e)
    PROVE  LogInv' /\ Log!Publish
<1> DEFINE new == [n |-> published + 1, pos |-> tail + 1, doc |-> e.doc,
                   ev |-> e.ev, kind |-> e.kind]
<1>1. new.n = published + 1
  OBVIOUS
<1>2. /\ backlog' = backlog \cup {new} /\ published' = published + 1
      /\ UNCHANGED <<inflight, token, worker, applied>>
  BY DEF Publish
<1> HIDE DEF new
<1>3. published \in Nat /\ \A f \in backlog \cup inflight : f.n \in Nat
  BY DEF TypeInv, TypeOK, Entry
<1>4. backlog' \cup inflight' = (backlog \cup inflight) \cup {new}
  BY <1>2
<1>5. Open' = Open \cup {published + 1}
  BY <1>1, <1>4 DEF Open, Numbers
<1>6. \A f, g \in backlog' \cup inflight' : f.n = g.n => f = g
  BY <1>1, <1>3, <1>4 DEF LogInv
<1>7. \A f \in backlog' \cup inflight' : f.n <= published'
  BY <1>1, <1>2, <1>3, <1>4 DEF LogInv
<1>8. ASSUME NEW w \in Worker, worker'[w].pc = "ack", worker'[w].token = token'
      PROVE  Numbers(Matching(inflight', worker'[w].batch)) \subseteq applied'
  BY <1>2, <1>8 DEF LogInv
<1>9. backlog' \cap inflight' = {}
  BY <1>1, <1>2, <1>3 DEF LogInv
<1>10. LogInv'
  BY <1>2, <1>5, <1>6, <1>7, <1>8, <1>9 DEF LogInv
<1> QED BY <1>2, <1>5, <1>10 DEF Log!Publish, Open

\* The entries of a reclaimed batch are the old ones at other positions.
LEMMA RequeuedNumbers ==
    ASSUME TypeInv, LogInv
    PROVE  /\ Numbers(backlog \cup Requeued) = Open
           /\ \A e, f \in backlog \cup Requeued : e.n = f.n => e = f
           /\ \A e \in backlog \cup Requeued : e.n <= published
<1>1. /\ \A e \in inflight : Place(e, inflight) \in Nat /\ tail + Place(e, inflight) \in Nat
      /\ Requeued = {At(e, tail + Place(e, inflight)) : e \in inflight}
      /\ inflight \subseteq Entry
  BY RequeuedFacts DEF TypeInv, TypeOK
<1>2. \A e \in inflight : At(e, tail + Place(e, inflight)).n = e.n
  BY <1>1, EntryAt
<1>3. \A g \in Requeued : \E e \in inflight : g.n = e.n /\ g = At(e, tail + Place(e, inflight))
  BY <1>1, <1>2
<1>4. \A e \in inflight : \E g \in Requeued : g.n = e.n
  BY <1>1, <1>2
<1>5. Numbers(backlog \cup Requeued) = Open
  BY <1>3, <1>4 DEF Open, Numbers
<1>6. \A e \in backlog \cup Requeued : e.n <= published
  BY <1>3 DEF LogInv
<1>7. ASSUME NEW e \in backlog \cup Requeued, NEW f \in backlog \cup Requeued, e.n = f.n
      PROVE  e = f
  <2>0. \A x, y \in backlog \cup inflight : x.n = y.n => x = y
    BY DEF LogInv
  <2>1. CASE e \in backlog /\ f \in backlog
    BY <1>7, <2>0, <2>1
  <2>2. CASE e \in Requeued /\ f \in Requeued
    BY <1>3, <1>7, <2>0, <2>2
  <2>3. ASSUME NEW x \in backlog, NEW y \in Requeued, x.n = y.n PROVE FALSE
    <3>1. PICK z \in inflight : y.n = z.n
      BY <1>3
    <3>2. x = z
      BY <2>0, <2>3, <3>1
    <3> QED BY <3>2 DEF LogInv
  <2> QED BY <1>7, <2>1, <2>2, <2>3
<1> QED BY <1>5, <1>6, <1>7

\* After a claim no worker that merged its batch holds the row's claim.
LEMMA ClaimNoAck ==
    ASSUME TypeInv, TokenInv, NEW w \in Worker, NEW r \in WorkerState,
           r.pc \in {"load", "purge"}, worker' = [worker EXCEPT ![w] = r], token' = claims + 1
    PROVE  \A v \in Worker : ~ (worker'[v].pc = "ack" /\ worker'[v].token = token')
<1>1. claims \in Nat /\ \A v \in Worker : worker[v].token \in Nat
  BY DEF TypeInv, TypeOK, WorkerState
<1>2. worker'[w] = r /\ \A v \in Worker \ {w} : worker'[v] = worker[v]
  BY DEF TypeInv, TypeOK
<1>3. \A v \in Worker : worker[v].pc = "ack" => worker[v].token <= claims
  BY DEF TokenInv, Working
<1> QED BY <1>1, <1>2, <1>3

LEMMA LogClaim ==
    ASSUME TypeInv, TokenInv, LogInv, NEW w \in Worker, Claim(w) \/ Reclaim(w)
    PROVE  LogInv' /\ UNCHANGED Log!vars
<1>0. TypeOK
  BY DEF TypeInv
<1>1. applied' = applied /\ published' = published
  BY DEF Claim, Reclaim, source
<1>2. ASSUME NEW list, NEW leftover, ClaimRow(w, list, leftover),
             list \in SUBSET Entry, leftover \in SUBSET Entry,
             IsFiniteSet(list), IsFiniteSet(leftover),
             list \cap leftover = {}, Numbers(list \cup leftover) = Open,
             \A e, f \in list \cup leftover : e.n = f.n => e = f,
             \A e \in list \cup leftover : e.n <= published
      PROVE  LogInv' /\ UNCHANGED Log!vars
  <2>1. PICK r \in WorkerState :
             /\ r.batch \in SUBSET list /\ r.pc \in {"load", "purge"}
             /\ worker' = [worker EXCEPT ![w] = r]
             /\ backlog' = list \ r.batch /\ inflight' = leftover \cup r.batch
    BY <1>0, <1>2, ClaimRowFacts
  <2>2. backlog' \cup inflight' = list \cup leftover /\ backlog' \cap inflight' = {}
    BY <1>2, <2>1
  <2>3. Open' = Open
    BY <1>2, <2>2 DEF Open, Numbers
  <2>4. token' = claims + 1
    BY <1>2, ClaimStamp
  <2>5. \A v \in Worker : ~ (worker'[v].pc = "ack" /\ worker'[v].token = token')
    BY <2>1, <2>4, ClaimNoAck
  <2>6. LogInv'
    BY <1>1, <1>2, <2>2, <2>3, <2>5 DEF LogInv
  <2> QED BY <1>1, <2>3, <2>6 DEF Log!vars, Open
<1>3. CASE Claim(w)
  <2>1. ClaimRow(w, backlog, inflight)
    BY <1>3 DEF Claim
  <2>2. /\ backlog \in SUBSET Entry /\ inflight \in SUBSET Entry
        /\ IsFiniteSet(backlog) /\ IsFiniteSet(inflight)
    BY DEF TypeInv, TypeOK
  <2> QED BY <1>2, <2>1, <2>2 DEF LogInv, Open
<1>4. CASE Reclaim(w)
  <2>1. PICK list, none : list = backlog \cup Requeued /\ none = {} /\ ClaimRow(w, list, none)
    BY <1>4 DEF Reclaim
  <2>2. /\ list \in SUBSET Entry /\ none \in SUBSET Entry
        /\ IsFiniteSet(list) /\ IsFiniteSet(none) /\ ClaimRow(w, list, none)
    BY <2>1, RequeuedFacts, FS_Union, FS_EmptySet DEF TypeInv, TypeOK
  <2>3. list \cup none = list /\ list \cap none = {}
    BY <2>1
  <2>4. /\ Numbers(list \cup none) = Open
        /\ \A e, f \in list \cup none : e.n = f.n => e = f
        /\ \A e \in list \cup none : e.n <= published
    BY <2>1, <2>3, RequeuedNumbers
  <2> QED BY <1>2, <2>2, <2>3, <2>4
<1> QED BY <1>3, <1>4

LEMMA LogApply ==
    ASSUME TypeInv, TokenInv, LogInv, NEW w \in Worker, ProjectWikiGraph(w)
    PROVE  LogInv' /\ \E S \in SUBSET Open : Log!Apply(S)
<1> DEFINE S == Numbers(Matching(inflight, worker[w].batch))
<1>0. TypeOK /\ Moves(w)
  BY DEF TypeInv, Moves
<1>1. S \subseteq Open
  BY DEF Open, Numbers, Matching
<1>2. applied' = applied \cup S
  BY DEF ProjectWikiGraph
<1>3. UNCHANGED <<backlog, inflight, published, token>>
  BY DEF ProjectWikiGraph, rest, row, source
<1>4. Open' = Open
  BY <1>3 DEF Open
<1>5. /\ worker[w].pc = "graph" /\ worker[w].token = token
  BY DEF ProjectWikiGraph, WithWriteLock
<1>6. /\ worker'[w].batch = worker[w].batch
      /\ \A v \in Worker \ {w} : worker'[v] = worker[v]
  BY <1>0, MovesWorker
<1>7. ASSUME NEW v \in Worker, worker'[v].pc = "ack", worker'[v].token = token'
      PROVE  Numbers(Matching(inflight', worker'[v].batch)) \subseteq applied'
  <2>1. CASE v = w
    BY <1>2, <1>3, <1>6, <2>1
  <2>2. CASE v # w
    BY <1>2, <1>3, <1>6, <1>7, <2>2 DEF LogInv
  <2> QED BY <2>1, <2>2
<1> HIDE DEF S
<1>8. LogInv'
  BY <1>1, <1>2, <1>3, <1>4, <1>7 DEF LogInv
<1>9. Log!Apply(S)
  BY <1>1, <1>2, <1>3, <1>4 DEF Log!Apply, Open
<1> QED BY <1>1, <1>8, <1>9

LEMMA LogSettle ==
    ASSUME TypeInv, TokenInv, LogInv, NEW w \in Worker, Ack(w), worker[w].token = token
    PROVE  LogInv' /\ \E S \in SUBSET Open : Log!Settle(S)
<1> DEFINE removed == Matching(inflight, worker[w].batch)
           left == inflight \ removed
           S == Numbers(removed)
<1>0. TypeOK
  BY DEF TypeInv
<1>1. /\ inflight' = left /\ applied' = applied \ Numbers(inflight \ left)
      /\ backlog' = backlog /\ published' = published
  BY AckFacts, Zenon DEF source
<1>2. removed \subseteq inflight
  BY DEF Matching
<1>3. inflight \ left = removed
  BY <1>2
<1>4. S \subseteq applied
  BY AckFacts DEF LogInv
<1>5. Open' = Open \ S
  <2> HIDE DEF removed
  <2>1. /\ backlog \cap inflight = {}
        /\ \A e, f \in backlog \cup inflight : e.n = f.n => e = f
    BY DEF LogInv
  <2>2. \A x : x \in Open' <=> \E e \in backlog \cup (inflight \ removed) : x = e.n
    BY <1>1 DEF Open, Numbers
  <2>3. \A x : x \in Open <=> \E e \in backlog \cup inflight : x = e.n
    BY DEF Open, Numbers
  <2>4. \A x : x \in S <=> \E e \in removed : x = e.n
    BY DEF Numbers
  <2> HIDE DEF S
  <2>5. \A x \in Open' : x \in Open /\ x \notin S
    BY <1>2, <2>1, <2>2, <2>3, <2>4
  <2>6. \A x \in Open : x \notin S => x \in Open'
    BY <2>2, <2>3, <2>4
  <2> QED BY <2>5, <2>6
<1>6. applied' = applied \ S
  BY <1>1, <1>3
<1>7. applied \subseteq Open
  BY DEF LogInv
<1>8. Log!Settle(S)
  <2> HIDE DEF S
  <2> QED BY <1>1, <1>4, <1>5, <1>6 DEF Log!Settle, Open
<1>9. \A v \in Worker : ~ (worker'[v].pc = "ack" /\ worker'[v].token = token')
  <2>1. worker'[w].pc = "idle" /\ token' \in {0, token}
        /\ \A v \in Worker \ {w} : worker'[v] = worker[v]
    BY <1>0, DropsFacts DEF Drops
  <2>2. \A v \in Worker : worker[v].token \in Nat
    BY <1>0 DEF TypeOK, WorkerState
  <2>3. worker[w].pc = "ack"
    BY AckFacts
  <2>4. \A v \in Worker \ {w} : worker[v].pc = "ack" =>
            worker[v].token # token /\ 1 <= worker[v].token
    BY <2>3 DEF TokenInv, Working
  <2> QED BY <2>1, <2>2, <2>4
<1> HIDE DEF S, removed
<1>10. LogInv'
  <2>1. backlog' \cap inflight' = {}
    BY <1>1 DEF LogInv
  <2>2. \A e, f \in backlog' \cup inflight' : e.n = f.n => e = f
    BY <1>1 DEF LogInv
  <2>3. \A e \in backlog' \cup inflight' : e.n <= published'
    BY <1>1 DEF LogInv
  <2>4. applied' \subseteq Open'
    BY <1>5, <1>6, <1>7
  <2> QED BY <1>9, <2>1, <2>2, <2>3, <2>4 DEF LogInv
<1>11. S \in SUBSET Open
  BY <1>4, <1>7
<1> QED BY <1>8, <1>10, <1>11

LEMMA LogStep ==
    TypeInv /\ TokenInv /\ LogInv /\ [Next]_vars => LogInv' /\ [Log!Next]_(Log!vars)
<1> SUFFICES ASSUME TypeInv, TokenInv, LogInv, [Next]_vars
             PROVE  LogInv' /\ (Log!Next \/ UNCHANGED Log!vars)
  OBVIOUS
<1>0. TypeOK /\ WorkersOK
  BY DEF TypeInv, TypeOK, WorkersOK
<1>1. CASE UNCHANGED vars
  <2>1. UNCHANGED <<backlog, inflight, published, applied, token, worker>>
    BY <1>1 DEF vars, row, source
  <2> QED BY <2>1, LogKept
<1>2. ASSUME NEW d \in Doc, Edits(d) PROVE LogInv' /\ UNCHANGED Log!vars
  <2>1. UNCHANGED <<backlog, inflight, published, applied, token, worker>>
    BY <1>2, EditsFacts, TypeParts DEF row
  <2> QED BY <2>1, LogKept
<1>3. ASSUME NEW e \in due, PublishFails(e) PROVE LogInv' /\ UNCHANGED Log!vars
  <2>1. UNCHANGED <<backlog, inflight, published, applied, token, worker>>
    BY <1>3 DEF PublishFails, row
  <2> QED BY <2>1, LogKept
<1>4. ASSUME NEW e \in due, Publish(e) PROVE LogInv' /\ Log!Next
  BY <1>4, LogPublish DEF Log!Next
<1>5. ASSUME NEW w \in Worker, Claim(w) \/ Reclaim(w) PROVE LogInv' /\ UNCHANGED Log!vars
  BY <1>5, LogClaim
<1>6. ASSUME NEW w \in Worker, Moves(w), ~ ProjectWikiGraph(w)
      PROVE  LogInv' /\ UNCHANGED Log!vars
  <2>1. UNCHANGED <<backlog, inflight, published, token>>
    BY <1>0, <1>6, MovesLocked DEF row, source
  <2>2. applied' = applied /\ worker[w].pc # "graph"
    BY <1>6 DEF Moves, Purge, Strip, Load, MergeStructure, WriteMerged
  <2>3. \A v \in Worker : worker'[v].pc = "ack" => worker'[v] = worker[v]
    BY <1>0, <1>6, <2>2, MovesWorker DEF After
  <2> QED BY <2>1, <2>2, <2>3, LogKept
<1>7. ASSUME NEW w \in Worker, ProjectWikiGraph(w) PROVE LogInv' /\ Log!Next
  BY <1>7, LogApply DEF Log!Next, Open
<1>8. ASSUME NEW w \in Worker, Ack(w), worker[w].token = token PROVE LogInv' /\ Log!Next
  BY <1>8, LogSettle DEF Log!Next, Open
<1>9. ASSUME NEW w \in Worker, Drops(w), ~ (Ack(w) /\ worker[w].token = token)
      PROVE  LogInv' /\ UNCHANGED Log!vars
  <2>1. UNCHANGED <<backlog, inflight, published, applied, token>>
    <3>1. CASE Ack(w)
      BY <1>9, <3>1, AckFacts DEF source
    <3>2. CASE ~ Ack(w)
      BY <1>9, <3>2 DEF Drops, ReclaimLost, Superseded, Abandon, SkipAck, row, source, rest
    <3> QED BY <3>1, <3>2
  <2>2. \A v \in Worker : worker'[v].pc = "ack" => worker'[v] = worker[v]
    BY <1>0, <1>9, DropsFacts
  <2> QED BY <2>1, <2>2, LogKept
<1>10. ASSUME NEW w \in Worker, Leases(w) PROVE LogInv' /\ UNCHANGED Log!vars
  <2>1. UNCHANGED <<backlog, inflight, published, applied, token>>
    BY <1>0, <1>10, LeasesFacts DEF source
  <2>2. \A v \in Worker : worker'[v].pc = "ack" =>
            worker[v].pc = "ack" /\ worker'[v].token = worker[v].token
            /\ worker'[v].batch = worker[v].batch
    BY <1>0, <1>10, LeasesFacts
  <2> QED BY <2>1, <2>2, LogKept
<1> QED BY <1>1, <1>2, <1>3, <1>4, <1>5, <1>6, <1>7, <1>8, <1>9, <1>10, Steps

\* The scheduling row implements EventLog: whatever claims, lost leases, takeovers,
\* failed batches and refused acknowledgements happen, no published event leaves the
\* row before a batch that covers it has been merged.
THEOREM Refines == Spec => ImplementsLog
<1>1. Init => Log!Init
  BY LogInit
<1> QED
  BY <1>1, TypeInit, TypeStep, TokenInit, TokenStep, LogInit, LogStep, PTL
     DEF Spec, ImplementsLog, Log!Spec

-----------------------------------------------------------------------------
(* Positions.                                                              *)

LEMMA SmallestOf ==
    ASSUME NEW T \in SUBSET Nat, T # {}
    PROVE  \E x \in T : \A y \in T : x <= y
<1> DEFINE R == OpToRel(<, Nat)
<1>1. IsWellFoundedOn(R, Nat)
  BY NatLessThanWellFounded, Zenon
<1>2. \A x, y \in Nat : y < x => <<y, x>> \in R
  BY DEF OpToRel
<1> HIDE DEF R
<1>3. PICK x \in T : \A y \in T : ~ (<<y, x>> \in R)
  <2>1. T \subseteq Nat /\ T # {}
    OBVIOUS
  <2> QED BY <1>1, <2>1, WFMin, Zenon
<1>4. ASSUME NEW y \in T PROVE x <= y
  <2>1. x \in Nat /\ y \in Nat
    OBVIOUS
  <2>2. y < x => <<y, x>> \in R
    BY <1>2, <2>1, Zenon
  <2>3. ~ (<<y, x>> \in R)
    BY <1>3
  <2>4. ~ (y < x)
    BY <2>2, <2>3, Zenon
  <2> QED BY <2>1, <2>4
<1> QED BY <1>4

\* A list has a last entry.
LEMMA LastOf ==
    ASSUME NEW S \in SUBSET Entry, S # {}, NEW t \in Nat, \A e \in S : e.pos <= t
    PROVE  \E e \in S : \A f \in S : f.pos <= e.pos
<1> DEFINE T == {t - e.pos : e \in S}
<1>1. \A e \in S : e.pos \in Nat
  BY DEF Entry
<1>2. T \in SUBSET Nat
  BY <1>1
<1>3. T # {}
  OBVIOUS
<1>4. PICK x \in T : \A y \in T : x <= y
  BY <1>2, <1>3, SmallestOf
<1>5. PICK e \in S : x = t - e.pos
  BY <1>4
<1>6. \A f \in S : t - f.pos \in T
  OBVIOUS
<1> HIDE DEF T
<1>7. \A f \in S : f.pos <= e.pos
  BY <1>1, <1>4, <1>5, <1>6
<1> QED BY <1>7

\* In a list without two entries at one position the last event of a document
\* decides.
LEMMA LastDecides ==
    ASSUME NEW batch \in SUBSET Entry, NEW e \in batch,
           \A f, g \in batch : f.pos = g.pos => f = g,
           \A f \in batch : f.doc = e.doc => f.pos <= e.pos
    PROVE  WinEvent(e.doc, batch) = e
<1> DEFINE P(x) == x \in batch /\ x.doc = e.doc /\ \A f \in batch : f.doc = e.doc => f.pos <= x.pos
           x == CHOOSE x : P(x)
<1>1. Last(e.doc, batch) = x
  BY DEF Last
<1>2. P(e)
  OBVIOUS
<1>3. P(x)
  BY <1>2, Zenon
<1>4. \A f \in batch : f.pos \in Nat
  BY DEF Entry
<1> HIDE DEF x
<1>5. x = e
  BY <1>3, <1>4
<1> QED BY <1>1, <1>5 DEF WinEvent

\* The event that decides is one of the batch.
LEMMA WinInBatch ==
    ASSUME NEW batch \in SUBSET Entry, NEW d \in Docs(batch),
           NEW t \in Nat, \A e \in batch : e.pos <= t
    PROVE  WinEvent(d, batch) \in batch /\ WinEvent(d, batch).doc = d
<1> DEFINE S == {e \in batch : e.doc = d}
           P(x) == x \in batch /\ x.doc = d /\ \A f \in batch : f.doc = d => f.pos <= x.pos
           x == CHOOSE x : P(x)
<1>1. S \in SUBSET Entry /\ S # {} /\ \A e \in S : e.pos <= t
  BY DEF Docs
<1>2. PICK e \in S : \A f \in S : f.pos <= e.pos
  BY <1>1, LastOf
<1>3. P(e)
  BY <1>2
<1>4. P(x)
  BY <1>3, Zenon
<1>5. Last(d, batch) = x
  BY DEF Last
<1> HIDE DEF x
<1> QED BY <1>4, <1>5 DEF WinEvent

LEMMA PlaceType ==
    ASSUME NEW list \in SUBSET Entry, IsFiniteSet(list), NEW e \in list
    PROVE  Place(e, list) \in Nat /\ 1 <= Place(e, list) /\ Place(e, list) <= Cardinality(list)
<1> DEFINE S == {f \in list : f.pos <= e.pos}
<1>1. S \in SUBSET list /\ e \in S
  BY DEF Entry
<1>2. Place(e, list) = Cardinality(S)
  BY DEF Place
<1> HIDE DEF S
<1>3. IsFiniteSet(S) /\ Cardinality(S) <= Cardinality(list)
  BY <1>1, FS_Subset
<1>4. Cardinality(S) \in Nat /\ Cardinality(S) # 0
  BY <1>1, <1>3, FS_CardinalityType, FS_EmptySet
<1> QED BY <1>2, <1>3, <1>4

\* Places are given in the order of the positions.
LEMMA PlaceOrder ==
    ASSUME NEW list \in SUBSET Entry, IsFiniteSet(list), NEW e \in list, NEW f \in list
    PROVE  /\ f.pos <= e.pos => Place(f, list) <= Place(e, list)
           /\ f.pos < e.pos => Place(f, list) < Place(e, list)
<1> DEFINE S == {g \in list : g.pos <= f.pos}
           T == {g \in list : g.pos <= e.pos}
<1>0. \A g \in list : g.pos \in Nat
  BY DEF Entry
<1>1. Place(f, list) = Cardinality(S) /\ Place(e, list) = Cardinality(T)
  BY DEF Place
<1>2. f.pos <= e.pos => S \in SUBSET T
  BY <1>0
<1>3. f.pos < e.pos => e \in T /\ e \notin S
  BY <1>0
<1>4. T \in SUBSET list
  OBVIOUS
<1>5. S \in SUBSET list
  OBVIOUS
<1> HIDE DEF S, T
<1>6. IsFiniteSet(T) /\ IsFiniteSet(S)
  BY <1>4, <1>5, FS_Subset
<1>7. Cardinality(S) \in Nat /\ Cardinality(T) \in Nat
  BY <1>6, FS_CardinalityType
<1>8. S \in SUBSET T => Cardinality(S) <= Cardinality(T) /\ (Cardinality(S) = Cardinality(T) => T = S)
  BY <1>6, FS_Subset
<1> QED BY <1>0, <1>1, <1>2, <1>3, <1>7, <1>8

-----------------------------------------------------------------------------
(* The order of the lists.                                                 *)

Rows == backlog \cup inflight

\* Worker w runs the batch of the claim in the row.
Holds(w) == Working(w) /\ worker[w].token = token

\* No two entries share a position, what is in flight comes before the
\* backlog, and the batch of the row's claim is in flight, behind the
\* leftovers of dead claims.
PosInv ==
    /\ \A e \in Rows : e.pos <= tail
    /\ \A e, f \in Rows : e.pos = f.pos => e = f
    /\ \A e \in inflight, f \in backlog : e.pos < f.pos
    /\ \A w \in Worker : Holds(w) =>
         /\ worker[w].batch \subseteq inflight
         /\ \A e \in worker[w].batch, f \in inflight \ worker[w].batch : f.pos < e.pos

LEMMA PosInit == Init => PosInv
BY DEF Init, PosInv, Rows, Holds, Working, Idle

LEMMA PosKept ==
    ASSUME PosInv, UNCHANGED <<backlog, inflight, tail>>,
           \A w \in Worker : Holds(w)' => Holds(w) /\ worker'[w].batch = worker[w].batch
    PROVE  PosInv'
BY DEF PosInv, Rows

LEMMA PosPublish ==
    ASSUME TypeInv, PosInv, NEW e \in due, Publish(e)
    PROVE  PosInv'
<1> DEFINE new == [n |-> published + 1, pos |-> tail + 1, doc |-> e.doc,
                   ev |-> e.ev, kind |-> e.kind]
<1>1. new.pos = tail + 1
  OBVIOUS
<1>2. /\ backlog' = backlog \cup {new} /\ tail' = tail + 1
      /\ UNCHANGED <<inflight, token, worker>>
  BY DEF Publish
<1> HIDE DEF new
<1>3. tail \in Nat /\ \A f \in Rows : f.pos \in Nat
  BY DEF TypeInv, TypeOK, Entry, Rows
<1>4. Rows' = Rows \cup {new}
  BY <1>2 DEF Rows
<1>5. \A f \in Rows' : f.pos <= tail'
  BY <1>1, <1>2, <1>3, <1>4 DEF PosInv
<1>6. \A f, g \in Rows' : f.pos = g.pos => f = g
  BY <1>1, <1>3, <1>4 DEF PosInv
<1>7. \A f \in inflight', g \in backlog' : f.pos < g.pos
  BY <1>1, <1>2, <1>3 DEF PosInv, Rows
<1>8. \A w \in Worker : Holds(w)' <=> Holds(w)
  BY <1>2 DEF Holds, Working
<1> QED BY <1>2, <1>5, <1>6, <1>7, <1>8 DEF PosInv

\* What claimRow leaves: the batch is the head of the list.
LEMMA ClaimHead ==
    ASSUME NEW w \in Worker, NEW list \in SUBSET Entry, NEW leftover \in SUBSET Entry,
           IsFiniteSet(list), IsFiniteSet(leftover), TypeInv, TokenInv,
           ClaimRow(w, list, leftover)
    PROVE  \E r \in WorkerState :
             /\ r.batch \in SUBSET list
             /\ \A e \in r.batch, f \in list \ r.batch : e.pos < f.pos
             /\ r.pc = (IF Deleted(r.batch) = {} THEN "load" ELSE "purge")
             /\ \A d \in Doc : r.loaded[d] = {}
             /\ worker' = [worker EXCEPT ![w] = r] /\ worker'[w] = r
             /\ backlog' = list \ r.batch /\ inflight' = leftover \cup r.batch
             /\ \A v \in Worker : Holds(v)' => v = w
<1> DEFINE batch == {e \in list : Place(e, list) <= BatchSize}
           pc == IF Deleted(batch) = {} THEN "load" ELSE "purge"
           none == [d \in Doc |-> {}]
           r == [pc |-> pc, token |-> claims + 1, batch |-> batch, loaded |-> none, hb |-> TRUE]
<1>1. batch \in SUBSET list
  OBVIOUS
<1>2. /\ worker' = [worker EXCEPT ![w] = r] /\ token' = claims + 1
      /\ backlog' = list \ batch /\ inflight' = leftover \cup batch
  BY DEF ClaimRow
<1>3. ASSUME NEW e \in batch, NEW f \in list \ batch PROVE e.pos < f.pos
  <2>1. e \in list /\ f \in list /\ Place(e, list) <= BatchSize /\ ~ (Place(f, list) <= BatchSize)
    OBVIOUS
  <2>2. Place(e, list) \in Nat /\ Place(f, list) \in Nat
    BY <2>1, PlaceType
  <2>3. f.pos <= e.pos => Place(f, list) <= Place(e, list)
    BY <2>1, PlaceOrder
  <2>4. e.pos \in Nat /\ f.pos \in Nat
    BY <2>1 DEF Entry
  <2> QED BY <2>1, <2>2, <2>3, <2>4, CompileBacklogAssumption
<1>4. pc \in {"load", "purge"} /\ pc = (IF Deleted(batch) = {} THEN "load" ELSE "purge")
  OBVIOUS
<1> HIDE DEF batch, pc
<1>5. none \in [Doc -> SUBSET Chunk] /\ \A d \in Doc : none[d] = {}
  OBVIOUS
<1> HIDE DEF none
<1>6. /\ r \in WorkerState /\ r.batch = batch /\ r.pc = pc /\ r.token = claims + 1
      /\ r.loaded = none
  <2>1. claims + 1 \in Nat /\ batch \in SUBSET Entry
    BY <1>1 DEF TypeInv, TypeOK
  <2> QED BY <1>4, <1>5, <2>1 DEF WorkerState
<1> HIDE DEF r
<1>7. worker'[w] = r /\ \A v \in Worker \ {w} : worker'[v] = worker[v]
  BY <1>2 DEF TypeInv, TypeOK
<1>8. ASSUME NEW v \in Worker, Holds(v)' PROVE v = w
  <2>1. claims \in Nat /\ worker[v].token \in Nat
    BY DEF TypeInv, TypeOK, WorkerState
  <2>2. Working(v) => worker[v].token <= claims
    BY DEF TokenInv
  <2> QED BY <1>2, <1>7, <1>8, <2>1, <2>2 DEF Holds, Working
<1>9. /\ r.batch \in SUBSET list /\ \A e \in r.batch, f \in list \ r.batch : e.pos < f.pos
      /\ r.pc = (IF Deleted(r.batch) = {} THEN "load" ELSE "purge")
      /\ \A d \in Doc : r.loaded[d] = {}
  BY <1>1, <1>3, <1>4, <1>5, <1>6
<1> QED BY <1>2, <1>6, <1>7, <1>8, <1>9

\* A claim keeps the order when its list comes behind the leftovers.
LEMMA PosClaimRow ==
    ASSUME NEW w \in Worker, NEW list \in SUBSET Entry, NEW leftover \in SUBSET Entry,
           IsFiniteSet(list), IsFiniteSet(leftover), TypeInv, TokenInv,
           ClaimRow(w, list, leftover),
           \A e \in list \cup leftover : e.pos <= tail',
           \A e, f \in list \cup leftover : e.pos = f.pos => e = f,
           \A e \in leftover, f \in list : e.pos < f.pos
    PROVE  PosInv'
<1>1. PICK r \in WorkerState :
             /\ r.batch \in SUBSET list
             /\ \A e \in r.batch, f \in list \ r.batch : e.pos < f.pos
             /\ worker'[w] = r
             /\ backlog' = list \ r.batch /\ inflight' = leftover \cup r.batch
             /\ \A v \in Worker : Holds(v)' => v = w
  BY ClaimHead
<1>2. Rows' = list \cup leftover
  BY <1>1 DEF Rows
<1>3. \A e \in inflight', f \in backlog' : e.pos < f.pos
  BY <1>1
<1>4. \A v \in Worker : Holds(v)' =>
         /\ worker'[v].batch \subseteq inflight'
         /\ \A e \in worker'[v].batch, f \in inflight' \ worker'[v].batch : f.pos < e.pos
  BY <1>1
<1> QED BY <1>2, <1>3, <1>4 DEF PosInv

\* The entries of a reclaimed batch go behind the backlog in their old order.
LEMMA RequeuedOrder ==
    ASSUME TypeInv, PosInv
    PROVE  /\ \A g \in Requeued : \E e \in inflight : g = At(e, tail + Place(e, inflight))
           /\ \A e \in inflight : At(e, tail + Place(e, inflight)) \in Requeued
           /\ \A e \in inflight : LET g == At(e, tail + Place(e, inflight)) IN
                /\ g.pos = tail + Place(e, inflight) /\ g.doc = e.doc /\ g.ev = e.ev
                /\ g.kind = e.kind /\ g.n = e.n
           /\ \A e \in inflight : Place(e, inflight) \in Nat /\ 1 <= Place(e, inflight)
                                  /\ Place(e, inflight) <= Cardinality(inflight)
           /\ \A e, f \in inflight : f.pos <= e.pos => Place(f, inflight) <= Place(e, inflight)
           /\ \A e, f \in inflight : Place(f, inflight) = Place(e, inflight) => f = e
<1>1. /\ inflight \in SUBSET Entry /\ IsFiniteSet(inflight) /\ tail \in Nat
      /\ \A e \in inflight : e.pos \in Nat
  BY DEF TypeInv, TypeOK, Entry
<1>2. Requeued = {At(e, tail + Place(e, inflight)) : e \in inflight}
  BY <1>1, RequeuedFacts
<1>3. \A e \in inflight : Place(e, inflight) \in Nat /\ 1 <= Place(e, inflight)
                          /\ Place(e, inflight) <= Cardinality(inflight)
  BY <1>1, PlaceType
<1>4. ASSUME NEW e \in inflight, NEW f \in inflight
      PROVE  /\ f.pos <= e.pos => Place(f, inflight) <= Place(e, inflight)
             /\ f.pos < e.pos => Place(f, inflight) < Place(e, inflight)
             /\ e.pos < f.pos => Place(e, inflight) < Place(f, inflight)
  BY <1>1, PlaceOrder
<1>5. ASSUME NEW e \in inflight, NEW f \in inflight, Place(f, inflight) = Place(e, inflight)
      PROVE  f = e
  <2>1. f.pos = e.pos
    BY <1>1, <1>3, <1>4, <1>5
  <2> QED BY <2>1 DEF PosInv, Rows
<1>6. ASSUME NEW e \in inflight
      PROVE  LET g == At(e, tail + Place(e, inflight)) IN
               /\ g.pos = tail + Place(e, inflight) /\ g.doc = e.doc /\ g.ev = e.ev
               /\ g.kind = e.kind /\ g.n = e.n
  BY <1>1, <1>3 DEF At, Entry
<1>7. /\ \A g \in Requeued : \E e \in inflight : g = At(e, tail + Place(e, inflight))
      /\ \A e \in inflight : At(e, tail + Place(e, inflight)) \in Requeued
  BY <1>2
<1>8. \A e, f \in inflight : f.pos <= e.pos => Place(f, inflight) <= Place(e, inflight)
  BY <1>4
<1>9. \A e, f \in inflight : Place(f, inflight) = Place(e, inflight) => f = e
  BY <1>5
<1> QED BY <1>3, <1>6, <1>7, <1>8, <1>9, Zenon

LEMMA PosReclaim ==
    ASSUME TypeInv, TokenInv, PosInv, NEW w \in Worker, Reclaim(w)
    PROVE  PosInv'
<1>1. PICK list, none : list = backlog \cup Requeued /\ none = {} /\ ClaimRow(w, list, none)
  BY DEF Reclaim
<1>2. /\ list \in SUBSET Entry /\ none \in SUBSET Entry
      /\ IsFiniteSet(list) /\ IsFiniteSet(none) /\ ClaimRow(w, list, none)
  BY <1>1, RequeuedFacts, FS_Union, FS_EmptySet DEF TypeInv, TypeOK
<1>3. /\ tail \in Nat /\ tail' = tail + Cardinality(inflight) /\ Cardinality(inflight) \in Nat
      /\ \A e \in backlog : e.pos \in Nat
  BY FS_CardinalityType DEF Reclaim, TypeInv, TypeOK, Entry
<1>4. ASSUME NEW g \in Requeued
      PROVE  \E e \in inflight : /\ g = At(e, tail + Place(e, inflight))
                                 /\ g.pos = tail + Place(e, inflight)
                                 /\ Place(e, inflight) \in Nat /\ 1 <= Place(e, inflight)
                                 /\ Place(e, inflight) <= Cardinality(inflight)
  BY RequeuedOrder, Zenon
<1>5. \A e \in backlog : e.pos <= tail
  BY DEF PosInv, Rows
<1>6. \A e \in list \cup none : e.pos <= tail'
  BY <1>1, <1>3, <1>4, <1>5
<1>7. ASSUME NEW e \in Requeued, NEW f \in Requeued, e.pos = f.pos PROVE e = f
  <2>1. PICK x \in inflight : /\ e = At(x, tail + Place(x, inflight))
                              /\ e.pos = tail + Place(x, inflight) /\ Place(x, inflight) \in Nat
    BY <1>4
  <2>2. PICK y \in inflight : /\ f = At(y, tail + Place(y, inflight))
                              /\ f.pos = tail + Place(y, inflight) /\ Place(y, inflight) \in Nat
    BY <1>4
  <2>3. Place(x, inflight) = Place(y, inflight)
    BY <1>3, <1>7, <2>1, <2>2
  <2>4. x = y
    BY <2>3, RequeuedOrder
  <2> QED BY <2>1, <2>2, <2>4
<1>8. \A e \in backlog, f \in Requeued : e.pos # f.pos
  BY <1>3, <1>4, <1>5
<1>9. \A e, f \in backlog : e.pos = f.pos => e = f
  BY DEF PosInv, Rows
<1>10. \A e, f \in list \cup none : e.pos = f.pos => e = f
  BY <1>1, <1>7, <1>8, <1>9
<1>11. \A e \in none, f \in list : e.pos < f.pos
  BY <1>1
<1> QED BY <1>2, <1>6, <1>10, <1>11, PosClaimRow

LEMMA PosClaim ==
    ASSUME TypeInv, TokenInv, PosInv, NEW w \in Worker, Claim(w)
    PROVE  PosInv'
<1>1. /\ backlog \in SUBSET Entry /\ inflight \in SUBSET Entry
      /\ IsFiniteSet(backlog) /\ IsFiniteSet(inflight)
  BY DEF TypeInv, TypeOK
<1>2. ClaimRow(w, backlog, inflight) /\ tail' = tail
  BY DEF Claim
<1>3. /\ \A e \in backlog \cup inflight : e.pos <= tail'
      /\ \A e, f \in backlog \cup inflight : e.pos = f.pos => e = f
      /\ \A e \in inflight, f \in backlog : e.pos < f.pos
  BY <1>2 DEF PosInv, Rows
<1> QED BY <1>1, <1>2, <1>3, PosClaimRow

\* Nobody holds the row's claim once it is acknowledged.
LEMMA AckReleases ==
    ASSUME TypeInv, TokenInv, NEW w \in Worker, Ack(w), worker[w].token = token
    PROVE  \A v \in Worker : ~ Holds(v)'
<1>0. TypeOK
  BY DEF TypeInv
<1>1. worker'[w].pc = "idle" /\ token' \in {0, token}
      /\ \A v \in Worker \ {w} : worker'[v] = worker[v]
  BY <1>0, DropsFacts DEF Drops
<1>2. worker[w].pc = "ack"
  BY AckFacts
<1>3. \A v \in Worker \ {w} : Working(v) => worker[v].token # token /\ worker[v].token # 0
  <2>1. \A v \in Worker : worker[v].token \in Nat
    BY <1>0 DEF TypeOK, WorkerState
  <2> QED BY <1>2, <2>1 DEF TokenInv, Working
<1> QED BY <1>1, <1>3 DEF Holds, Working

LEMMA PosAck ==
    ASSUME TypeInv, TokenInv, PosInv, NEW w \in Worker, Ack(w), worker[w].token = token
    PROVE  PosInv'
<1>1. /\ inflight' = inflight \ Matching(inflight, worker[w].batch)
      /\ backlog' = backlog /\ tail' = tail
  BY AckFacts, Zenon
<1>2. \A v \in Worker : ~ Holds(v)'
  BY AckReleases
<1>3. inflight' \subseteq inflight /\ Rows' \subseteq Rows
  BY <1>1 DEF Rows
<1> QED BY <1>1, <1>2, <1>3 DEF PosInv

\* The steps that take no entry from the row and start no claim: a worker that
\* holds the row's claim after one held it before, with the same batch.
LEMMA HoldersKept ==
    ASSUME TypeInv, TokenInv, NEW w \in Worker,
           Moves(w) \/ Leases(w) \/ (Drops(w) /\ ~ (Ack(w) /\ worker[w].token = token))
    PROVE  /\ UNCHANGED <<backlog, inflight, tail, token>>
           /\ \A v \in Worker : Holds(v)' => Holds(v) /\ worker'[v].batch = worker[v].batch
<1>0. TypeOK /\ WorkersOK
  BY DEF TypeInv, TypeOK, WorkersOK
<1>1. CASE Moves(w)
  <2>1. UNCHANGED <<backlog, inflight, tail, token>>
    BY <1>0, <1>1, MovesLocked DEF row
  <2> QED BY <1>0, <1>1, <2>1, MovesWorker DEF Holds, Working
<1>2. CASE Leases(w)
  BY <1>0, <1>2, LeasesFacts DEF Holds, Working
<1>3. CASE Drops(w) /\ ~ (Ack(w) /\ worker[w].token = token)
  <2>1. UNCHANGED <<backlog, inflight, tail, token>>
    <3>1. CASE Ack(w)
      BY <1>3, <3>1, AckFacts
    <3>2. CASE ~ Ack(w)
      BY <1>3, <3>2 DEF Drops, ReclaimLost, Superseded, Abandon, SkipAck, row, rest
    <3> QED BY <3>1, <3>2
  <2> QED BY <1>0, <1>3, <2>1, DropsFacts DEF Holds, Working
<1> QED BY <1>1, <1>2, <1>3

LEMMA PosStep == TypeInv /\ TokenInv /\ PosInv /\ [Next]_vars => PosInv'
<1> SUFFICES ASSUME TypeInv, TokenInv, PosInv, [Next]_vars PROVE PosInv'
  OBVIOUS
<1>1. CASE \/ UNCHANGED vars
           \/ \E d \in Doc : Edits(d)
           \/ \E e \in due : PublishFails(e)
  <2>0. SourceOK
    BY TypeParts
  <2>1. UNCHANGED <<backlog, inflight, tail, token, worker>>
    BY <1>1, <2>0, EditsFacts DEF PublishFails, row, vars
  <2>2. \A w \in Worker : Holds(w)' => Holds(w) /\ worker'[w].batch = worker[w].batch
    BY <2>1 DEF Holds, Working
  <2> QED BY <2>1, <2>2, PosKept
<1>2. ASSUME NEW e \in due, Publish(e) PROVE PosInv'
  BY <1>2, PosPublish
<1>3. ASSUME NEW w \in Worker, Claim(w) \/ Reclaim(w) PROVE PosInv'
  BY <1>3, PosClaim, PosReclaim
<1>4. ASSUME NEW w \in Worker, Ack(w), worker[w].token = token PROVE PosInv'
  BY <1>4, PosAck
<1>5. ASSUME NEW w \in Worker,
             Moves(w) \/ Leases(w) \/ (Drops(w) /\ ~ (Ack(w) /\ worker[w].token = token))
      PROVE  PosInv'
  BY <1>5, HoldersKept, PosKept
<1> QED BY <1>1, <1>2, <1>3, <1>4, <1>5, Steps

-----------------------------------------------------------------------------
(* Documents and their events.                                             *)

\* The chunks in the index of the last complete version of d.
Current(d) == {c \in product[d] : c.ver = last[d]}

\* A delete event is of a deleted document, and a completed one names a kind;
\* one that is due names the kind of its document's current chunks, and no
\* version is being written next to it; versions are numbered as they are
\* started, and the chunks of the one being written are all of its kind.
SrcInv ==
    /\ \A e \in Rows \cup due : /\ e.ev = "deleted" => e.doc \in gone
                                /\ e.ev = "completed" => e.kind \in Kind
    /\ \A e \in due : e.ev = "completed" =>
         /\ writing[e.doc] = NoVersion
         /\ \A c \in Current(e.doc) : c.kind = e.kind
    /\ \A d \in Doc :
         /\ last[d] <= writes
         /\ writing[d] # NoVersion => last[d] < writing[d].ver /\ writing[d].ver <= writes
         /\ \A c \in product[d] :
              /\ c.ver <= writes
              /\ writing[d] # NoVersion /\ c.ver = writing[d].ver => c.kind = writing[d].kind

LEMMA SrcInit == Init => SrcInv
BY DEF Init, SrcInv, Rows

\* A step that adds no event, no chunk and no version.
LEMMA SrcKept ==
    ASSUME SrcInv, TypeInv, due' \subseteq due, gone \subseteq gone', last' = last,
           writing' = writing, writes' \in Nat, writes <= writes',
           \A d \in Doc : product'[d] \subseteq product[d],
           \A e \in Rows' : \E f \in Rows \cup due :
              e.doc = f.doc /\ e.ev = f.ev /\ e.kind = f.kind
    PROVE  SrcInv'
<1>0. /\ writes \in Nat /\ \A d \in Doc : last[d] \in Nat
      /\ \A d \in Doc : \A c \in product[d] : c.ver \in Nat
      /\ \A d \in Doc : writing[d] # NoVersion => writing[d].ver \in Nat
      /\ \A e \in due : e.doc \in Doc
  BY CompileBacklogAssumption DEF TypeInv, TypeOK, Chunk, Version, Event
<1>1. \A e \in Rows' \cup due' : /\ e.ev = "deleted" => e.doc \in gone'
                                 /\ e.ev = "completed" => e.kind \in Kind
  BY DEF SrcInv
<1>2. \A d \in Doc : Current(d)' \subseteq Current(d)
  BY DEF Current
<1>3. \A e \in due' : e.ev = "completed" =>
         /\ writing'[e.doc] = NoVersion
         /\ \A c \in Current(e.doc)' : c.kind = e.kind
  BY <1>0, <1>2 DEF SrcInv
<1>4. ASSUME NEW d \in Doc
      PROVE  /\ last'[d] <= writes'
             /\ writing'[d] # NoVersion => last'[d] < writing'[d].ver /\ writing'[d].ver <= writes'
             /\ \A c \in product'[d] :
                  /\ c.ver <= writes'
                  /\ writing'[d] # NoVersion /\ c.ver = writing'[d].ver
                     => c.kind = writing'[d].kind
  BY <1>0 DEF SrcInv
<1> QED BY <1>1, <1>3, <1>4 DEF SrcInv

LEMMA SrcWrite ==
    ASSUME TypeInv, SrcInv, NEW d \in Doc, NEW k \in Kind, Write(d, k)
    PROVE  SrcInv'
<1> DEFINE new == [ver |-> writes + 1, kind |-> k, part |-> 1]
           v == [ver |-> writes + 1, kind |-> k]
<1>1. new.ver = writes + 1 /\ new.kind = k /\ v.ver = writes + 1 /\ v.kind = k
  OBVIOUS
<1>2. /\ product' = [product EXCEPT ![d] = @ \cup {new}]
      /\ writing' = [writing EXCEPT ![d] = v] /\ writes' = writes + 1
      /\ UNCHANGED <<backlog, inflight, gone, due, last>>
      /\ \A e \in due : e.doc = d => e.ev = "deleted"
  BY DEF Write, Insert, row
<1> HIDE DEF new, v
<1>3. /\ product'[d] = product[d] \cup {new} /\ writing'[d] = v
      /\ \A c \in Doc \ {d} : product'[c] = product[c] /\ writing'[c] = writing[c]
  BY <1>2 DEF TypeInv, TypeOK
<1>4. /\ writes \in Nat /\ \A c \in Doc : last[c] \in Nat
      /\ \A b \in Doc : \A c \in product[b] : c.ver \in Nat
      /\ \A b \in Doc : writing[b] # NoVersion => writing[b].ver \in Nat
      /\ \A e \in due : e.doc \in Doc
  BY CompileBacklogAssumption DEF TypeInv, TypeOK, Chunk, Version, Event
<1>5. Rows' = Rows
  BY <1>2 DEF Rows
<1>6. ASSUME NEW e \in due', e.ev = "completed"
      PROVE  writing'[e.doc] = NoVersion /\ \A c \in Current(e.doc)' : c.kind = e.kind
  <2>1. e \in due /\ e.doc # d /\ e.doc \in Doc
    BY <1>2, <1>4, <1>6
  <2>2. Current(e.doc)' = Current(e.doc)
    BY <1>2, <1>3, <2>1 DEF Current
  <2> QED BY <1>3, <1>6, <2>1, <2>2 DEF SrcInv
<1>7. ASSUME NEW b \in Doc
      PROVE  /\ last'[b] <= writes'
             /\ writing'[b] # NoVersion => last'[b] < writing'[b].ver /\ writing'[b].ver <= writes'
             /\ \A c \in product'[b] :
                  /\ c.ver <= writes'
                  /\ writing'[b] # NoVersion /\ c.ver = writing'[b].ver
                     => c.kind = writing'[b].kind
  <2>1. CASE b = d
    BY <1>1, <1>2, <1>3, <1>4, <2>1 DEF SrcInv
  <2>2. CASE b # d
    BY <1>2, <1>3, <1>4, <2>2 DEF SrcInv
  <2> QED BY <2>1, <2>2
<1>8. \A e \in Rows' \cup due' : /\ e.ev = "deleted" => e.doc \in gone'
                                 /\ e.ev = "completed" => e.kind \in Kind
  BY <1>2, <1>5 DEF SrcInv
<1> QED BY <1>6, <1>7, <1>8 DEF SrcInv

LEMMA SrcWriteRest ==
    ASSUME TypeInv, SrcInv, NEW d \in Doc, WriteRest(d)
    PROVE  SrcInv'
<1>0. PICK v \in [ver : Nat, kind : Kind] : v = writing[d]
  BY DEF WriteRest, TypeInv, TypeOK, Version
<1> DEFINE new == [ver |-> v.ver, kind |-> v.kind, part |-> 2]
           ev == [doc |-> d, ev |-> "completed", kind |-> v.kind]
<1>1. /\ new.ver = v.ver /\ new.kind = v.kind /\ v.ver \in Nat /\ v.kind \in Kind
      /\ ev.doc = d /\ ev.ev = "completed" /\ ev.kind = v.kind
  OBVIOUS
<1>2. /\ product' = [product EXCEPT ![d] = @ \cup {new}]
      /\ writing' = [writing EXCEPT ![d] = NoVersion] /\ writing[d] # NoVersion
      /\ last' = [last EXCEPT ![d] = v.ver] /\ due' = due \cup {ev}
      /\ UNCHANGED <<backlog, inflight, gone, writes>>
  BY <1>0 DEF WriteRest, Insert, row
<1> HIDE DEF new, ev
<1>3. /\ product'[d] = product[d] \cup {new} /\ writing'[d] = NoVersion /\ last'[d] = v.ver
      /\ \A c \in Doc \ {d} : /\ product'[c] = product[c] /\ writing'[c] = writing[c]
                              /\ last'[c] = last[c]
  BY <1>2 DEF TypeInv, TypeOK
<1>4. \A e \in due : e.doc \in Doc
  BY DEF TypeInv, TypeOK, Event
<1>5. Rows' = Rows
  BY <1>2 DEF Rows
<1>6. ASSUME NEW e \in due', e.ev = "completed"
      PROVE  writing'[e.doc] = NoVersion /\ \A c \in Current(e.doc)' : c.kind = e.kind
  <2>1. CASE e = ev
    <3>1. \A c \in product[d] : c.ver = v.ver => c.kind = v.kind
      BY <1>0, <1>2 DEF SrcInv
    <3>2. \A c \in Current(d)' : c.kind = v.kind
      BY <1>1, <1>3, <3>1 DEF Current
    <3> QED BY <1>1, <1>3, <2>1, <3>2
  <2>2. CASE e \in due
    <3>1. e.doc # d /\ e.doc \in Doc
      BY <1>2, <1>4, <1>6, <2>2 DEF SrcInv
    <3>2. Current(e.doc)' = Current(e.doc)
      BY <1>3, <3>1 DEF Current
    <3> QED BY <1>3, <1>6, <2>2, <3>1, <3>2 DEF SrcInv
  <2> QED BY <1>2, <2>1, <2>2
<1>7. ASSUME NEW b \in Doc
      PROVE  /\ last'[b] <= writes'
             /\ writing'[b] # NoVersion => last'[b] < writing'[b].ver /\ writing'[b].ver <= writes'
             /\ \A c \in product'[b] :
                  /\ c.ver <= writes'
                  /\ writing'[b] # NoVersion /\ c.ver = writing'[b].ver
                     => c.kind = writing'[b].kind
  <2>1. CASE b = d
    BY <1>0, <1>1, <1>2, <1>3, <2>1 DEF SrcInv
  <2>2. CASE b # d
    BY <1>2, <1>3, <2>2 DEF SrcInv
  <2> QED BY <2>1, <2>2
<1>8. \A e \in Rows' \cup due' : /\ e.ev = "deleted" => e.doc \in gone'
                                 /\ e.ev = "completed" => e.kind \in Kind
  BY <1>1, <1>2, <1>5 DEF SrcInv
<1> QED BY <1>6, <1>7, <1>8 DEF SrcInv

LEMMA SrcWriteFails ==
    ASSUME TypeInv, SrcInv, NEW d \in Doc, WriteFails(d)
    PROVE  SrcInv'
<1>1. /\ writing' = [writing EXCEPT ![d] = NoVersion]
      /\ UNCHANGED <<backlog, inflight, product, due, last, writes, gone>>
  BY DEF WriteFails, row, index
<1>2. \A b \in Doc : writing'[b] \in {NoVersion, writing[b]}
  BY <1>1 DEF TypeInv, TypeOK
<1>3. Rows' = Rows /\ \A e \in due : e.doc \in Doc
  BY <1>1 DEF Rows, TypeInv, TypeOK, Event
<1>4. \A e \in due' : e.ev = "completed" =>
         writing'[e.doc] = NoVersion /\ \A c \in Current(e.doc)' : c.kind = e.kind
  BY <1>1, <1>2, <1>3 DEF SrcInv, Current
<1>5. ASSUME NEW b \in Doc
      PROVE  /\ last'[b] <= writes'
             /\ writing'[b] # NoVersion => last'[b] < writing'[b].ver /\ writing'[b].ver <= writes'
             /\ \A c \in product'[b] :
                  /\ c.ver <= writes'
                  /\ writing'[b] # NoVersion /\ c.ver = writing'[b].ver
                     => c.kind = writing'[b].kind
  BY <1>1, <1>2 DEF SrcInv
<1>6. \A e \in Rows' \cup due' : /\ e.ev = "deleted" => e.doc \in gone'
                                 /\ e.ev = "completed" => e.kind \in Kind
  BY <1>1, <1>3 DEF SrcInv
<1> QED BY <1>4, <1>5, <1>6 DEF SrcInv

LEMMA SrcClear ==
    ASSUME TypeInv, SrcInv, NEW d \in Doc, Clear(d)
    PROVE  SrcInv'
<1>1. /\ product' = [product EXCEPT ![d] = {}] /\ writes' = writes + 1
      /\ UNCHANGED <<backlog, inflight, writing, due, last, gone>>
  BY DEF Clear, row
<1>2. /\ writes \in Nat /\ writes' \in Nat /\ writes <= writes'
      /\ \A b \in Doc : product'[b] \subseteq product[b]
  BY <1>1, CompileBacklogAssumption DEF TypeInv, TypeOK
<1>3. Rows' = Rows
  BY <1>1 DEF Rows
<1> QED BY <1>1, <1>2, <1>3, SrcKept

LEMMA SrcDelete ==
    ASSUME TypeInv, SrcInv, NEW d \in Doc, Delete(d)
    PROVE  SrcInv'
<1> DEFINE new == [doc |-> d, ev |-> "deleted", kind |-> "none"]
<1>1. new.doc = d /\ new.ev = "deleted"
  OBVIOUS
<1>2. /\ due' = due \cup {new} \/ due' = due
      /\ product' = [product EXCEPT ![d] = {}] /\ gone' = gone \cup {d}
      /\ UNCHANGED <<backlog, inflight, writing, last, writes>>
  BY DEF Delete, row
<1> HIDE DEF new
<1>3. /\ \A b \in Doc : product'[b] \subseteq product[b]
      /\ Rows' = Rows /\ \A e \in due : e.doc \in Doc
  BY <1>2 DEF Rows, TypeInv, TypeOK, Event
<1>4. \A b \in Doc : Current(b)' \subseteq Current(b)
  BY <1>2, <1>3 DEF Current
<1>5. \A e \in due' : e.ev = "completed" =>
         writing'[e.doc] = NoVersion /\ \A c \in Current(e.doc)' : c.kind = e.kind
  BY <1>1, <1>2, <1>3, <1>4 DEF SrcInv
<1>6. \A e \in Rows' \cup due' : /\ e.ev = "deleted" => e.doc \in gone'
                                 /\ e.ev = "completed" => e.kind \in Kind
  BY <1>1, <1>2, <1>3 DEF SrcInv
<1>7. ASSUME NEW b \in Doc
      PROVE  /\ last'[b] <= writes'
             /\ writing'[b] # NoVersion => last'[b] < writing'[b].ver /\ writing'[b].ver <= writes'
             /\ \A c \in product'[b] :
                  /\ c.ver <= writes'
                  /\ writing'[b] # NoVersion /\ c.ver = writing'[b].ver
                     => c.kind = writing'[b].kind
  BY <1>2, <1>3 DEF SrcInv
<1> QED BY <1>5, <1>6, <1>7 DEF SrcInv

\* An event leaves the due ones, for the backlog or for nowhere.
LEMMA SrcPublish ==
    ASSUME TypeInv, SrcInv, NEW e \in due, Publish(e) \/ PublishFails(e)
    PROVE  SrcInv'
<1>1. /\ due' = due \ {e} /\ UNCHANGED <<product, gone, writing, last, writes>>
  BY DEF Publish, PublishFails, index
<1>2. \A f \in Rows' : f \in Rows \/ (f.doc = e.doc /\ f.ev = e.ev /\ f.kind = e.kind)
  <2> DEFINE new == [n |-> published + 1, pos |-> tail + 1, doc |-> e.doc,
                     ev |-> e.ev, kind |-> e.kind]
  <2>1. new.doc = e.doc /\ new.ev = e.ev /\ new.kind = e.kind
    OBVIOUS
  <2>2. backlog' \subseteq backlog \cup {new} /\ inflight' = inflight
    BY DEF Publish, PublishFails, row
  <2> HIDE DEF new
  <2> QED BY <2>1, <2>2 DEF Rows
<1>3. writes \in Nat
  BY CompileBacklogAssumption DEF TypeInv, TypeOK
<1> QED BY <1>1, <1>2, <1>3, SrcKept

\* The documents a batch deletes have a delete event in it, and are gone.
LEMMA DeletedGone ==
    ASSUME TypeInv, PosInv, SrcInv, NEW w \in Worker, Holds(w),
           NEW d \in Deleted(worker[w].batch)
    PROVE  /\ WinEvent(d, worker[w].batch) \in worker[w].batch
           /\ WinEvent(d, worker[w].batch).doc = d
           /\ WinEvent(d, worker[w].batch).ev = "deleted"
           /\ d \in gone
<1>1. worker[w].batch \in SUBSET Entry /\ worker[w].batch \subseteq Rows
  BY DEF TypeInv, TypeOK, WorkerState, PosInv, Rows
<1>2. d \in Docs(worker[w].batch) /\ WinEvent(d, worker[w].batch).ev = "deleted"
  BY DEF Deleted
<1>3. tail \in Nat /\ \A e \in worker[w].batch : e.pos <= tail
  BY <1>1 DEF TypeInv, TypeOK, PosInv
<1>4. WinEvent(d, worker[w].batch) \in worker[w].batch /\ WinEvent(d, worker[w].batch).doc = d
  BY <1>1, <1>2, <1>3, WinInBatch
<1> QED BY <1>1, <1>2, <1>4 DEF SrcInv

\* The entries after a claim.
LEMMA ClaimRows ==
    ASSUME TypeInv, TokenInv, NEW w \in Worker, Claim(w)
    PROVE  Rows' = Rows
<1>1. /\ backlog \in SUBSET Entry /\ inflight \in SUBSET Entry
      /\ IsFiniteSet(backlog) /\ IsFiniteSet(inflight) /\ ClaimRow(w, backlog, inflight)
  BY DEF TypeInv, TypeOK, Claim
<1>2. PICK r \in WorkerState : /\ r.batch \in SUBSET backlog
                               /\ backlog' = backlog \ r.batch /\ inflight' = inflight \cup r.batch
  BY <1>1, ClaimHead
<1> QED BY <1>2 DEF Rows

LEMMA ReclaimRows ==
    ASSUME TypeInv, TokenInv, NEW w \in Worker, Reclaim(w)
    PROVE  Rows' = backlog \cup Requeued
<1>1. PICK list, none : list = backlog \cup Requeued /\ none = {} /\ ClaimRow(w, list, none)
  BY DEF Reclaim
<1>2. /\ list \in SUBSET Entry /\ none \in SUBSET Entry
      /\ IsFiniteSet(list) /\ IsFiniteSet(none) /\ ClaimRow(w, list, none)
  BY <1>1, RequeuedFacts, FS_Union, FS_EmptySet DEF TypeInv, TypeOK
<1>3. PICK r \in WorkerState : /\ r.batch \in SUBSET list
                               /\ backlog' = list \ r.batch /\ inflight' = none \cup r.batch
  BY <1>2, ClaimHead
<1> QED BY <1>1, <1>3 DEF Rows

LEMMA SrcStep == TypeInv /\ TokenInv /\ PosInv /\ SrcInv /\ [Next]_vars => SrcInv'
<1> SUFFICES ASSUME TypeInv, TokenInv, PosInv, SrcInv, [Next]_vars PROVE SrcInv'
  OBVIOUS
<1>0. TypeOK /\ WorkersOK /\ writes \in Nat
  BY CompileBacklogAssumption DEF TypeInv, TypeOK, WorkersOK
<1> DEFINE Still == /\ UNCHANGED <<due, gone, last, writing, writes>>
                    /\ \A d \in Doc : product'[d] \subseteq product[d]
                    /\ \A e \in Rows' : \E f \in Rows :
                          e.doc = f.doc /\ e.ev = f.ev /\ e.kind = f.kind
<1>1. Still => SrcInv'
  BY <1>0, SrcKept
<1>2. CASE UNCHANGED vars
  <2>1. UNCHANGED <<product, source>> /\ Rows' = Rows
    BY <1>2 DEF vars, row, index, Rows
  <2> QED BY <1>1, <2>1 DEF source
<1>3. ASSUME NEW d \in Doc, Edits(d) PROVE SrcInv'
  BY <1>3, SrcWrite, SrcWriteRest, SrcWriteFails, SrcClear, SrcDelete DEF Edits
<1>4. ASSUME NEW e \in due, Publish(e) \/ PublishFails(e) PROVE SrcInv'
  BY <1>4, SrcPublish
<1>5. ASSUME NEW w \in Worker, Claim(w) PROVE SrcInv'
  <2>1. UNCHANGED <<product, source>> /\ Rows' = Rows
    BY <1>5, ClaimRows DEF Claim, index
  <2> QED BY <1>1, <2>1 DEF source
<1>6. ASSUME NEW w \in Worker, Reclaim(w) PROVE SrcInv'
  <2>1. UNCHANGED <<product, source>> /\ Rows' = backlog \cup Requeued
    BY <1>6, ReclaimRows DEF Reclaim, index
  <2>2. ASSUME NEW e \in Requeued
        PROVE  \E f \in inflight : e.doc = f.doc /\ e.ev = f.ev /\ e.kind = f.kind
    BY RequeuedOrder, Zenon
  <2>3. \A e \in Rows' : \E f \in Rows : e.doc = f.doc /\ e.ev = f.ev /\ e.kind = f.kind
    BY <2>1, <2>2 DEF Rows
  <2> QED BY <1>1, <2>1, <2>3 DEF source
<1>7. ASSUME NEW w \in Worker, Moves(w) PROVE SrcInv'
  <2>1. \A d \in Doc : product'[d] \subseteq product[d]
    BY <1>7 DEF Moves, Purge, Strip, Load, MergeStructure, WriteMerged, ProjectWikiGraph, index
  <2>2. UNCHANGED <<row, source>>
    BY <1>0, <1>7, MovesLocked
  <2>3. Rows' = Rows
    BY <2>2 DEF Rows, row
  <2> QED BY <1>1, <2>1, <2>2, <2>3 DEF source
<1>8. ASSUME NEW w \in Worker, Leases(w) PROVE SrcInv'
  <2>1. UNCHANGED <<product, source>> /\ Rows' = Rows
    BY <1>0, <1>8, LeasesFacts DEF index, Rows
  <2> QED BY <1>1, <2>1 DEF source
<1>9. ASSUME NEW w \in Worker, Drops(w) PROVE SrcInv'
  <2>1. UNCHANGED <<product, source>>
    BY <1>9, AckFacts DEF Drops, ReclaimLost, Superseded, Abandon, SkipAck, index, rest
  <2>2. CASE Ack(w) /\ worker[w].token = token
    <3>1. backlog' = backlog /\ inflight' = inflight \ Matching(inflight, worker[w].batch)
      BY <2>2, AckFacts, Zenon
    <3>2. Rows' \subseteq Rows
      BY <3>1 DEF Rows
    <3> QED BY <1>1, <2>1, <3>2 DEF source
  <2>3. CASE Drops(w) /\ ~ (Ack(w) /\ worker[w].token = token)
    <3>1. Rows' = Rows
      BY <2>3, HoldersKept DEF Rows
    <3> QED BY <1>1, <2>1, <3>1 DEF source
  <2> QED BY <1>9, <2>2, <2>3
<1> QED BY <1>2, <1>3, <1>4, <1>5, <1>6, <1>7, <1>8, <1>9, Steps

-----------------------------------------------------------------------------
(* What the products reflect.                                              *)

\* No later event of its document is in the row.
Latest(e) == \A f \in Rows : f.doc = e.doc => f.pos <= e.pos

\* Event e is of the current chunks of its document.
Announces(e) ==
    e.ev = "completed" => e.doc \notin gone /\ \A c \in Current(e.doc) : c.kind = e.kind

\* How far a batch with such an event of type ev has come at pc: l was loaded, p is
\* in the index, cur of it is current, and s, u and g are what the three kinds of
\* dataset products name.
Stage(ev, pc, l, p, cur, s, u, g) ==
    /\ ev = "deleted" =>
         /\ l = {}
         /\ pc # "purge" => p = {}
         /\ pc \notin {"purge", "strip"} => s = {} /\ u = {}
         /\ pc = "ack" => g = {}
    /\ ev = "completed" =>
         /\ pc \in {"structure", "wiki"} => cur \subseteq l
         /\ pc \in {"wiki", "graph", "ack"} => \A c \in cur : c.kind = "structure" => c \in s
         /\ pc \in {"graph", "ack"} => \A c \in cur : c.kind = "wiki" => c \in u
         /\ pc = "ack" => g = u

Merging(w, d, ev) ==
    Stage(ev, worker[w].pc, worker[w].loaded[d], product[d], Current(d),
          merged["structure"][d], merged["wiki"][d], merged["graph"][d])

\* The latest event of d is of what is in the index, and the batch that has it
\* is on its way.
Pending(d) ==
    \E e \in Rows : /\ e.doc = d /\ Latest(e) /\ Announces(e)
                    /\ \A w \in Worker : Holds(w) /\ e \in worker[w].batch
                                         => Merging(w, d, e.ev)

\* The dataset reflects d, and what the row still has of d are leftovers of a
\* deleted document, for which nothing is loaded.
Settled(d) ==
    /\ Reflected(d)
    /\ d \in gone => product[d] = {}
    /\ \A e \in Rows : e.doc = d => d \in gone /\ e.ev = "completed"
    /\ \A w \in Worker : Holds(w) => worker[w].loaded[d] = {}

NoneDue(d) == \A e \in due : e.doc # d

DocInv == \A d \in Doc \ (lost \cup overtaken) : NoneDue(d) => Pending(d) \/ Settled(d)

LEMMA DocInit == Init => DocInv
<1> SUFFICES ASSUME Init, NEW d \in Doc PROVE Settled(d)
  BY DEF DocInv
<1>1. \A k \in Part : merged[k][d] = {}
  BY DEF Init
<1>2. product[d] = {} /\ Rows = {} /\ d \notin gone
  BY DEF Init, Rows
<1>3. \A w \in Worker : ~ Holds(w)
  BY DEF Init, Holds, Working, Idle
<1>4. Reflected(d)
  BY <1>1, <1>2 DEF Reflected, Part, Kind
<1> QED BY <1>2, <1>3, <1>4 DEF Settled

\* What is merged of d is the same, and no chunk of d becomes current.
SameDoc(d) ==
    /\ Current(d)' \subseteq Current(d)
    /\ d \in gone' <=> d \in gone
    /\ d \in gone /\ product[d] = {} => product'[d] = {}
    /\ \A k \in Part : merged'[k][d] = merged[k][d]

LEMMA ReflectedKept ==
    ASSUME TypeInv, NEW d \in Doc, Reflected(d), SameDoc(d)
    PROVE  Reflected(d)'
<1>1. merged'["graph"][d] = merged["graph"][d] /\ merged'["wiki"][d] = merged["wiki"][d]
  BY DEF SameDoc, Part, Kind
<1>2. /\ d \in gone' <=> d \in gone
      /\ \A k \in Part : merged'[k][d] = merged[k][d]
  BY DEF SameDoc
<1>3. ASSUME d \notin gone', NEW c \in product'[d], c.ver = last'[d]
      PROVE  c \in merged'[c.kind][d]
  <2>1. c \in Current(d)
    BY <1>3 DEF SameDoc, Current
  <2>2. c \in product[d] /\ c.ver = last[d] /\ c.kind \in Part
    BY <2>1 DEF Current, TypeInv, TypeOK, Chunk, Part
  <2> QED BY <1>2, <1>3, <2>2 DEF Reflected
<1> QED BY <1>1, <1>2, <1>3 DEF Reflected

\* A batch that stays where it is has come as far as before.
LEMMA MergingKept ==
    ASSUME NEW w \in Worker, NEW d \in Doc, NEW ev, Merging(w, d, ev), SameDoc(d),
           worker'[w].pc = worker[w].pc, worker'[w].loaded[d] = worker[w].loaded[d],
           ev = "deleted" => d \in gone
    PROVE  Merging(w, d, ev)'
<1>1. /\ merged'["structure"][d] = merged["structure"][d]
      /\ merged'["wiki"][d] = merged["wiki"][d] /\ merged'["graph"][d] = merged["graph"][d]
  BY DEF SameDoc, Part, Kind
<1>2. PICK cur, new : cur = Current(d) /\ new = Current(d)' /\ new \subseteq cur
  BY DEF SameDoc
<1>3. ev = "deleted" /\ product[d] = {} => product'[d] = {}
  BY DEF SameDoc
<1> QED BY <1>1, <1>2, <1>3 DEF Merging, Stage

\* A step that leaves d and its entries alone and moves no holder.
LEMMA DocFrame ==
    ASSUME TypeInv, SrcInv, NEW d \in Doc, Pending(d) \/ Settled(d), SameDoc(d),
           \A e \in Rows : e.doc = d => e \in Rows',
           \A e \in Rows' : e.doc = d => e \in Rows,
           \A w \in Worker : Holds(w)' =>
              /\ Holds(w) /\ worker'[w].batch = worker[w].batch /\ worker'[w].pc = worker[w].pc
              /\ worker'[w].loaded[d] = worker[w].loaded[d]
    PROVE  Pending(d)' \/ Settled(d)'
<1>0. /\ d \in gone' <=> d \in gone
      /\ d \in gone /\ product[d] = {} => product'[d] = {}
      /\ Current(d)' \subseteq Current(d)
  BY DEF SameDoc
<1>1. CASE Settled(d)
  <2>1. Reflected(d)'
    BY <1>1, ReflectedKept DEF Settled
  <2>2. \A e \in Rows' : e.doc = d => d \in gone' /\ e.ev = "completed"
    BY <1>0, <1>1 DEF Settled
  <2>3. \A w \in Worker : Holds(w)' => worker'[w].loaded[d] = {}
    BY <1>1 DEF Settled
  <2>4. d \in gone' => product'[d] = {}
    BY <1>0, <1>1 DEF Settled
  <2> QED BY <2>1, <2>2, <2>3, <2>4 DEF Settled
<1>2. CASE Pending(d)
  <2>1. PICK e \in Rows : /\ e.doc = d /\ Latest(e) /\ Announces(e)
                          /\ \A w \in Worker : Holds(w) /\ e \in worker[w].batch
                                               => Merging(w, d, e.ev)
    BY <1>2 DEF Pending
  <2>2. e \in Rows' /\ Latest(e)'
    BY <2>1 DEF Latest
  <2>3. Announces(e)'
    BY <1>0, <2>1 DEF Announces
  <2>4. ASSUME NEW w \in Worker, Holds(w)', e \in worker'[w].batch PROVE Merging(w, d, e.ev)'
    <3>1. e.ev = "deleted" => d \in gone
      BY <2>1 DEF SrcInv
    <3>2. Merging(w, d, e.ev)
      BY <2>1, <2>4
    <3> QED BY <2>4, <3>1, <3>2, MergingKept
  <2> QED BY <2>1, <2>2, <2>3, <2>4 DEF Pending
<1> QED BY <1>1, <1>2

LEMMA DocInvFor ==
    ASSUME DocInv, NEW d \in Doc, d \notin lost', d \notin overtaken', NoneDue(d),
           lost \subseteq lost', overtaken \subseteq overtaken'
    PROVE  Pending(d) \/ Settled(d)
BY DEF DocInv

\* What an event that is published says of its document is in the index.
LEMMA DocPublish ==
    ASSUME TypeInv, PosInv, SrcInv, DocInv, NEW e \in due, Publish(e)
    PROVE  DocInv'
<1>1. PICK new : /\ new.pos = tail + 1 /\ new.doc = e.doc /\ new.ev = e.ev /\ new.kind = e.kind
                 /\ backlog' = backlog \cup {new}
  BY DEF Publish
<1>2. /\ backlog' = backlog \cup {new} /\ due' = due \ {e}
      /\ UNCHANGED <<inflight, token, worker, product, merged, gone, last, overtaken>>
      /\ lost \subseteq lost'
      /\ e.ev = "completed" => lost' = lost \cup Orphan(e.doc)
  BY <1>1 DEF Publish, index
<1>3. Rows' = Rows \cup {new}
  BY <1>2 DEF Rows
<1>4. \A w \in Worker : Holds(w)' => Holds(w)
  BY <1>2 DEF Holds, Working
<1>5. tail \in Nat /\ (\A f \in Rows : f.pos \in Nat /\ f.pos <= tail)
      /\ e.doc \in Doc /\ e.ev \in {"completed", "deleted"}
  BY DEF TypeInv, TypeOK, Entry, Event, Rows, PosInv
<1> SUFFICES ASSUME NEW d \in Doc, d \notin lost', d \notin overtaken', NoneDue(d)'
             PROVE  Pending(d)' \/ Settled(d)'
  BY DEF DocInv
<1>6. CASE d # e.doc
  <2>1. NoneDue(d)
    BY <1>2, <1>6 DEF NoneDue
  <2>2. Pending(d) \/ Settled(d)
    BY <1>2, <2>1, DocInvFor
  <2>3. SameDoc(d)
    BY <1>2 DEF SameDoc, Current
  <2> QED BY <1>1, <1>2, <1>3, <1>4, <1>6, <2>2, <2>3, DocFrame
<1>7. CASE d = e.doc
  <2>1. Latest(new)'
    BY <1>1, <1>3, <1>5 DEF Latest
  <2>2. Announces(new)'
    <3>1. ASSUME e.ev = "completed" PROVE d \notin gone
      <4>1. \A f \in due : f.doc = d => f.ev = "completed"
        BY <1>2, <1>7, <3>1 DEF NoneDue
      <4> QED BY <1>2, <1>7, <3>1, <4>1 DEF Orphan
    <3>2. e.ev = "completed" => \A c \in Current(d) : c.kind = e.kind
      BY <1>7 DEF SrcInv
    <3>3. Current(d)' = Current(d)
      BY <1>2 DEF Current
    <3> QED BY <1>1, <1>2, <1>7, <3>1, <3>2, <3>3 DEF Announces
  <2>3. ASSUME NEW w \in Worker, Holds(w)' PROVE new \notin worker'[w].batch
    <3>1. worker'[w].batch \subseteq Rows
      BY <1>2, <1>4, <2>3 DEF PosInv, Rows
    <3> QED BY <1>1, <1>5, <3>1
  <2> QED BY <1>1, <1>3, <1>7, <2>1, <2>2, <2>3 DEF Pending
<1> QED BY <1>6, <1>7

\* A pipeline or a delete, for a document none of whose events is due after it.
LEMMA EditDoc ==
    ASSUME TypeInv, SrcInv, NEW c \in Doc, Edits(c), NEW d \in Doc, d \notin lost', NoneDue(d)'
    PROVE  NoneDue(d) /\ SameDoc(d)
<1>0. merged' = merged /\ last \in [Doc -> Nat] /\ product \in [Doc -> SUBSET Chunk]
  BY EditsFacts, TypeParts DEF SourceOK
<1>1. ASSUME NEW k \in Kind, Write(c, k) PROVE NoneDue(d) /\ SameDoc(d)
  <2> DEFINE new == [ver |-> writes + 1, kind |-> k, part |-> 1]
  <2>1. new.ver = writes + 1
    OBVIOUS
  <2>2. /\ product' = [product EXCEPT ![c] = @ \cup {new}] /\ lost' = lost \cup Orphan(c)
        /\ UNCHANGED <<due, gone, last>>
    BY <1>1 DEF Write, Insert
  <2> HIDE DEF new
  <2>3. NoneDue(d)
    BY <2>2 DEF NoneDue
  <2>4. d = c => d \notin gone
    BY <2>2, <2>3 DEF Orphan, NoneDue
  <2>5. new.ver # last[d]
    <3>1. last[d] <= writes /\ writes \in Nat /\ last[d] \in Nat
      BY <1>0, CompileBacklogAssumption DEF SrcInv, TypeInv, TypeOK
    <3> QED BY <2>1, <3>1
  <2>6. product'[d] = product[d] \/ (d = c /\ product'[d] = product[d] \cup {new})
    BY <1>0, <2>2
  <2>7. Current(d)' \subseteq Current(d)
    BY <2>2, <2>5, <2>6 DEF Current
  <2> QED BY <1>0, <2>2, <2>3, <2>4, <2>6, <2>7 DEF SameDoc
<1>2. CASE WriteRest(c)
  <2> DEFINE new == [ver |-> writing[c].ver, kind |-> writing[c].kind, part |-> 2]
             ev == [doc |-> c, ev |-> "completed", kind |-> writing[c].kind]
  <2>1. ev.doc = c
    OBVIOUS
  <2>2. /\ product' = [product EXCEPT ![c] = @ \cup {new}] /\ due' = due \cup {ev}
        /\ last' = [last EXCEPT ![c] = writing[c].ver] /\ gone' = gone
    BY <1>2 DEF WriteRest, Insert
  <2> HIDE DEF new, ev
  <2>3. NoneDue(d) /\ c # d
    BY <2>1, <2>2 DEF NoneDue
  <2>4. product'[d] = product[d] /\ last'[d] = last[d]
    BY <1>0, <2>2, <2>3
  <2> QED BY <1>0, <2>2, <2>3, <2>4 DEF SameDoc, Current
<1>3. CASE WriteFails(c)
  <2>1. UNCHANGED <<product, due, gone, last>>
    BY <1>3 DEF WriteFails, index
  <2> QED BY <1>0, <2>1 DEF SameDoc, Current, NoneDue
<1>4. CASE Clear(c)
  <2>1. product' = [product EXCEPT ![c] = {}] /\ UNCHANGED <<due, gone, last>>
    BY <1>4 DEF Clear
  <2>2. product'[d] \subseteq product[d]
    BY <1>0, <2>1
  <2> QED BY <1>0, <2>1, <2>2 DEF SameDoc, Current, NoneDue
<1>5. CASE Delete(c)
  <2> DEFINE ev == [doc |-> c, ev |-> "deleted", kind |-> "none"]
  <2>1. ev.doc = c
    OBVIOUS
  <2>2. /\ product' = [product EXCEPT ![c] = {}] /\ gone' = gone \cup {c} /\ last' = last
        /\ due' = due \cup {ev} \/ (due' = due /\ c \in lost')
    BY <1>5 DEF Delete
  <2> HIDE DEF ev
  <2>3. NoneDue(d) /\ c # d
    BY <2>1, <2>2 DEF NoneDue
  <2>4. product'[d] = product[d]
    BY <1>0, <2>2, <2>3
  <2> QED BY <1>0, <2>2, <2>3, <2>4 DEF SameDoc, Current
<1> QED BY <1>1, <1>2, <1>3, <1>4, <1>5 DEF Edits

\* Pipelines, deletes and failed publishes.
LEMMA DocSource ==
    ASSUME TypeInv, SrcInv, DocInv,
           (\E c \in Doc : Edits(c)) \/ (\E e \in due : PublishFails(e))
    PROVE  DocInv'
<1>0. SourceOK
  BY TypeParts
<1>1. /\ UNCHANGED <<backlog, inflight, token, worker, overtaken>>
      /\ lost \subseteq lost'
  BY <1>0, EditsFacts DEF PublishFails, row
<1>2. Rows' = Rows
  BY <1>1 DEF Rows
<1>3. \A w \in Worker : Holds(w)' => Holds(w)
  BY <1>1 DEF Holds, Working
<1> SUFFICES ASSUME NEW d \in Doc, d \notin lost', d \notin overtaken', NoneDue(d)'
             PROVE  Pending(d)' \/ Settled(d)'
  BY DEF DocInv
<1>4. NoneDue(d) /\ SameDoc(d)
  <2>1. ASSUME NEW e \in due, PublishFails(e) PROVE NoneDue(d) /\ SameDoc(d)
    <3>1. due' = due \ {e} /\ e.doc \in lost' /\ UNCHANGED <<product, merged, gone, last>>
      BY <2>1 DEF PublishFails, index
    <3> QED BY <3>1 DEF NoneDue, SameDoc, Current
  <2> QED BY <2>1, EditDoc
<1>5. Pending(d) \/ Settled(d)
  BY <1>1, <1>4, DocInvFor
<1> QED BY <1>1, <1>2, <1>3, <1>4, <1>5, DocFrame

\* A worker that just claimed a batch with the latest event of d has merged
\* nothing, and starts with the purge if that event is a delete.
LEMMA ClaimPending ==
    ASSUME TypeInv', PosInv', NEW w \in Worker, NEW r \in WorkerState,
           r.batch \in SUBSET Rows',
           r.pc = (IF Deleted(r.batch) = {} THEN "load" ELSE "purge"),
           \A d \in Doc : r.loaded[d] = {},
           worker'[w] = r, \A v \in Worker : Holds(v)' => v = w,
           NEW d \in Doc, NEW e \in Rows', e.doc = d, Latest(e)', Announces(e)'
    PROVE  Pending(d)'
<1> SUFFICES ASSUME e \in r.batch PROVE Merging(w, d, e.ev)'
  BY DEF Pending
<1>1. r.batch \in SUBSET Entry
  BY DEF WorkerState
<1>2. WinEvent(e.doc, r.batch) = e
  <2>1. \A f, g \in r.batch : f.pos = g.pos => f = g
    BY DEF PosInv
  <2>2. \A f \in r.batch : f.doc = e.doc => f.pos <= e.pos
    BY DEF Latest
  <2> QED BY <1>1, <2>1, <2>2, LastDecides
<1>3. e.ev = "deleted" => r.pc = "purge"
  BY <1>2 DEF Deleted, Docs
<1>4. r.pc \in {"load", "purge"} /\ r.loaded[d] = {}
  OBVIOUS
<1> QED BY <1>3, <1>4 DEF Merging, Stage

LEMMA ClaimSettled ==
    ASSUME TypeInv, SrcInv, NEW w \in Worker, NEW r \in WorkerState,
           \A d \in Doc : r.loaded[d] = {},
           worker'[w] = r, \A v \in Worker : Holds(v)' => v = w,
           NEW d \in Doc, Settled(d), SameDoc(d),
           \A e \in Rows' : e.doc = d => \E f \in Rows : f.doc = d /\ f.ev = e.ev
    PROVE  Settled(d)'
<1>1. Reflected(d)'
  BY ReflectedKept DEF Settled
<1>2. \A e \in Rows' : e.doc = d => d \in gone' /\ e.ev = "completed"
  BY DEF Settled, SameDoc
<1>3. \A v \in Worker : Holds(v)' => worker'[v].loaded[d] = {}
  OBVIOUS
<1>4. d \in gone' => product'[d] = {}
  BY DEF Settled, SameDoc
<1> QED BY <1>1, <1>2, <1>3, <1>4 DEF Settled

LEMMA DocClaim ==
    ASSUME TypeInv, TokenInv, PosInv, SrcInv, DocInv, TypeInv', PosInv',
           NEW w \in Worker, Claim(w)
    PROVE  DocInv'
<1>1. /\ backlog \in SUBSET Entry /\ inflight \in SUBSET Entry
      /\ IsFiniteSet(backlog) /\ IsFiniteSet(inflight) /\ ClaimRow(w, backlog, inflight)
  BY DEF TypeInv, TypeOK, Claim
<1>2. PICK r \in WorkerState :
             /\ r.batch \in SUBSET backlog
             /\ r.pc = (IF Deleted(r.batch) = {} THEN "load" ELSE "purge")
             /\ \A d \in Doc : r.loaded[d] = {}
             /\ worker'[w] = r /\ \A v \in Worker : Holds(v)' => v = w
  BY <1>1, ClaimHead
<1>3. Rows' = Rows
  BY ClaimRows
<1>4. UNCHANGED <<product, merged, due, gone, last, lost, overtaken>>
  BY DEF Claim, index, source, ghosts
<1>5. r.batch \in SUBSET Rows'
  BY <1>2, <1>3 DEF Rows
<1> SUFFICES ASSUME NEW d \in Doc, d \notin lost', d \notin overtaken', NoneDue(d)'
             PROVE  Pending(d)' \/ Settled(d)'
  BY DEF DocInv
<1>6. Pending(d) \/ Settled(d)
  BY <1>4, DocInvFor DEF NoneDue
<1>7. SameDoc(d) /\ Current(d)' = Current(d)
  BY <1>4 DEF SameDoc, Current
<1>8. CASE Settled(d)
  BY <1>2, <1>3, <1>7, <1>8, ClaimSettled
<1>9. CASE Pending(d)
  <2>1. PICK e \in Rows : e.doc = d /\ Latest(e) /\ Announces(e)
    BY <1>9 DEF Pending
  <2>2. e \in Rows' /\ Latest(e)' /\ Announces(e)'
    BY <1>3, <1>4, <1>7, <2>1 DEF Latest, Announces
  <2> QED BY <1>2, <1>5, <2>1, <2>2, ClaimPending
<1> QED BY <1>6, <1>8, <1>9

\* A reclaim keeps the order of a document's events when it does not have
\* entries on both lists.
LEMMA DocReclaim ==
    ASSUME TypeInv, TokenInv, PosInv, SrcInv, DocInv, TypeInv', PosInv',
           NEW w \in Worker, Reclaim(w)
    PROVE  DocInv'
<1>1. PICK list, none : list = backlog \cup Requeued /\ none = {} /\ ClaimRow(w, list, none)
  BY DEF Reclaim
<1>2. /\ list \in SUBSET Entry /\ none \in SUBSET Entry
      /\ IsFiniteSet(list) /\ IsFiniteSet(none) /\ ClaimRow(w, list, none)
  BY <1>1, RequeuedFacts, FS_Union, FS_EmptySet DEF TypeInv, TypeOK
<1>3. PICK r \in WorkerState :
             /\ r.batch \in SUBSET list
             /\ r.pc = (IF Deleted(r.batch) = {} THEN "load" ELSE "purge")
             /\ \A d \in Doc : r.loaded[d] = {}
             /\ worker'[w] = r /\ \A v \in Worker : Holds(v)' => v = w
  BY <1>2, ClaimHead
<1>4. Rows' = backlog \cup Requeued /\ r.batch \in SUBSET Rows'
  BY <1>1, <1>3, ReclaimRows
<1>5. /\ UNCHANGED <<product, merged, due, gone, last, lost>>
      /\ overtaken' = overtaken \cup (Docs(backlog) \cap Docs(inflight))
  BY DEF Reclaim, index, source
<1> DEFINE moved(e) == At(e, tail + Place(e, inflight))
<1>6. /\ \A g \in Requeued : \E e \in inflight : g = moved(e)
      /\ \A e \in inflight :
           /\ moved(e) \in Requeued /\ moved(e).pos = tail + Place(e, inflight)
           /\ moved(e).doc = e.doc /\ moved(e).ev = e.ev /\ moved(e).kind = e.kind
           /\ Place(e, inflight) \in Nat
      /\ \A e, f \in inflight : f.pos <= e.pos => Place(f, inflight) <= Place(e, inflight)
  BY RequeuedOrder, Zenon
<1> HIDE DEF moved
<1> SUFFICES ASSUME NEW d \in Doc, d \notin lost', d \notin overtaken', NoneDue(d)'
             PROVE  Pending(d)' \/ Settled(d)'
  BY DEF DocInv
<1>7. Pending(d) \/ Settled(d)
  BY <1>5, DocInvFor DEF NoneDue
<1>8. SameDoc(d) /\ Current(d)' = Current(d)
  BY <1>5 DEF SameDoc, Current
<1>9. (\A e \in backlog : e.doc # d) \/ (\A e \in inflight : e.doc # d)
  BY <1>5 DEF Docs
<1>10. CASE Settled(d)
  <2>1. \A e \in Rows' : e.doc = d => \E f \in Rows : f.doc = d /\ f.ev = e.ev
    BY <1>4, <1>6 DEF Rows
  <2> QED BY <1>3, <1>8, <1>10, <2>1, ClaimSettled
<1>11. CASE Pending(d)
  <2>1. PICK e \in Rows : e.doc = d /\ Latest(e) /\ Announces(e)
    BY <1>11 DEF Pending
  <2>2. CASE e \in backlog
    <3>1. \A f \in Rows' : f.doc = d => f \in backlog
      BY <1>4, <1>6, <1>9, <2>1, <2>2
    <3>2. e \in Rows' /\ Latest(e)' /\ Announces(e)'
      BY <1>4, <1>5, <1>8, <2>1, <2>2, <3>1 DEF Latest, Announces, Rows
    <3> QED BY <1>3, <1>4, <2>1, <3>2, ClaimPending
  <2>3. CASE e \in inflight
    <3>1. PICK g : g = moved(e)
      OBVIOUS
    <3>2. /\ g \in Rows' /\ g.pos = tail + Place(e, inflight) /\ g.doc = e.doc
          /\ g.ev = e.ev /\ g.kind = e.kind
      BY <1>4, <1>6, <2>3, <3>1
    <3>3. ASSUME NEW f \in Rows', f.doc = d PROVE f.pos <= g.pos
      <4>1. f \in Requeued
        BY <1>4, <1>9, <2>1, <2>3, <3>3
      <4>2. PICK x \in inflight : f = moved(x)
        BY <1>6, <4>1
      <4>3. f.pos = tail + Place(x, inflight) /\ x.doc = d
        BY <1>6, <3>3, <4>2
      <4>4. x.pos <= e.pos
        BY <2>1, <4>3 DEF Latest, Rows
      <4>5. /\ Place(x, inflight) <= Place(e, inflight) /\ tail \in Nat
            /\ Place(x, inflight) \in Nat /\ Place(e, inflight) \in Nat
        BY <1>6, <2>3, <4>4 DEF TypeInv, TypeOK
      <4> QED BY <3>2, <4>3, <4>5
    <3>4. Latest(g)'
      BY <2>1, <3>2, <3>3 DEF Latest
    <3>5. Announces(g)'
      BY <1>5, <1>8, <2>1, <3>2 DEF Announces
    <3> QED BY <1>3, <1>4, <2>1, <3>2, <3>4, <3>5, ClaimPending
  <2> QED BY <2>1, <2>2, <2>3 DEF Rows
<1> QED BY <1>7, <1>10, <1>11

\* Ack removes the latest event of a document only with the batch that merged it.
LEMMA DocAck ==
    ASSUME TypeInv, TokenInv, PosInv, SrcInv, DocInv,
           NEW w \in Worker, Ack(w), worker[w].token = token
    PROVE  DocInv'
<1> DEFINE removed == Matching(inflight, worker[w].batch)
<1>1. /\ inflight' = inflight \ removed /\ backlog' = backlog
      /\ UNCHANGED <<product, merged, due, gone, last, lost, overtaken>>
  BY AckFacts, Zenon DEF index, source, ghosts
<1>2. \A v \in Worker : ~ Holds(v)'
  BY AckReleases
<1>3. Rows' \subseteq Rows
  BY <1>1 DEF Rows
<1>4. worker[w].pc = "ack" /\ Holds(w)
  BY AckFacts DEF Holds, Working
<1>5. /\ worker[w].batch \subseteq inflight
      /\ \A e \in worker[w].batch, f \in inflight \ worker[w].batch : f.pos < e.pos
  BY <1>4 DEF PosInv
<1>6. \A e \in removed : e \in inflight
  BY DEF Matching
<1>7. \A e \in removed : \E f \in worker[w].batch : f.doc = e.doc /\ f.ev = e.ev
  BY DEF Matching
<1>8. \A e \in inflight, f \in worker[w].batch : f.doc = e.doc /\ f.ev = e.ev => e \in removed
  BY DEF Matching
<1> HIDE DEF removed
<1>0. \A e \in inflight : e \notin backlog
  BY DEF PosInv, TypeInv, TypeOK, Entry
<1> SUFFICES ASSUME NEW d \in Doc, d \notin lost', d \notin overtaken', NoneDue(d)'
             PROVE  Pending(d)' \/ Settled(d)'
  BY DEF DocInv
<1>9. Pending(d) \/ Settled(d)
  BY <1>1, DocInvFor DEF NoneDue
<1>10. SameDoc(d) /\ Current(d)' = Current(d)
  BY <1>1 DEF SameDoc, Current
<1>11. CASE Settled(d)
  <2>1. Reflected(d)'
    BY <1>10, <1>11, ReflectedKept DEF Settled
  <2> QED BY <1>1, <1>2, <1>3, <1>11, <2>1 DEF Settled
<1>12. CASE Pending(d)
  <2>1. PICK e \in Rows : /\ e.doc = d /\ Latest(e) /\ Announces(e)
                          /\ \A v \in Worker : Holds(v) /\ e \in worker[v].batch
                                               => Merging(v, d, e.ev)
    BY <1>12 DEF Pending
  <2>2. CASE e \in Rows'
    <3>1. Latest(e)' /\ Announces(e)'
      BY <1>1, <1>3, <1>10, <2>1 DEF Latest, Announces
    <3> QED BY <1>2, <2>1, <2>2, <3>1 DEF Pending
  <2>3. CASE e \notin Rows'
    <3>1. e \in removed
      BY <1>1, <2>3 DEF Rows
    <3>2. PICK f \in worker[w].batch : f.doc = d /\ f.ev = e.ev
      BY <1>7, <2>1, <3>1
    <3>3. f \in Rows /\ e \in inflight /\ e.pos \in Nat /\ f.pos \in Nat
      BY <1>5, <1>6, <3>1, <3>2 DEF Rows, TypeInv, TypeOK, Entry
    <3>4. f.pos <= e.pos
      BY <2>1, <3>2, <3>3 DEF Latest
    <3>5. e \in worker[w].batch
      BY <1>5, <3>2, <3>3, <3>4
    <3>6. Merging(w, d, e.ev)
      BY <1>4, <2>1, <3>5
    <3>7. e.ev \in {"completed", "deleted"}
      BY DEF TypeInv, TypeOK, Rows, Entry
    <3>8. \A g \in Rows : g.doc = d => g \in inflight
      BY <2>1, <3>3 DEF Latest, PosInv, Rows, TypeInv, TypeOK, Entry
    <3>9. CASE e.ev = "deleted"
      <4>1. /\ product[d] = {} /\ merged["structure"][d] = {} /\ merged["wiki"][d] = {}
            /\ merged["graph"][d] = {}
        BY <1>4, <3>6, <3>9 DEF Merging, Stage
      <4>2. d \in gone
        BY <2>1, <3>9 DEF SrcInv
      <4>3. Reflected(d)
        BY <4>1, <4>2 DEF Reflected, Part, Kind
      <4>4. ASSUME NEW g \in Rows', g.doc = d PROVE g.ev = "completed"
        <5>1. g \in inflight /\ g \notin removed
          BY <1>0, <1>1, <1>3, <3>8, <4>4 DEF Rows
        <5>2. g.ev # "deleted"
          BY <1>8, <3>2, <3>9, <4>4, <5>1
        <5> QED BY <5>1, <5>2 DEF TypeInv, TypeOK, Entry
      <4>5. Reflected(d)'
        BY <1>10, <4>3, ReflectedKept
      <4> QED BY <1>1, <1>2, <4>1, <4>2, <4>4, <4>5 DEF Settled
    <3>10. CASE e.ev = "completed"
      <4>1. d \notin gone
        BY <2>1, <3>10 DEF Announces
      <4>2. ASSUME NEW g \in Rows', g.doc = d PROVE FALSE
        <5>1. g \in inflight /\ g \notin removed
          BY <1>0, <1>1, <1>3, <3>8, <4>2 DEF Rows
        <5>2. g.ev = "completed"
          BY <1>3, <4>1, <4>2 DEF SrcInv, TypeInv, TypeOK, Rows, Entry
        <5> QED BY <1>8, <3>2, <3>10, <4>2, <5>1, <5>2
      <4>3. /\ \A c \in Current(d) : /\ c.kind = "structure" => c \in merged["structure"][d]
                                     /\ c.kind = "wiki" => c \in merged["wiki"][d]
            /\ merged["graph"][d] = merged["wiki"][d]
        BY <1>4, <3>6, <3>10 DEF Merging, Stage
      <4>4. \A c \in product[d] : c.kind \in {"structure", "wiki"}
        BY DEF TypeInv, TypeOK, Chunk, Kind
      <4>5. Reflected(d)
        BY <4>1, <4>3, <4>4 DEF Reflected, Current
      <4>6. Reflected(d)'
        BY <1>10, <4>5, ReflectedKept
      <4> QED BY <1>1, <1>2, <4>1, <4>2, <4>6 DEF Settled
    <3> QED BY <3>7, <3>9, <3>10
  <2> QED BY <2>2, <2>3
<1> QED BY <1>9, <1>11, <1>12

\* The one worker that holds the row's claim.
LEMMA OneHolder ==
    ASSUME TokenInv, NEW v \in Worker, NEW w \in Worker, Holds(v), Holds(w)
    PROVE  v = w
BY DEF TokenInv, Holds

\* Worker w, which holds the claim, moves on with its batch; no chunk of d becomes
\* current.
MoveOf(w, d) ==
    /\ Holds(w) /\ Rows' = Rows /\ gone' = gone /\ Current(d)' \subseteq Current(d)
    /\ worker'[w].batch = worker[w].batch
    /\ \A v \in Worker : Holds(v)' => v = w

LEMMA MovePending ==
    ASSUME NEW w \in Worker, NEW d \in Doc, MoveOf(w, d), NEW e \in Rows, e.doc = d,
           Latest(e), Announces(e), e \in worker[w].batch => Merging(w, d, e.ev)'
    PROVE  Pending(d)'
<1>1. e \in Rows' /\ Latest(e)' /\ Announces(e)'
  BY DEF MoveOf, Latest, Announces
<1>2. \A v \in Worker : Holds(v)' /\ e \in worker'[v].batch => Merging(v, d, e.ev)'
  BY DEF MoveOf
<1> QED BY <1>1, <1>2 DEF Pending

LEMMA MoveSettled ==
    ASSUME TypeInv, NEW w \in Worker, NEW d \in Doc, MoveOf(w, d), Settled(d), SameDoc(d),
           worker'[w].loaded[d] = {}
    PROVE  Settled(d)'
<1>1. Reflected(d)'
  BY ReflectedKept DEF Settled
<1>2. \A e \in Rows' : e.doc = d => d \in gone' /\ e.ev = "completed"
  BY DEF Settled, MoveOf
<1>3. \A v \in Worker : Holds(v)' => worker'[v].loaded[d] = {}
  BY DEF MoveOf
<1>4. d \in gone' => product'[d] = {}
  BY DEF Settled, SameDoc
<1> QED BY <1>1, <1>2, <1>3, <1>4 DEF Settled

\* A step of the holder, for a document none of whose events is due: what has to be
\* shown of the document in either state.
LEMMA MoveDoc ==
    ASSUME TypeInv, NEW w \in Worker, NEW d \in Doc, MoveOf(w, d),
           Pending(d) \/ Settled(d),
           Settled(d) => SameDoc(d) /\ worker'[w].loaded[d] = {},
           \A e \in worker[w].batch :
              e.doc = d /\ Latest(e) /\ Announces(e) /\ Merging(w, d, e.ev)
              => Merging(w, d, e.ev)'
    PROVE  Pending(d)' \/ Settled(d)'
<1>1. CASE Settled(d)
  BY <1>1, MoveSettled
<1>2. CASE Pending(d)
  <2>1. PICK e \in Rows : /\ e.doc = d /\ Latest(e) /\ Announces(e)
                          /\ \A v \in Worker : Holds(v) /\ e \in worker[v].batch
                                               => Merging(v, d, e.ev)
    BY <1>2 DEF Pending
  <2>2. e \in worker[w].batch => Merging(w, d, e.ev)'
    BY <2>1 DEF MoveOf
  <2> QED BY <2>1, <2>2, MovePending
<1> QED BY <1>1, <1>2

\* The latest event of a document, if it is in the holder's batch, decides.
LEMMA LatestDecides ==
    ASSUME TypeInv, PosInv, NEW w \in Worker, Holds(w), NEW e \in worker[w].batch, Latest(e)
    PROVE  /\ WinEvent(e.doc, worker[w].batch) = e /\ e.doc \in Docs(worker[w].batch)
           /\ e.doc \in Deleted(worker[w].batch) <=> e.ev = "deleted"
<1>1. worker[w].batch \in SUBSET Entry /\ worker[w].batch \subseteq Rows
  BY DEF TypeInv, TypeOK, WorkerState, PosInv, Rows
<1>2. /\ \A f, g \in worker[w].batch : f.pos = g.pos => f = g
      /\ \A f \in worker[w].batch : f.doc = e.doc => f.pos <= e.pos
  BY <1>1 DEF PosInv, Latest
<1>3. WinEvent(e.doc, worker[w].batch) = e
  BY <1>1, <1>2, LastDecides
<1>4. e.doc \in Docs(worker[w].batch)
  BY DEF Docs
<1> QED BY <1>3, <1>4 DEF Deleted

\* A batch deletes no document that is settled.
LEMMA SettledNotDeleted ==
    ASSUME TypeInv, PosInv, SrcInv, NEW w \in Worker, Holds(w), NEW d \in Doc, Settled(d)
    PROVE  d \notin Deleted(worker[w].batch)
<1> SUFFICES ASSUME d \in Deleted(worker[w].batch) PROVE FALSE
  OBVIOUS
<1>1. /\ WinEvent(d, worker[w].batch) \in worker[w].batch
      /\ WinEvent(d, worker[w].batch).doc = d
      /\ WinEvent(d, worker[w].batch).ev = "deleted"
  BY DeletedGone
<1>2. worker[w].batch \subseteq Rows
  BY DEF PosInv, Rows
<1> QED BY <1>1, <1>2 DEF Settled

LEMMA MoveShape ==
    ASSUME TypeInv, TokenInv, NEW w \in Worker, Moves(w)
    PROVE  /\ UNCHANGED <<due, lost, overtaken, gone, last>> /\ Rows' = Rows
           /\ worker'[w].batch = worker[w].batch /\ worker'[w].pc = After(worker[w].pc)
           /\ Holds(w) => \A v \in Worker : Holds(v)' => v = w
           /\ \A v \in Worker \ {w} : Holds(v)' => Holds(v) /\ worker'[v] = worker[v]
           /\ ~ Load(w) => Holds(w)
           /\ ~ Load(w) /\ ~ WriteMerged(w) => worker'[w].loaded = worker[w].loaded
           /\ WriteMerged(w) => \A d \in Doc : worker'[w].loaded[d] = {}
<1>0. TypeOK
  BY DEF TypeInv
<1>1. UNCHANGED <<due, lost, overtaken, gone, last>> /\ Rows' = Rows
  BY <1>0, MovesLocked DEF row, source, ghosts, Rows
<1>2. /\ worker'[w].batch = worker[w].batch /\ worker'[w].pc = After(worker[w].pc)
      /\ \A v \in Worker \ {w} : worker'[v] = worker[v]
  BY <1>0, MovesWorker
<1>3. \A v \in Worker : Holds(v)' => Holds(v)
  BY HoldersKept
<1>4. Holds(w) => \A v \in Worker : Holds(v)' => v = w
  BY <1>3, OneHolder
<1>5. ~ Load(w) => Holds(w)
  BY DEF Moves, Purge, Strip, MergeStructure, WriteMerged, ProjectWikiGraph, WithWriteLock,
         Holds, Working
<1>6. ASSUME ~ Load(w), ~ WriteMerged(w) PROVE worker'[w].loaded = worker[w].loaded
  <2>1. PICK pc \in PC : worker' = [worker EXCEPT ![w].pc = pc]
    BY <1>6 DEF Moves, Purge, Strip, MergeStructure, ProjectWikiGraph, Goto, PC
  <2> QED BY <1>0, <2>1 DEF TypeOK, WorkerState
<1>7. ASSUME WriteMerged(w), NEW d \in Doc PROVE worker'[w].loaded[d] = {}
  <2> DEFINE l == [c \in Doc |-> {}]
  <2>1. l \in [Doc -> SUBSET Chunk] /\ l[d] = {}
    OBVIOUS
  <2>2. worker' = [worker EXCEPT ![w].pc = "graph", ![w].loaded = l]
    BY <1>7 DEF WriteMerged
  <2> HIDE DEF l
  <2>3. worker'[w].loaded = l
    BY <1>0, <2>2 DEF TypeOK, WorkerState
  <2> QED BY <2>1, <2>3
<1> QED BY <1>1, <1>2, <1>3, <1>4, <1>5, <1>6, <1>7

\* One locked section of the batch, for one document.
LEMMA DocSection ==
    ASSUME TypeInv, TokenInv, PosInv, SrcInv, NEW w \in Worker,
           Purge(w) \/ Strip(w) \/ MergeStructure(w) \/ WriteMerged(w) \/ ProjectWikiGraph(w),
           NEW d \in Doc, Pending(d) \/ Settled(d)
    PROVE  Pending(d)' \/ Settled(d)'
<1> DEFINE b == worker[w].batch
           l == worker[w].loaded[d]
<1>0. Moves(w) /\ ~ Load(w)
  BY DEF Moves, Load, Purge, Strip, MergeStructure, WriteMerged, ProjectWikiGraph
<1>1. /\ Rows' = Rows /\ worker'[w].batch = b /\ worker'[w].pc = After(worker[w].pc)
      /\ Holds(w) /\ \A v \in Worker : Holds(v)' => v = w
      /\ UNCHANGED <<gone, last>>
      /\ ~ WriteMerged(w) => worker'[w].loaded[d] = l
      /\ WriteMerged(w) => worker'[w].loaded[d] = {}
  BY <1>0, MoveShape
<1>2. product'[d] = IF Purge(w) /\ d \in Deleted(b) THEN {} ELSE product[d]
  BY DEF Purge, Strip, MergeStructure, WriteMerged, ProjectWikiGraph
<1>3. Current(d)' \subseteq Current(d)
  BY <1>1, <1>2 DEF Current
<1>4. MoveOf(w, d)
  BY <1>1, <1>3 DEF MoveOf
<1>5. Settled(d) => l = {} /\ d \notin Deleted(b)
  BY <1>1, SettledNotDeleted DEF Settled
<1>6. \A e \in b : Latest(e) /\ e.doc = d => (d \in Deleted(b) <=> e.ev = "deleted")
  BY <1>1, LatestDecides
<1>7. /\ merged \in [Part -> [Doc -> SUBSET Chunk]]
      /\ "structure" \in Part /\ "wiki" \in Part /\ "graph" \in Part
  BY DEF TypeInv, TypeOK, Part, Kind
<1>8. PICK cur, new : cur = Current(d) /\ new = Current(d)' /\ new \subseteq cur
  BY <1>3
<1> HIDE DEF b, l
<1>9. CASE Purge(w)
  <2>1. worker[w].pc = "purge" /\ worker'[w].pc = "strip" /\ merged' = merged
        /\ worker'[w].loaded[d] = l
    BY <1>1, <1>9 DEF Purge, After, WriteMerged
  <2>2. Settled(d) => SameDoc(d) /\ worker'[w].loaded[d] = {}
    BY <1>1, <1>2, <1>3, <1>5, <2>1 DEF SameDoc
  <2>3. \A e \in b : e.doc = d /\ Latest(e) /\ Merging(w, d, e.ev) => Merging(w, d, e.ev)'
    BY <1>2, <1>6, <1>9, <2>1 DEF Merging, Stage, l
  <2> QED BY <1>4, <2>2, <2>3, MoveDoc DEF b
<1>10. CASE Strip(w)
  <2>1. /\ worker[w].pc = "strip" /\ worker'[w].pc = "load" /\ worker'[w].loaded[d] = l
        /\ product'[d] = product[d]
    BY <1>1, <1>2, <1>10 DEF Strip, After, WriteMerged, Purge
  <2>2. /\ merged'["structure"][d] = IF d \in Deleted(b) THEN {} ELSE merged["structure"][d]
        /\ merged'["wiki"][d] = IF d \in Deleted(b) THEN {} ELSE merged["wiki"][d]
        /\ merged'["graph"][d] = merged["graph"][d]
    BY <1>7, <1>10 DEF Strip, b, Kind
  <2>3. Settled(d) => SameDoc(d) /\ worker'[w].loaded[d] = {}
    BY <1>1, <1>3, <1>5, <2>1, <2>2 DEF SameDoc, Part, Kind
  <2>4. \A e \in b : e.doc = d /\ Latest(e) /\ Merging(w, d, e.ev) => Merging(w, d, e.ev)'
    BY <1>6, <2>1, <2>2 DEF Merging, Stage, l
  <2> QED BY <1>4, <2>3, <2>4, MoveDoc DEF b
<1>11. CASE MergeStructure(w)
  <2>1. /\ worker[w].pc = "structure" /\ worker'[w].pc = "wiki" /\ worker'[w].loaded[d] = l
        /\ product'[d] = product[d]
    BY <1>1, <1>2, <1>11 DEF MergeStructure, After, WriteMerged, Purge
  <2>2. /\ merged'["structure"][d] = merged["structure"][d] \cup {c \in l : c.kind = "structure"}
        /\ merged'["wiki"][d] = merged["wiki"][d] /\ merged'["graph"][d] = merged["graph"][d]
    BY <1>7, <1>11 DEF MergeStructure, MergeKind, l
  <2>3. Settled(d) => SameDoc(d) /\ worker'[w].loaded[d] = {}
    BY <1>1, <1>3, <1>5, <2>1, <2>2 DEF SameDoc, Part, Kind
  <2>4. \A e \in b : Merging(w, d, e.ev) => Merging(w, d, e.ev)'
    BY <1>8, <2>1, <2>2 DEF Merging, Stage, l
  <2> QED BY <1>4, <2>3, <2>4, MoveDoc DEF b
<1>12. CASE WriteMerged(w)
  <2>1. /\ worker[w].pc = "wiki" /\ worker'[w].pc = "graph" /\ worker'[w].loaded[d] = {}
        /\ product'[d] = product[d]
    BY <1>1, <1>2, <1>12 DEF WriteMerged, After, Purge
  <2>2. /\ merged'["wiki"][d] = merged["wiki"][d] \cup {c \in l : c.kind = "wiki"}
        /\ merged'["structure"][d] = merged["structure"][d]
        /\ merged'["graph"][d] = merged["graph"][d]
    BY <1>7, <1>12 DEF WriteMerged, MergeKind, l
  <2>3. Settled(d) => SameDoc(d) /\ worker'[w].loaded[d] = {}
    BY <1>1, <1>3, <1>5, <2>1, <2>2 DEF SameDoc, Part, Kind
  <2>4. \A e \in b : Merging(w, d, e.ev) => Merging(w, d, e.ev)'
    BY <1>8, <2>1, <2>2 DEF Merging, Stage, l
  <2> QED BY <1>4, <2>3, <2>4, MoveDoc DEF b
<1>13. CASE ProjectWikiGraph(w)
  <2>1. /\ worker[w].pc = "graph" /\ worker'[w].pc = "ack" /\ worker'[w].loaded[d] = l
        /\ product'[d] = product[d]
    BY <1>1, <1>2, <1>13 DEF ProjectWikiGraph, After, WriteMerged, Purge
  <2>2. /\ merged'["graph"][d] = merged["wiki"][d] /\ merged'["wiki"][d] = merged["wiki"][d]
        /\ merged'["structure"][d] = merged["structure"][d]
    BY <1>7, <1>13 DEF ProjectWikiGraph
  <2>3. Settled(d) => merged["graph"][d] = merged["wiki"][d]
    BY DEF Settled, Reflected
  <2>4. Settled(d) => SameDoc(d) /\ worker'[w].loaded[d] = {}
    BY <1>1, <1>3, <1>5, <2>1, <2>2, <2>3 DEF SameDoc, Part, Kind
  <2>5. \A e \in b : Merging(w, d, e.ev) => Merging(w, d, e.ev)'
    BY <1>8, <2>1, <2>2 DEF Merging, Stage, l
  <2> QED BY <1>4, <2>4, <2>5, MoveDoc DEF b
<1> QED BY <1>9, <1>10, <1>11, <1>12, <1>13

\* What is loaded of one document.
LEMMA LoadDoc ==
    ASSUME TypeInv, NEW w \in Worker, Load(w), NEW d \in Doc
    PROVE  worker'[w].loaded[d] =
             IF d \in Docs(worker[w].batch) \ Deleted(worker[w].batch)
             THEN {c \in product[d] : c.kind = WinEvent(d, worker[w].batch).kind} ELSE {}
<1> DEFINE batch == worker[w].batch
           wanted(c) == IF c \in Docs(batch) \ Deleted(batch)
                        THEN {x \in product[c] : x.kind = WinEvent(c, batch).kind}
                        ELSE {}
           m == [c \in Doc |-> wanted(c)]
<1>1. worker' = [worker EXCEPT ![w].pc = "structure", ![w].loaded = m]
  BY DEF Load
<1>2. m[d] = wanted(d)
  OBVIOUS
<1> HIDE DEF m
<1>3. worker'[w].loaded = m
  BY <1>1 DEF TypeInv, TypeOK, WorkerState
<1> QED BY <1>2, <1>3

LEMMA DocLoad ==
    ASSUME TypeInv, TokenInv, PosInv, SrcInv, NEW w \in Worker, Load(w),
           NEW d \in Doc, Pending(d) \/ Settled(d)
    PROVE  Pending(d)' \/ Settled(d)'
<1> DEFINE b == worker[w].batch
<1>0. Moves(w) /\ UNCHANGED <<product, merged>> /\ worker[w].pc = "load"
  BY DEF Moves, Load, index
<1>1. /\ Rows' = Rows /\ worker'[w].batch = b /\ worker'[w].pc = "structure"
      /\ UNCHANGED <<gone, last>>
      /\ Holds(w) => \A v \in Worker : Holds(v)' => v = w
      /\ \A v \in Worker \ {w} : Holds(v)' => Holds(v) /\ worker'[v] = worker[v]
  BY <1>0, MoveShape DEF After
<1>2. SameDoc(d) /\ Current(d)' = Current(d)
  BY <1>0, <1>1 DEF SameDoc, Current
<1>3. worker'[w].loaded[d] = IF d \in Docs(b) \ Deleted(b)
                             THEN {c \in product[d] : c.kind = WinEvent(d, b).kind} ELSE {}
  BY LoadDoc
<1>4. CASE ~ Holds(w)
  <2>1. ~ Holds(w)'
    BY <1>0, <1>4, HoldersKept
  <2> QED BY <1>1, <1>2, <2>1, DocFrame
<1>5. CASE Holds(w)
  <2>1. MoveOf(w, d)
    BY <1>1, <1>2, <1>5 DEF MoveOf
  <2>2. ASSUME Settled(d) PROVE worker'[w].loaded[d] = {}
    <3>1. d \in Docs(b) => product[d] = {}
      BY <1>5, <2>2 DEF Settled, Docs, PosInv, Rows
    <3> QED BY <1>3, <3>1
  <2>3. ASSUME NEW e \in b, e.doc = d, Latest(e), Announces(e), Merging(w, d, e.ev)
        PROVE  Merging(w, d, e.ev)'
    <3>1. /\ WinEvent(d, b) = e /\ d \in Docs(b)
          /\ d \in Deleted(b) <=> e.ev = "deleted"
      BY <1>5, <2>3, LatestDecides
    <3>2. e.ev = "deleted" => worker'[w].loaded[d] = {}
      BY <1>3, <3>1
    <3>3. e.ev = "completed" => Current(d) \subseteq worker'[w].loaded[d]
      BY <1>3, <2>3, <3>1 DEF Announces, Current
    <3> QED BY <1>0, <1>1, <1>2, <2>3, <3>2, <3>3 DEF Merging, Stage
  <2> QED BY <1>2, <2>1, <2>2, <2>3, MoveDoc
<1> QED BY <1>4, <1>5

\* The steps after which whoever holds the row's claim held it before, at the same
\* place of its batch.
LEMMA DocStill ==
    ASSUME TypeInv, TokenInv, SrcInv, DocInv, NEW w \in Worker,
           Leases(w) \/ (Drops(w) /\ ~ (Ack(w) /\ worker[w].token = token))
    PROVE  DocInv'
<1>0. TypeOK /\ WorkersOK
  BY DEF TypeInv, TypeOK, WorkersOK
<1>1. UNCHANGED <<product, merged, due, gone, last, lost, overtaken>>
  <2>1. CASE Leases(w)
    BY <1>0, <2>1, LeasesFacts DEF index, source, ghosts
  <2>2. CASE Drops(w)
    BY <2>2, AckFacts DEF Drops, ReclaimLost, Superseded, Abandon, SkipAck, index, source,
                          ghosts, rest
  <2> QED BY <2>1, <2>2
<1>2. /\ Rows' = Rows
      /\ \A v \in Worker : Holds(v)' => Holds(v) /\ worker'[v].batch = worker[v].batch
  BY HoldersKept DEF Rows
<1>3. ASSUME NEW v \in Worker, Holds(v)'
      PROVE  worker'[v].pc = worker[v].pc /\ worker'[v].loaded = worker[v].loaded
  <2>1. CASE worker' = [worker EXCEPT ![w] = Idle]
    <3>1. v # w
      BY <1>0, <1>3, <2>1 DEF Holds, Working, Idle, TypeOK
    <3> QED BY <1>0, <2>1, <3>1 DEF TypeOK
  <2>2. CASE worker' = worker
    BY <2>2
  <2>3. CASE worker' = [worker EXCEPT ![w].hb = FALSE]
    BY <1>0, <2>3 DEF TypeOK, WorkerState
  <2>4. CASE worker' = [worker EXCEPT ![w].pc = "reclaim"]
    <3>1. v # w
      BY <1>0, <1>3, <2>4, WorkerMoves DEF Holds, Working, TypeOK, PC
    <3> QED BY <1>0, <2>4, <3>1 DEF TypeOK
  <2> QED
    BY <2>1, <2>2, <2>3, <2>4, AckFacts
       DEF Leases, ReclaimScan, TouchClaim, TouchFails, Expire, ExpireEarly, Drops, ReclaimLost,
           Superseded, Abandon, SkipAck
<1> SUFFICES ASSUME NEW d \in Doc, d \notin lost', d \notin overtaken', NoneDue(d)'
             PROVE  Pending(d)' \/ Settled(d)'
  BY DEF DocInv
<1>4. Pending(d) \/ Settled(d)
  BY <1>1, DocInvFor DEF NoneDue
<1>5. SameDoc(d)
  BY <1>1 DEF SameDoc, Current
<1> QED BY <1>2, <1>3, <1>4, <1>5, DocFrame

LEMMA DocMoves ==
    ASSUME TypeInv, TokenInv, PosInv, SrcInv, DocInv, NEW w \in Worker, Moves(w)
    PROVE  DocInv'
<1>1. UNCHANGED <<due, lost, overtaken>>
  BY MoveShape
<1> SUFFICES ASSUME NEW d \in Doc, d \notin lost', d \notin overtaken', NoneDue(d)'
             PROVE  Pending(d)' \/ Settled(d)'
  BY DEF DocInv
<1>2. Pending(d) \/ Settled(d)
  BY <1>1, DocInvFor DEF NoneDue
<1> QED BY <1>2, DocSection, DocLoad DEF Moves

LEMMA DocStep ==
    TypeInv /\ TokenInv /\ PosInv /\ SrcInv /\ DocInv /\ [Next]_vars => DocInv'
<1> SUFFICES ASSUME TypeInv, TokenInv, PosInv, SrcInv, DocInv, [Next]_vars PROVE DocInv'
  OBVIOUS
<1>0. TypeInv' /\ PosInv'
  BY TypeStep, PosStep
<1>1. CASE UNCHANGED vars
  <2>1. /\ UNCHANGED <<backlog, inflight, token, worker, product, merged, due, gone, last>>
        /\ UNCHANGED <<lost, overtaken>>
    BY <1>1 DEF vars, row, index, source, ghosts
  <2> SUFFICES ASSUME NEW d \in Doc, d \notin lost', d \notin overtaken', NoneDue(d)'
               PROVE  Pending(d)' \/ Settled(d)'
    BY DEF DocInv
  <2>2. Pending(d) \/ Settled(d)
    BY <2>1, DocInvFor DEF NoneDue
  <2>3. SameDoc(d) /\ Rows' = Rows /\ \A w \in Worker : Holds(w)' => Holds(w)
    BY <2>1 DEF SameDoc, Current, Rows, Holds, Working
  <2> QED BY <2>1, <2>2, <2>3, DocFrame
<1>2. CASE (\E c \in Doc : Edits(c)) \/ (\E e \in due : PublishFails(e))
  BY <1>2, DocSource
<1>3. ASSUME NEW e \in due, Publish(e) PROVE DocInv'
  BY <1>3, DocPublish
<1>4. ASSUME NEW w \in Worker, Claim(w) \/ Reclaim(w) PROVE DocInv'
  BY <1>0, <1>4, DocClaim, DocReclaim
<1>5. ASSUME NEW w \in Worker, Moves(w) PROVE DocInv'
  BY <1>5, DocMoves
<1>6. ASSUME NEW w \in Worker, Ack(w), worker[w].token = token PROVE DocInv'
  BY <1>6, DocAck
<1>7. ASSUME NEW w \in Worker,
             Leases(w) \/ (Drops(w) /\ ~ (Ack(w) /\ worker[w].token = token))
      PROVE  DocInv'
  BY <1>7, DocStill
<1> QED BY <1>1, <1>2, <1>3, <1>4, <1>5, <1>6, <1>7, Steps

LEMMA DocConverged == DocInv => Converged
<1> SUFFICES ASSUME DocInv, Quiet, NEW d \in Doc \ (lost \cup overtaken) PROVE Reflected(d)
  BY DEF Converged
<1>1. NoneDue(d) /\ Rows = {}
  BY DEF Quiet, NoneDue, Rows
<1>2. Settled(d)
  BY <1>1 DEF DocInv, Pending
<1> QED BY <1>2 DEF Settled

\* When the backlog is drained the dataset's products name every chunk of the last
\* complete version of each document that is still in the index, of whichever kind, and
\* nothing of a deleted document, but for the documents whose events were not all
\* published or that a reclaim reordered: for any number of documents, workers, pipeline
\* runs, clears, crashes, lost leases and takeovers, and for any batch size.
THEOREM ConvergedAlways == Spec => []Converged
BY TypeInit, TypeStep, TokenInit, TokenStep, PosInit, PosStep, SrcInit, SrcStep,
   DocInit, DocStep, DocConverged, PTL DEF Spec

=============================================================================
