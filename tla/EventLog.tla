------------------------------ MODULE EventLog ------------------------------
(***************************************************************************)
(* What the durable backlog of a dataset promises                          *)
(* (internal/ingestion/knowledge_compile/scheduler.go): every document     *)
(* event that was published stays open until a batch that covers it has    *)
(* been merged, and only then leaves the log.  Claims, leases, retries and *)
(* the order of the entries are the implementation's business.             *)
(***************************************************************************)
EXTENDS Naturals

VARIABLES
    published,   \* events published so far; they are numbered from 1
    open,        \* events that have not left the log
    applied      \* open events whose merge is complete

vars == <<published, open, applied>>

Init == published = 0 /\ open = {} /\ applied = {}

Publish ==
    /\ published' = published + 1
    /\ open' = open \cup {published + 1}
    /\ UNCHANGED applied

\* A batch has been merged.
Apply(S) ==
    /\ S \subseteq open
    /\ applied' = applied \cup S
    /\ UNCHANGED <<published, open>>

\* Its acknowledgement.
Settle(S) ==
    /\ S \subseteq applied
    /\ open' = open \ S
    /\ applied' = applied \ S
    /\ UNCHANGED published

Next == Publish \/ \E S \in SUBSET open : Apply(S) \/ Settle(S)

Spec == Init /\ [][Next]_vars
=============================================================================
