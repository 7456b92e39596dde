--------------------------- MODULE ConnectorLock ---------------------------
(***************************************************************************)
(* The connector/knowledge-base lock of the data-source syncer             *)
(* (internal/syncer/connector_lock.go on top of DistributedLock in         *)
(* internal/engine/redis/redis.go), for one lock key.  Keys do not         *)
(* interact: every map access and every Redis command names one key.       *)
(*                                                                         *)
(* The lock has two levels.  Each process keeps, under a mutex, the set of *)
(* keys its own workers hold (local) and the Redis lock objects it must    *)
(* release (entry).  Across processes the key is a Redis string whose      *)
(* value is the holder id of the PROCESS, not of the worker, so Redis      *)
(* cannot tell two workers of one process apart.  A step below is one      *)
(* critical section of the mutex or one Redis command.                     *)
(***************************************************************************)
EXTENDS Naturals

CONSTANTS
    Proc,             \* syncer processes
    Worker,           \* task workers of all processes
    ProcOf,           \* ProcOf[w]: the process worker w runs in
    RedisConfigured   \* redis.Get() # nil

ASSUME LockAssumption ==
    /\ ProcOf \in [Worker -> Proc]
    /\ RedisConfigured \in BOOLEAN

(***************************************************************************)
(* Values of the Redis key that are not the holder id of a live process:   *)
(* no key, or the holder id of a process that has exited (a restarted      *)
(* process draws a fresh id, so such a value matches nobody).              *)
(***************************************************************************)
NoKey == "none"
Dead  == "dead"

ASSUME HolderAssumption == NoKey \notin Proc /\ Dead \notin Proc

VARIABLES
    local,   \* local[p]: the key is in l.local of p
    entry,   \* entry[p]: the key is in l.redis of p
    key,     \* value of the key in Redis
    pc       \* where each worker is in TryLock / Unlock

vars == <<local, entry, key, pc>>

PC == {"idle", "acquire", "setnx", "store", "undo", "held", "release"}

TypeOK ==
    /\ local \in [Proc -> BOOLEAN]
    /\ entry \in [Proc -> BOOLEAN]
    /\ key \in Proc \cup {NoKey, Dead}
    /\ pc \in [Worker -> PC]

Init ==
    /\ local = [p \in Proc |-> FALSE]
    /\ entry = [p \in Proc |-> FALSE]
    /\ key = NoKey
    /\ pc = [w \in Worker |-> "idle"]

Goto(w, l) == pc' = [pc EXCEPT ![w] = l]

\* Mutant: a plain DEL that does not compare the value.
DeleteAlways(p) == key' = NoKey

DeleteIfEqual(p) == key' = IF key = p THEN NoKey ELSE key

-----------------------------------------------------------------------------
(***************************************************************************)
(* TryLock.  When the key is already in l.local the call returns false and *)
(* changes nothing, so that outcome is not a step.                         *)
(***************************************************************************)
\* Mutant: the key is tested in l.local but not put there.
TryLocalUnclaimed(w) ==
    /\ pc[w] = "idle"
    /\ ~local[ProcOf[w]]
    /\ Goto(w, IF RedisConfigured THEN "acquire" ELSE "held")
    /\ UNCHANGED <<local, entry, key>>

TryLocal(w) ==
    /\ pc[w] = "idle"
    /\ ~local[ProcOf[w]]
    /\ local' = [local EXCEPT ![ProcOf[w]] = TRUE]
    /\ Goto(w, IF RedisConfigured THEN "acquire" ELSE "held")
    /\ UNCHANGED <<entry, key>>

\* First command of Acquire: drop a key this process left behind.  Its result is
\* not looked at, so the command may be lost.
AcquireDelete(w) ==
    /\ pc[w] = "acquire"
    /\ DeleteIfEqual(ProcOf[w]) \/ UNCHANGED key
    /\ Goto(w, "setnx")
    /\ UNCHANGED <<local, entry>>

\* Second command of Acquire.  SetNX also reports false on a network error,
\* whether or not the server executed it.
AcquireSetNX(w) ==
    /\ pc[w] = "setnx"
    /\ \/ /\ key = NoKey
          /\ key' = ProcOf[w]
          /\ Goto(w, "store")
       \/ /\ key = NoKey
          /\ key' = ProcOf[w]
          /\ Goto(w, "undo")
       \/ /\ UNCHANGED key
          /\ Goto(w, "undo")
    /\ UNCHANGED <<local, entry>>

\* Mutant: the early return forgets the local entry.
TryLockFailLeak(w) ==
    /\ pc[w] = "undo"
    /\ Goto(w, "idle")
    /\ UNCHANGED <<local, entry, key>>

TryLockFail(w) ==
    /\ pc[w] = "undo"
    /\ local' = [local EXCEPT ![ProcOf[w]] = FALSE]
    /\ Goto(w, "idle")
    /\ UNCHANGED <<entry, key>>

TryLockStore(w) ==
    /\ pc[w] = "store"
    /\ entry' = [entry EXCEPT ![ProcOf[w]] = TRUE]
    /\ Goto(w, "held")
    /\ UNCHANGED <<local, key>>

-----------------------------------------------------------------------------
(* Unlock: both map entries under the mutex, then the Redis command.       *)

UnlockLocal(w) ==
    /\ pc[w] = "held"
    /\ local' = [local EXCEPT ![ProcOf[w]] = FALSE]
    /\ entry' = [entry EXCEPT ![ProcOf[w]] = FALSE]
    /\ Goto(w, IF entry[ProcOf[w]] THEN "release" ELSE "idle")
    /\ UNCHANGED key

UnlockRelease(w) ==
    /\ pc[w] = "release"
    /\ DeleteIfEqual(ProcOf[w]) \/ UNCHANGED key   \* the command may be lost
    /\ Goto(w, "idle")
    /\ UNCHANGED <<local, entry>>

-----------------------------------------------------------------------------
(* A process exits without unlocking and starts again with a new holder.   *)
Crash(p) ==
    /\ local' = [local EXCEPT ![p] = FALSE]
    /\ entry' = [entry EXCEPT ![p] = FALSE]
    /\ key' = IF key = p THEN Dead ELSE key
    /\ pc' = [w \in Worker |-> IF ProcOf[w] = p THEN "idle" ELSE pc[w]]

(***************************************************************************)
(* The TTL of connectorLockTTL passes.  A task that holds the lock stops   *)
(* connectorLockSafetyMargin before its lease ends                         *)
(* (taskExecutionDeadline), so the key of a lease in use does not expire;  *)
(* a key whose process exited, or that nobody of its process uses, does.   *)
(***************************************************************************)
InUse(p) == \E w \in Worker : ProcOf[w] = p /\ pc[w] \in {"store", "held"}

Expire ==
    /\ key # NoKey
    /\ key \in Proc => ~InUse(key)
    /\ key' = NoKey
    /\ UNCHANGED <<local, entry, pc>>

TryLock(w) == TryLocal(w) \/ AcquireDelete(w) \/ AcquireSetNX(w)
                 \/ TryLockFail(w) \/ TryLockStore(w)

Unlock(w) == UnlockLocal(w) \/ UnlockRelease(w)

Next ==
    \/ \E w \in Worker : TryLock(w) \/ Unlock(w)
    \/ \E p \in Proc : Crash(p)
    \/ Expire

Spec == Init /\ [][Next]_vars

-----------------------------------------------------------------------------
(***************************************************************************)
(* Two workers of one process never hold the lock together, whatever the   *)
(* other processes, Redis and crashes do: l.local is claimed before and    *)
(* released after everything else.                                         *)
(***************************************************************************)
LocalExclusion ==
    \A v, w \in Worker :
        /\ v # w
        /\ ProcOf[v] = ProcOf[w]
        => ~(pc[v] = "held" /\ pc[w] = "held")

(***************************************************************************)
(* Workers that are alone in their process (max_concurrent_syncs = 1)      *)
(* exclude each other across processes, also while processes with several  *)
(* workers use the same key: DeleteIfEqual never removes the key of        *)
(* another process.                                                        *)
(***************************************************************************)
Solo(w) == \A v \in Worker : ProcOf[v] = ProcOf[w] => v = w

SoloExclusion ==
    \A v, w \in Worker :
        v # w /\ Solo(v) /\ Solo(w) => ~(pc[v] = "held" /\ pc[w] = "held")

\* Why: from the moment SetNX answered until Unlock, the Redis key names the
\* process of such a worker, so no other process can set it.
SoloInv ==
    /\ TypeOK
    /\ \A w \in Worker : Solo(w) /\ pc[w] \in {"store", "held"} => key = ProcOf[w]

(***************************************************************************)
(* l.local never leaks: the key is in the local map of a process exactly   *)
(* while one of its workers is inside TryLock or holds the lock.  A leaked *)
(* entry would refuse the key to the whole process until it restarts.      *)
(***************************************************************************)
Inside == {"acquire", "setnx", "store", "undo", "held"}

LocalOwned ==
    \A p \in Proc :
        local[p] <=> \E w \in Worker : ProcOf[w] = p /\ pc[w] \in Inside
=============================================================================
