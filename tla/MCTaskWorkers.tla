--------------------------- MODULE MCTaskWorkers ---------------------------
(* Small instances of TaskWorkers: processes and their workers.            *)
EXTENDS TaskWorkers, TLC
CONSTANTS p1, p2, w1, w2, k1

OneEach == w1 :> p1 @@ w2 :> p2          \* one worker in each of two processes
\* The two processes of OneEach, each with its worker, are interchangeable.
Swapped == {f \in Permutations({p1, p2, w1, w2}) :
              \A w \in {w1, w2} : f[w] \in {w1, w2} /\ OneEach[f[w]] = f[OneEach[w]]}
Pool    == w1 :> p1 @@ w2 :> p1          \* two workers of one process
Siblings == Permutations({w1, w2})        \* which are interchangeable
=============================================================================
