----------------------------- MODULE MCJobQueue -----------------------------
(* Instances of JobQueue for TLC. *)
EXTENDS JobQueueProps, TLC

CONSTANTS j1, j2, w1, w2, s1, s2, k1

\* One slot in each process, as SQLite enforces and as one PostgreSQL
\* worker with concurrency 1 runs.
OneSlotEach == s1 :> w1 @@ s2 :> w2

\* Two slots that share a process, and with it the worker_id.
SharedWorker == s1 :> w1 @@ s2 :> w1

OneResource == j1 :> k1
SameResource == j1 :> k1 @@ j2 :> k1
OnlySecondLocks == j1 :> NoKey @@ j2 :> k1

\* Exchanging the processes together with their slots maps behaviours to
\* behaviours, and so does exchanging jobs with the same key and handlers.
WorkersSwap == {f \in Permutations({w1, w2, s1, s2}) :
                  f \in {w1 :> w1 @@ w2 :> w2 @@ s1 :> s1 @@ s2 :> s2,
                         w1 :> w2 @@ w2 :> w1 @@ s1 :> s2 @@ s2 :> s1}}
WorkersAndJobsSwap ==
  {f @@ g : f \in WorkersSwap, g \in Permutations({j1, j2})}
=============================================================================
