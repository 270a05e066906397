---------------------------- MODULE MCSpawnQueue ----------------------------
(* TLC instances of SpawnQueue.                                            *)
EXTENDS SpawnQueue, TLC

CONSTANTS w1, t1, t2, d1, d2, q1, q2, o1, o2

Symmetry ==
    Permutations({t1, t2}) \cup Permutations({d1, d2}) \cup Permutations({q1, q2})
    \cup Permutations({o1, o2})

\* A drain that runs before anything was requested, and a prompt hook that runs
\* before anything was approved, find an empty file: they are not followed.
SomethingToDo ==
    /\ \A d \in Drains : pc[d] # "start" => \E r \in Requests : pc[r] # "start"
    /\ \A q \in Prompts : pc[q] # "start" => granted # {}
=============================================================================
