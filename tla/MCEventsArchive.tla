--------------------------- MODULE MCEventsArchive ---------------------------
(* TLC instances of EventsArchive.                                         *)
EXTENDS EventsArchive, FiniteSets, TLC

Symmetry == Permutations(Own) \cup Permutations(Others) \cup Permutations(Hooks)

\* States with two mishaps are checked, what follows them is not explored.
FewMishaps == Cardinality(mishaps) <= 1
=============================================================================
