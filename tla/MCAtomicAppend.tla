--------------------------- MODULE MCAtomicAppend ---------------------------
(* TLC instances of AtomicAppend.                                          *)
EXTENDS AtomicAppend, TLC

Symmetry == Permutations(Procs) \cup Permutations(Keys)
=============================================================================
