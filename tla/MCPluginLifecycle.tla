------------------------- MODULE MCPluginLifecycle -------------------------
(* TLC instances of PluginLifecycle.                                       *)
EXTENDS PluginLifecycle, TLC

Symmetry == Permutations(Procs) \cup Permutations(Calls) \cup Permutations(Fingerprints)
=============================================================================
