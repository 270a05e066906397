-------------------------- MODULE MCCircuitBreaker --------------------------
(* TLC instances of CircuitBreaker.                                        *)
EXTENDS CircuitBreaker, TLC

CONSTANTS c1, c2, c3, r1

Symmetry == Permutations({c1, c2, c3})
=============================================================================
