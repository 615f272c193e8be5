--------------------------- MODULE MCCircuitBreaker ---------------------------
(* Model values and symmetry for the runs of CircuitBreaker. *)
EXTENDS CircuitBreaker, TLC

CallSymmetry == Permutations(Calls)
=============================================================================
