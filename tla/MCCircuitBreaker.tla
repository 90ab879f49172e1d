-------------------------- MODULE MCCircuitBreaker --------------------------
(* Four charges at a time, a circuit that opens after two failures, one    *)
(* retry.  No symmetry, because liveness is checked.                       *)
EXTENDS CircuitBreaker
=============================================================================
