-------------------------- MODULE MCCircuitBreaker --------------------------
(* Two callers race on the fields; a threshold of two, so that an increment *)
(* may be lost on the way to it.                                            *)
EXTENDS CircuitBreaker, TLC
=============================================================================
