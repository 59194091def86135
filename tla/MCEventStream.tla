--------------------------- MODULE MCEventStream ---------------------------
(* A page and the goroutines of one agent.                                 *)
EXTENDS EventStream

CONSTANTS p1, p2, i1, i2
=============================================================================
