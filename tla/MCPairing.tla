----------------------------- MODULE MCPairing -----------------------------
(* Two devices whose users pair them and confirm more than once.           *)
EXTENDS Pairing

CONSTANTS c1, c2, c3, i1
=============================================================================
