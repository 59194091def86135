--------------------------- MODULE MCAgentStartup ---------------------------
(* Two legacy directories with any contents, the second preferred.         *)
EXTENDS AgentStartup, TLC

CONSTANTS d1, d2, i1, i2

MCRank == (d1 :> 2) @@ (d2 :> 1)
=============================================================================
