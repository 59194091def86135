--------------------------- MODULE MCMessageHistory ---------------------------
(* What the agents exchanged before the run: each set is one start.        *)
EXTENDS MessageHistory

MCEarlier == {ms \in SUBSET Messages : Cardinality(ms) = 3}

\* Of four places the new messages take the last two, or each comes before one
\* of the earlier ones.
MCPlaces == {{1, 2}, {2, 4}}
=============================================================================
