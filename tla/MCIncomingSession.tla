------------------------- MODULE MCIncomingSession -------------------------
(* A trusted peer that may send any of a few part headers, in any order,   *)
(* as often as there are part calls.                                       *)
EXTENDS IncomingSession, TLC

CONSTANTS p1, p2, p3, c1, e1

Window(p, o, l) == [part |-> p, off |-> o, len |-> l]

\* Two parts that tile the file, the second one again with the first one's
\* place (the sizes fit, the file has a gap), and one that leaves the file.
AnyWindows == {Window(0, 0, 1), Window(1, 1, 1), Window(1, 0, 1), Window(2, 1, 2)}

\* No action and no property reads what was answered or shown, nor the part
\* count of a complete request once the receiver has judged it and closed the
\* staged file.
View ==
    <<started, session, receiver, disk, db, override, pc, req, snap, bounds,
      [t \in CompleteCalls |->
          IF pc[t] \in {"close", "receiverComplete"} \/ (handle /\ ~file)
          THEN count[t] ELSE 0]>>

Symmetric == Permutations(PartCalls)
=============================================================================
