------------------------- MODULE MCSessionTransfer -------------------------
(* Two agents and the network between them: every attempt of every part is *)
(* a request of its own.                                                   *)
EXTENDS SessionTransfer, SequencesExt

CONSTANTS complete, timer1

MCWindows == {Chunk(i) : i \in Chunks}

\* Bound: the first chunk may be tried twice, each other one once.
MCAttempts == [i \in Chunks |-> IF i = 0 THEN 2 ELSE 1]
MCPartCalls == UNION {{i} \X (1 .. MCAttempts[i]) : i \in Chunks}

\* SessionReceiver.Complete sorts the parts by offset and part index.
Before(v, w) == v.off < w.off \/ (v.off = w.off /\ v.part < w.part)

\* One window for each part index, as in a Go map.
ValidParts ==
    {ws \in SUBSET {w \in [part : 0 .. 2, off : 0 .. 2, len : 1 .. 3] : ValidWindow(w)} :
        \A v, w \in ws : v.part = w.part => v = w}

\* The scan of the sorted parts accepts the sets that tile the file, which
\* is proved for all of them as ScanAcceptsTilings.
ASSUME ScanOfSmallSets ==
    \A ws \in ValidParts : ScanAccepts(SetToSortSeq(ws, Before)) <=> Tiles(ws)
=============================================================================
