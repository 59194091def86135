----------------------- MODULE MCAcceleratedTransfer -----------------------
(* Two chunks, sent one by one or together, and a source that changes.     *)
EXTENDS AcceleratedTransfer

MCChunks == 1 .. N
MCVersions == 1 .. (MaxEdits + 1)
=============================================================================
