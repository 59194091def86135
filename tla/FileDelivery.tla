---------------------------- MODULE FileDelivery ----------------------------
(***************************************************************************)
(* What a file transfer between two agents promises their users, without   *)
(* sessions, parts or threads: each side ends with one outcome that never  *)
(* changes, the receiver reports success exactly when the file was         *)
(* delivered, and the sender only when the receiver has.                   *)
(***************************************************************************)
VARIABLES
    delivered,        \* the file is in the receiver's download directory
    receiverOutcome,  \* "pending", "done" or "failed"
    senderOutcome     \* "pending", "done" or "failed"

vars == <<delivered, receiverOutcome, senderOutcome>>

Outcomes == {"pending", "done", "failed"}

Init ==
    /\ delivered = FALSE
    /\ receiverOutcome = "pending"
    /\ senderOutcome = "pending"

\* The file appears once, complete, in one step.
Deliver ==
    /\ ~delivered /\ receiverOutcome = "pending"
    /\ delivered' = TRUE
    /\ UNCHANGED <<receiverOutcome, senderOutcome>>

ReceiverEnds ==
    /\ receiverOutcome = "pending"
    /\ receiverOutcome' = IF delivered THEN "done" ELSE "failed"
    /\ UNCHANGED <<delivered, senderOutcome>>

\* A sender that got no answer reports a failure, even if the file arrived.
SenderEnds ==
    /\ senderOutcome = "pending"
    /\ senderOutcome' \in {"done", "failed"}
    /\ senderOutcome' = "done" => receiverOutcome = "done"
    /\ UNCHANGED <<delivered, receiverOutcome>>

Next == Deliver \/ ReceiverEnds \/ SenderEnds

Spec == Init /\ [][Next]_vars
=============================================================================
