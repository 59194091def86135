--------------------------- MODULE MCReachability ---------------------------
(* One peer with two addresses, a user's call and a request of the peer.   *)
EXTENDS Reachability

CONSTANTS peer1, a1, a2, call1, request1
=============================================================================
