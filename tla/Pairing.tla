------------------------------- MODULE Pairing -------------------------------
(***************************************************************************)
(* How two agents come to trust each other: StartPairing and               *)
(* ConfirmPairing, which a user calls, AcceptIncomingPairing and           *)
(* AcceptPairingConfirm, which the other agent calls over mutual TLS, the  *)
(* pairing sessions each agent keeps in memory, and the trusted peers in   *)
(* its database.                                                           *)
(*                                                                         *)
(* A user may confirm again, also while an earlier call is still waiting.  *)
(* The other agent may receive a request after its caller gave up, or      *)
(* never.  Fingerprints are those the pairing recorded: a peer with others *)
(* is refused and leaves no trace.                                         *)
(***************************************************************************)
EXTENDS Integers, FiniteSets

CONSTANTS
    Agents,      \* devices
    Ids,         \* pairing ids, each generated once
    Calls,       \* ConfirmPairing calls
    MaxFaults    \* bound on lost calls, failing stores and restarts together

ASSUME PairingAssumption ==
    /\ "none" \notin Agents /\ "none" \notin Ids
    /\ MaxFaults \in Nat

NoSession == [known |-> FALSE, local |-> FALSE, remote |-> FALSE]
Sessions == [known : BOOLEAN, local : BOOLEAN, remote : BOOLEAN]

VARIABLES
    initiator, responder, \* the two sides of each pairing, or "none"
    starting,   \* per pairing: "unused", "sent", "served"
    awaited,    \* per pairing: StartPairing still waits for its response
    sess,       \* Service.pairings of each agent
    trusted,    \* trusted peers in each agent's database
    caller,     \* per confirm call: the agent whose user confirmed
    about,      \* per confirm call: the pairing it confirms
    client,     \* per confirm call: "idle", "waiting", "upsert", "done"
    server,     \* per confirm call: "none", "sent", "upsert", "answered", "failed"
    approved,   \* history: <<agent, id>> whose user called ConfirmPairing
    lost, storeFailures, restarts \* how often the bounded failures happened

sides  == <<initiator, responder, starting, awaited>>
calls  == <<caller, about, client, server>>
bounds == <<lost, storeFailures, restarts>>
vars == <<sides, sess, trusted, calls, approved, bounds>>

Init ==
    /\ initiator = [i \in Ids |-> "none"] /\ responder = [i \in Ids |-> "none"]
    /\ starting = [i \in Ids |-> "unused"]
    /\ awaited = [i \in Ids |-> FALSE]
    /\ sess = [a \in Agents |-> [i \in Ids |-> NoSession]]
    /\ trusted = [a \in Agents |-> {}]
    /\ caller = [c \in Calls |-> "none"] /\ about = [c \in Calls |-> "none"]
    /\ client = [c \in Calls |-> "idle"] /\ server = [c \in Calls |-> "none"]
    /\ approved = {}
    /\ lost = 0 /\ storeFailures = 0 /\ restarts = 0

PeerOf(a, i) == IF initiator[i] = a THEN responder[i] ELSE initiator[i]
Confirmed(s) == s.local /\ s.remote
NewSession == [known |-> TRUE, local |-> FALSE, remote |-> FALSE]

MayFail == lost + storeFailures + restarts < MaxFaults

\* A call that the network fails under its caller.
Lose == MayFail /\ lost' = lost + 1

---------------------------------------------------------------------------
(* StartPairing and AcceptIncomingPairing.                                 *)

StartPairing(a, b, i) ==
    /\ starting[i] = "unused" /\ a # b
    /\ initiator' = [initiator EXCEPT ![i] = a]
    /\ responder' = [responder EXCEPT ![i] = b]
    /\ starting' = [starting EXCEPT ![i] = "sent"]
    /\ awaited' = [awaited EXCEPT ![i] = TRUE]
    /\ UNCHANGED <<sess, trusted, calls, approved, bounds>>

AcceptIncomingPairing(i) ==
    /\ starting[i] = "sent"
    /\ starting' = [starting EXCEPT ![i] = "served"]
    /\ sess' = [sess EXCEPT ![responder[i]][i] = NewSession]
    /\ UNCHANGED <<initiator, responder, awaited, trusted, calls, approved, bounds>>

\* The initiator records the pairing only when the response has come.
StartReturns(i) ==
    /\ awaited[i]
    /\ awaited' = [awaited EXCEPT ![i] = FALSE]
    /\ \/ /\ starting[i] = "served"
          /\ sess' = [sess EXCEPT ![initiator[i]][i] = NewSession]
          /\ UNCHANGED lost
       \/ Lose /\ UNCHANGED sess
    /\ UNCHANGED <<initiator, responder, starting, trusted, calls, approved,
                   storeFailures, restarts>>

---------------------------------------------------------------------------
(* ConfirmPairing and AcceptPairingConfirm.                                *)

\* Mutant: the confirmation is sent, but not kept.
ConfirmPairingUnkept(c, a, i) ==
    /\ client[c] = "idle" /\ sess[a][i].known
    /\ caller' = [caller EXCEPT ![c] = a]
    /\ about' = [about EXCEPT ![c] = i]
    /\ client' = [client EXCEPT ![c] = "waiting"]
    /\ server' = [server EXCEPT ![c] = "sent"]
    /\ approved' = approved \cup {<<a, i>>}
    /\ UNCHANGED <<sides, sess, trusted, bounds>>

\* MarkLocalConfirmed comes before the other agent is asked.
ConfirmPairing(c, a, i) ==
    /\ client[c] = "idle" /\ sess[a][i].known
    /\ caller' = [caller EXCEPT ![c] = a]
    /\ about' = [about EXCEPT ![c] = i]
    /\ client' = [client EXCEPT ![c] = "waiting"]
    /\ server' = [server EXCEPT ![c] = "sent"]
    /\ sess' = [sess EXCEPT ![a][i].local = TRUE]
    /\ approved' = approved \cup {<<a, i>>}
    /\ UNCHANGED <<sides, trusted, bounds>>

\* Mutant: either confirmation is enough.
ServeConfirmEither(c) ==
    LET i == about[c]
        b == PeerOf(caller[c], i) IN
    /\ server[c] = "sent"
    /\ IF sess[b][i].known
       THEN /\ sess' = [sess EXCEPT ![b][i].remote = TRUE]
            /\ server' = [server EXCEPT ![c] = "upsert"]
       ELSE server' = [server EXCEPT ![c] = "failed"] /\ UNCHANGED sess
    /\ UNCHANGED <<sides, trusted, caller, about, client, approved, bounds>>

\* Mutant: the peer is stored by its own user's confirm call only.
ServeConfirmUnstored(c) ==
    LET i == about[c]
        b == PeerOf(caller[c], i) IN
    /\ server[c] = "sent"
    /\ IF sess[b][i].known
       THEN /\ sess' = [sess EXCEPT ![b][i].remote = TRUE]
            /\ server' = [server EXCEPT ![c] = "answered"]
       ELSE server' = [server EXCEPT ![c] = "failed"] /\ UNCHANGED sess
    /\ UNCHANGED <<sides, trusted, caller, about, client, approved, bounds>>

\* AcceptPairingConfirm up to the database: MarkRemoteConfirmed.
ServeConfirm(c) ==
    LET i == about[c]
        b == PeerOf(caller[c], i) IN
    /\ server[c] = "sent"
    /\ \/ /\ ~sess[b][i].known
          /\ server' = [server EXCEPT ![c] = "failed"]
          /\ UNCHANGED sess
       \/ /\ sess[b][i].known
          /\ sess' = [sess EXCEPT ![b][i].remote = TRUE]
          /\ server' = [server EXCEPT ![c] =
                           IF sess[b][i].local THEN "upsert" ELSE "answered"]
    /\ UNCHANGED <<sides, trusted, caller, about, client, approved, bounds>>

\* UpsertTrustedPeer at agent a, or its failure.
Trust(a, b) ==
    /\ trusted' = [trusted EXCEPT ![a] = @ \cup {b}]
    /\ UNCHANGED storeFailures

FailToTrust ==
    /\ MayFail
    /\ storeFailures' = storeFailures + 1
    /\ UNCHANGED trusted

ServerUpsert(c) ==
    LET b == PeerOf(caller[c], about[c]) IN
    /\ server[c] = "upsert"
    /\ \/ Trust(b, caller[c]) /\ server' = [server EXCEPT ![c] = "answered"]
       \/ FailToTrust /\ server' = [server EXCEPT ![c] = "failed"]
    /\ UNCHANGED <<sides, sess, caller, about, client, approved, lost, restarts>>

\* Mutant: the pairing counts as confirmed, but the peer is not stored.
ConfirmReturnsUntrusting(c) ==
    /\ client[c] = "waiting"
    /\ \/ /\ server[c] = "answered"
          /\ sess' = [sess EXCEPT ![caller[c]][about[c]].remote = TRUE]
       \/ server[c] = "failed" /\ UNCHANGED sess
    /\ client' = [client EXCEPT ![c] = "done"]
    /\ UNCHANGED <<sides, trusted, caller, about, server, approved, bounds>>

\* The response says RemoteConfirmed whenever the peer has stored our own
\* confirmation, so every answer marks the peer as confirmed here.
ConfirmReturns(c) ==
    LET a == caller[c] IN
    /\ client[c] = "waiting"
    /\ \/ /\ server[c] = "answered"
          /\ sess' = [sess EXCEPT ![a][about[c]].remote = TRUE]
          /\ client' = [client EXCEPT ![c] =
                           IF sess[a][about[c]].local THEN "upsert" ELSE "done"]
          /\ UNCHANGED lost
       \/ /\ server[c] = "failed"
          /\ client' = [client EXCEPT ![c] = "done"]
          /\ UNCHANGED <<sess, lost>>
       \/ /\ Lose
          /\ client' = [client EXCEPT ![c] = "done"]
          /\ UNCHANGED sess
    /\ UNCHANGED <<sides, trusted, caller, about, server, approved, storeFailures,
                   restarts>>

ClientUpsert(c) ==
    /\ client[c] = "upsert"
    /\ \/ Trust(caller[c], PeerOf(caller[c], about[c]))
       \/ FailToTrust
    /\ client' = [client EXCEPT ![c] = "done"]
    /\ UNCHANGED <<sides, sess, caller, about, server, approved, lost, restarts>>

---------------------------------------------------------------------------
\* An agent restarts: its pairing sessions and the calls in it are gone.
Restart(a) ==
    /\ MayFail
    /\ restarts' = restarts + 1
    /\ sess' = [sess EXCEPT ![a] = [i \in Ids |-> NoSession]]
    /\ awaited' = [i \in Ids |-> awaited[i] /\ initiator[i] # a]
    /\ client' = [c \in Calls |->
                    IF caller[c] = a /\ client[c] # "idle" THEN "done" ELSE client[c]]
    /\ server' = [c \in Calls |->
                    IF server[c] = "upsert" /\ PeerOf(caller[c], about[c]) = a
                    THEN "failed" ELSE server[c]]
    /\ UNCHANGED <<initiator, responder, starting, trusted, caller, about, approved,
                   lost, storeFailures>>

StartStep(i) == AcceptIncomingPairing(i) \/ StartReturns(i)
ClientStep(c) == ConfirmReturns(c) \/ ClientUpsert(c)
ServerStep(c) == ServeConfirm(c) \/ ServerUpsert(c)

Next ==
    \/ \E a, b \in Agents, i \in Ids : StartPairing(a, b, i)
    \/ \E i \in Ids : StartStep(i)
    \/ \E c \in Calls, a \in Agents, i \in Ids : ConfirmPairing(c, a, i)
    \/ \E c \in Calls : ClientStep(c) \/ ServerStep(c)
    \/ \E a \in Agents : Restart(a)

Spec == Init /\ [][Next]_vars

\* Both agents run, and the network delivers what it does not lose.  No user
\* is forced to start or confirm anything.
FairSpec ==
    /\ Spec
    /\ \A i \in Ids : WF_vars(StartStep(i))
    /\ \A c \in Calls : WF_vars(ClientStep(c)) /\ WF_vars(ServerStep(c))

---------------------------------------------------------------------------
(* Properties.                                                             *)

\* The variables keep their types.
TypeOK ==
    /\ initiator \in [Ids -> Agents \cup {"none"}]
    /\ responder \in [Ids -> Agents \cup {"none"}]
    /\ starting \in [Ids -> {"unused", "sent", "served"}]
    /\ awaited \in [Ids -> BOOLEAN]
    /\ sess \in [Agents -> [Ids -> Sessions]]
    /\ trusted \in [Agents -> SUBSET Agents]
    /\ caller \in [Calls -> Agents \cup {"none"}]
    /\ about \in [Calls -> Ids \cup {"none"}]
    /\ client \in [Calls -> {"idle", "waiting", "upsert", "done"}]
    /\ server \in [Calls -> {"none", "sent", "upsert", "answered", "failed"}]
    /\ approved \subseteq Agents \X Ids
    /\ lost \in Nat /\ storeFailures \in Nat /\ restarts \in Nat

Between(a, b, i) == {initiator[i], responder[i]} = {a, b}

\* No agent comes to trust a peer before its own user has confirmed a pairing
\* with that very peer, whatever calls race, are lost, repeated or late.
OwnUserConfirmed ==
    \A a, b \in Agents : b \in trusted[a] =>
        a # b /\ \E i \in Ids : Between(a, b, i) /\ <<a, i>> \in approved

\* Trust takes the confirmation of both users.
\* (docs/superpowers/specs/2026-04-09-message-share-design.md)
BothUsersConfirmed ==
    \A a, b \in Agents : b \in trusted[a] =>
        \E i \in Ids : Between(a, b, i) /\ {<<a, i>>, <<b, i>>} \subseteq approved

NothingFailed == lost = 0 /\ storeFailures = 0 /\ restarts = 0
NoCallUnderWay == \A c \in Calls : client[c] \in {"idle", "done"} /\ server[c] # "upsert"

\* When no call is under way, a pairing that counts as confirmed has made its
\* peer a trusted one: the user does not see a finished pairing with a device
\* to which nothing can be sent, unless a call or the store failed.
ConfirmedIsTrusted ==
    NothingFailed /\ NoCallUnderWay =>
        \A a \in Agents, i \in Ids :
            Confirmed(sess[a][i]) => PeerOf(a, i) \in trusted[a]

BothApproved(i) == {<<initiator[i], i>>, <<responder[i], i>>} \subseteq approved
MutualTrust(i) ==
    /\ starting[i] # "unused"
    /\ responder[i] \in trusted[initiator[i]] /\ initiator[i] \in trusted[responder[i]]

\* However the confirmations of the two users cross, and although one that
\* overtakes the answer to the pairing request is refused: when no call is
\* under way and none has failed, what both users confirmed both agents trust,
\* and nobody has to confirm again.
SettledTrustIsMutual ==
    NothingFailed /\ NoCallUnderWay => \A i \in Ids : BothApproved(i) => MutualTrust(i)

\* Once both users have confirmed a pairing, both agents trust each other in
\* the end, in whichever order the two confirmations cross, unless a call, the
\* store or an agent failed.
TrustIsMutual ==
    \A i \in Ids : BothApproved(i) ~> (MutualTrust(i) \/ ~NothingFailed)

---------------------------------------------------------------------------
(* The inductive invariant behind OwnUserConfirmed.                        *)

\* A pairing that was started has two different sides.
TwoSides ==
    \A i \in Ids :
        \/ starting[i] = "unused" /\ initiator[i] = "none" /\ responder[i] = "none"
        \/ /\ starting[i] # "unused"
           /\ initiator[i] \in Agents /\ responder[i] \in Agents \ {initiator[i]}

\* Only the two sides hold the pairing, and its local flag is their user's.
SessionsBelong ==
    \A a \in Agents, i \in Ids :
        /\ sess[a][i].known => a \in {initiator[i], responder[i]}
        /\ sess[a][i].local => sess[a][i].known /\ <<a, i>> \in approved

\* A call was made by a side whose user approved, and a caller that waits still
\* has the pairing; a server that is about to store its caller has the approval
\* of its own user.
CallsBelong ==
    \A c \in Calls :
        /\ client[c] # "idle" \/ server[c] # "none" =>
              /\ caller[c] \in Agents /\ about[c] \in Ids
              /\ caller[c] \in {initiator[about[c]], responder[about[c]]}
              /\ <<caller[c], about[c]>> \in approved
        /\ client[c] = "waiting" => sess[caller[c]][about[c]].known
        /\ server[c] = "upsert" =>
              <<PeerOf(caller[c], about[c]), about[c]>> \in approved

IInv == TypeOK /\ TwoSides /\ SessionsBelong /\ CallsBelong /\ OwnUserConfirmed
=============================================================================
