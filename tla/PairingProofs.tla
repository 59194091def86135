--------------------------- MODULE PairingProofs ---------------------------
(***************************************************************************)
(* For any set of agents, any number of pairings and confirm calls, and    *)
(* any number of lost calls, store failures and restarts: an agent trusts  *)
(* only peers with whom its own user has confirmed a pairing.  As long as  *)
(* nothing fails, a confirmed pairing makes its peer a trusted one, and    *)
(* what both users confirmed both agents trust.                            *)
(***************************************************************************)
EXTENDS Pairing, TLAPS

USE DEF sides, calls, bounds

\* Nothing has happened yet.
LEMMA InitIInv == Init => IInv
<1> SUFFICES ASSUME Init PROVE IInv
    OBVIOUS
<1> USE PairingAssumption DEF Init, NoSession
<1>1. TypeOK
    BY DEF TypeOK, Sessions
<1>2. TwoSides /\ SessionsBelong /\ CallsBelong /\ OwnUserConfirmed
    BY DEF TwoSides, SessionsBelong, CallsBelong, OwnUserConfirmed
<1> QED
    BY <1>1, <1>2 DEF IInv

\* The peer of a side of a started pairing is its other side.
LEMMA OtherSide ==
    ASSUME TypeOK, TwoSides, NEW i \in Ids, NEW a \in Agents,
           a \in {initiator[i], responder[i]}
    PROVE  /\ PeerOf(a, i) \in Agents \ {a}
           /\ Between(a, PeerOf(a, i), i) /\ Between(PeerOf(a, i), a, i)
    BY PairingAssumption DEF TypeOK, TwoSides, PeerOf, Between

\* Updating one pairing session keeps the type of them all.
LEMMA SessionUpdate ==
    ASSUME TypeOK, NEW a \in Agents, NEW i \in Ids
    PROVE  /\ [sess EXCEPT ![a][i] = NewSession] \in [Agents -> [Ids -> Sessions]]
           /\ [sess EXCEPT ![a][i].local = TRUE] \in [Agents -> [Ids -> Sessions]]
           /\ [sess EXCEPT ![a][i].remote = TRUE] \in [Agents -> [Ids -> Sessions]]
<1>1. sess[a] \in [Ids -> Sessions] /\ sess[a][i] \in Sessions
    BY DEF TypeOK
<1>2. /\ NewSession \in Sessions
      /\ [sess[a][i] EXCEPT !.local = TRUE] \in Sessions
      /\ [sess[a][i] EXCEPT !.remote = TRUE] \in Sessions
    BY <1>1 DEF NewSession, Sessions
<1>3. /\ [sess[a] EXCEPT ![i] = NewSession] \in [Ids -> Sessions]
      /\ [sess[a] EXCEPT ![i].local = TRUE] \in [Ids -> Sessions]
      /\ [sess[a] EXCEPT ![i].remote = TRUE] \in [Ids -> Sessions]
    BY <1>1, <1>2
<1> QED
    BY <1>3 DEF TypeOK

\* Marking a remote confirmation forgets no pairing.
LEMMA RemoteKeepsKnown ==
    ASSUME IInv, NEW a \in Agents, NEW i \in Ids, NEW b \in Agents, NEW j \in Ids,
           sess[b][j].known,
           \/ UNCHANGED sess
           \/ sess' = [sess EXCEPT ![a][i].remote = TRUE]
    PROVE  sess'[b][j].known
<1>1. CASE UNCHANGED sess
    BY <1>1
<1>2. CASE sess' = [sess EXCEPT ![a][i].remote = TRUE]
    <2>1. /\ sess \in [Agents -> [Ids -> Sessions]]
          /\ sess[b][j] \in Sessions
        BY DEF IInv, TypeOK
    <2>2. \/ sess'[b][j] = sess[b][j]
          \/ sess'[b][j] = [sess[b][j] EXCEPT !.remote = TRUE]
        BY <1>2, <2>1
    <2> QED BY <2>1, <2>2 DEF Sessions
<1> QED
    BY <1>1, <1>2

\* The sides of a call are agents, and its pairing exists.
LEMMA CallSides ==
    ASSUME IInv, NEW c \in Calls, client[c] # "idle" \/ server[c] # "none"
    PROVE  /\ about[c] \in Ids
           /\ caller[c] \in Agents
           /\ caller[c] \in {initiator[about[c]], responder[about[c]]}
           /\ <<caller[c], about[c]>> \in approved
           /\ PeerOf(caller[c], about[c]) \in Agents \ {caller[c]}
           /\ Between(caller[c], PeerOf(caller[c], about[c]), about[c])
           /\ Between(PeerOf(caller[c], about[c]), caller[c], about[c])
    BY OtherSide DEF IInv, CallsBelong

\* Types survive every step.
LEMMA TypeStep == IInv /\ [Next]_vars => TypeOK'
<1> SUFFICES ASSUME IInv, [Next]_vars PROVE TypeOK'
    OBVIOUS
<1>0. TypeOK
    BY DEF IInv
<1>1. ASSUME NEW a \in Agents, NEW b \in Agents, NEW i \in Ids, StartPairing(a, b, i)
      PROVE TypeOK'
    BY <1>0, <1>1 DEF StartPairing, TypeOK
<1>2. ASSUME NEW i \in Ids, AcceptIncomingPairing(i) PROVE TypeOK'
    <2>1. responder[i] \in Agents
        BY <1>2 DEF AcceptIncomingPairing, TwoSides, IInv
    <2>2. sess' \in [Agents -> [Ids -> Sessions]]
        BY <1>0, <1>2, <2>1, SessionUpdate DEF AcceptIncomingPairing
    <2> QED BY <1>0, <1>2, <2>2 DEF AcceptIncomingPairing, TypeOK
<1>3. ASSUME NEW i \in Ids, StartReturns(i) PROVE TypeOK'
    <2>1. CASE starting[i] = "served" /\ UNCHANGED lost
               /\ sess' = [sess EXCEPT ![initiator[i]][i] = NewSession]
        <3>1. initiator[i] \in Agents
            BY <2>1 DEF TwoSides, IInv
        <3>2. sess' \in [Agents -> [Ids -> Sessions]]
            BY <1>0, <2>1, <3>1, SessionUpdate
        <3> QED BY <1>0, <1>3, <2>1, <3>2 DEF StartReturns, TypeOK
    <2>2. CASE Lose /\ UNCHANGED sess
        BY <1>0, <1>3, <2>2 DEF StartReturns, Lose, TypeOK
    <2> QED BY <1>3, <2>1, <2>2 DEF StartReturns
<1>4. ASSUME NEW c \in Calls, NEW a \in Agents, NEW i \in Ids, ConfirmPairing(c, a, i)
      PROVE TypeOK'
    <2>1. sess' \in [Agents -> [Ids -> Sessions]]
        BY <1>0, <1>4, SessionUpdate DEF ConfirmPairing
    <2> QED BY <1>0, <1>4, <2>1 DEF ConfirmPairing, TypeOK
<1>5. ASSUME NEW c \in Calls, ConfirmReturns(c) PROVE TypeOK'
    <2>1. sess' \in [Agents -> [Ids -> Sessions]]
        <3>1. [sess EXCEPT ![caller[c]][about[c]].remote = TRUE]
                 \in [Agents -> [Ids -> Sessions]]
            BY <1>0, <1>5, CallSides, SessionUpdate DEF ConfirmReturns
        <3> QED BY <1>0, <1>5, <3>1 DEF ConfirmReturns, TypeOK
    <2>2. client' \in [Calls -> {"idle", "waiting", "upsert", "done"}]
        <3>1. \/ client' = [client EXCEPT ![c] = "upsert"]
              \/ client' = [client EXCEPT ![c] = "done"]
            BY <1>5, Zenon DEF ConfirmReturns
        <3> QED BY <1>0, <3>1 DEF TypeOK
    <2>3. lost' \in Nat
        BY <1>0, <1>5 DEF ConfirmReturns, Lose, TypeOK
    <2> QED BY <1>0, <1>5, <2>1, <2>2, <2>3 DEF ConfirmReturns, TypeOK
<1>6. ASSUME NEW c \in Calls, ClientUpsert(c) PROVE TypeOK'
    <2>1. PeerOf(caller[c], about[c]) \in Agents /\ caller[c] \in Agents
        BY <1>6, CallSides DEF ClientUpsert
    <2>2. trusted' \in [Agents -> SUBSET Agents] /\ storeFailures' \in Nat
        BY <1>0, <1>6, <2>1 DEF ClientUpsert, Trust, FailToTrust, TypeOK
    <2> QED BY <1>0, <1>6, <2>2 DEF ClientUpsert, TypeOK
<1>7. ASSUME NEW c \in Calls, ServeConfirm(c) PROVE TypeOK'
    <2>1. [sess EXCEPT ![PeerOf(caller[c], about[c])][about[c]].remote = TRUE]
             \in [Agents -> [Ids -> Sessions]]
        BY <1>0, <1>7, CallSides, SessionUpdate DEF ServeConfirm
    <2>2. sess' \in [Agents -> [Ids -> Sessions]]
        BY <1>0, <1>7, <2>1 DEF ServeConfirm, TypeOK
    <2>3. server' \in [Calls -> {"none", "sent", "upsert", "answered", "failed"}]
        BY <1>0, <1>7 DEF ServeConfirm, TypeOK
    <2> QED BY <1>0, <1>7, <2>2, <2>3 DEF ServeConfirm, TypeOK
<1>8. ASSUME NEW c \in Calls, ServerUpsert(c) PROVE TypeOK'
    <2>1. PeerOf(caller[c], about[c]) \in Agents /\ caller[c] \in Agents
        BY <1>8, CallSides DEF ServerUpsert
    <2>2. trusted' \in [Agents -> SUBSET Agents] /\ storeFailures' \in Nat
        BY <1>0, <1>8, <2>1 DEF ServerUpsert, Trust, FailToTrust, TypeOK
    <2>3. server' \in [Calls -> {"none", "sent", "upsert", "answered", "failed"}]
        BY <1>0, <1>8 DEF ServerUpsert, TypeOK
    <2> QED BY <1>0, <1>8, <2>2, <2>3 DEF ServerUpsert, TypeOK
<1>9. ASSUME NEW a \in Agents, Restart(a) PROVE TypeOK'
    <2>1. sess' \in [Agents -> [Ids -> Sessions]]
        BY <1>0, <1>9 DEF Restart, TypeOK, NoSession, Sessions
    <2>2. /\ client' \in [Calls -> {"idle", "waiting", "upsert", "done"}]
          /\ server' \in [Calls -> {"none", "sent", "upsert", "answered", "failed"}]
        BY <1>0, <1>9 DEF Restart, TypeOK
    <2>3. awaited' \in [Ids -> BOOLEAN]
        BY <1>0, <1>9 DEF Restart, TypeOK
    <2> QED BY <1>0, <1>9, <2>1, <2>2, <2>3 DEF Restart, TypeOK
<1>10. CASE UNCHANGED vars
    BY <1>0, <1>10 DEF vars, TypeOK
<1> QED
    BY <1>1, <1>2, <1>3, <1>4, <1>5, <1>6, <1>7, <1>8, <1>9, <1>10
    DEF Next, StartStep, ClientStep, ServerStep

\* The sides of a pairing are fixed when it is started; a started pairing
\* keeps them, and so the peers of its sides.
LEMMA SidesStep == IInv /\ [Next]_vars =>
    /\ TwoSides'
    /\ \A i \in Ids : starting[i] # "unused" =>
          initiator'[i] = initiator[i] /\ responder'[i] = responder[i]
<1> SUFFICES ASSUME IInv, [Next]_vars
             PROVE /\ TwoSides'
                   /\ \A i \in Ids : starting[i] # "unused" =>
                         initiator'[i] = initiator[i] /\ responder'[i] = responder[i]
    OBVIOUS
<1> USE DEF IInv, TypeOK, TwoSides
<1>1. CASE \E a, b \in Agents, i \in Ids : StartPairing(a, b, i)
    BY <1>1 DEF StartPairing
<1>2. CASE \E i \in Ids : AcceptIncomingPairing(i)
    BY <1>2 DEF AcceptIncomingPairing
<1>3. CASE UNCHANGED <<initiator, responder, starting>>
    BY <1>3
<1>4. (\E i \in Ids : StartReturns(i)) => UNCHANGED <<initiator, responder, starting>>
    BY DEF StartReturns
<1>5. (\E c \in Calls, a \in Agents, i \in Ids : ConfirmPairing(c, a, i))
        => UNCHANGED <<initiator, responder, starting>>
    BY DEF ConfirmPairing
<1>6. (\E c \in Calls : ClientStep(c)) => UNCHANGED <<initiator, responder, starting>>
    BY DEF ClientStep, ConfirmReturns, ClientUpsert
<1>7. (\E c \in Calls : ServerStep(c)) => UNCHANGED <<initiator, responder, starting>>
    BY DEF ServerStep, ServeConfirm, ServerUpsert
<1>8. (\E a \in Agents : Restart(a)) => UNCHANGED <<initiator, responder, starting>>
    BY DEF Restart
<1>9. (UNCHANGED vars) => UNCHANGED <<initiator, responder, starting>>
    BY DEF vars
<1> QED
    BY <1>1, <1>2, <1>3, <1>4, <1>5, <1>6, <1>7, <1>8, <1>9 DEF Next, StartStep

\* A pairing of which somebody is a side, and a call that was made, are about
\* a started pairing, whose sides stay.
LEMMA SidesStay ==
    ASSUME IInv, [Next]_vars, NEW i \in Ids, NEW a \in Agents,
           a \in {initiator[i], responder[i]}
    PROVE  /\ initiator'[i] = initiator[i] /\ responder'[i] = responder[i]
           /\ PeerOf(a, i)' = PeerOf(a, i)
<1>1. starting[i] # "unused"
    BY PairingAssumption DEF IInv, TwoSides
<1> QED
    BY <1>1, SidesStep DEF PeerOf

\* A user's approval is never taken back.
LEMMA ApprovalStays == [Next]_vars => approved \subseteq approved'
<1> SUFFICES ASSUME [Next]_vars PROVE approved \subseteq approved'
    OBVIOUS
<1> USE DEF StartPairing, AcceptIncomingPairing, StartReturns, ConfirmPairing,
            ConfirmReturns, ClientUpsert, ServeConfirm, ServerUpsert, Restart
<1> QED
    BY DEF Next, StartStep, ClientStep, ServerStep, vars

\* Pairing sessions stay with the sides, and with their users' approval.
LEMMA SessionsStep == IInv /\ [Next]_vars => SessionsBelong'
<1> SUFFICES ASSUME IInv, [Next]_vars, NEW b \in Agents, NEW j \in Ids
             PROVE  /\ sess'[b][j].known => b \in {initiator'[j], responder'[j]}
                    /\ sess'[b][j].local => sess'[b][j].known /\ <<b, j>> \in approved'
    BY DEF SessionsBelong
<1>0. /\ TypeOK /\ TwoSides /\ SessionsBelong
      /\ approved \subseteq approved'
      /\ sess[b][j] \in Sessions
    BY ApprovalStays DEF IInv, TypeOK
<1>1. CASE sess'[b][j] = sess[b][j] \/ sess'[b][j] = NoSession
    BY <1>0, <1>1, SidesStay DEF SessionsBelong, NoSession
<1>2. CASE sess'[b][j] = [sess[b][j] EXCEPT !.remote = TRUE] /\ sess[b][j].known
    BY <1>0, <1>2, SidesStay DEF SessionsBelong, Sessions
<1>3. CASE sess'[b][j] = NewSession /\ b \in {initiator[j], responder[j]}
    BY <1>3, SidesStay DEF NewSession
<1>4. CASE /\ sess'[b][j] = [sess[b][j] EXCEPT !.local = TRUE]
           /\ sess[b][j].known /\ <<b, j>> \in approved'
    BY <1>0, <1>4, SidesStay DEF SessionsBelong, Sessions
<1> DEFINE Goal == \/ sess'[b][j] = sess[b][j] \/ sess'[b][j] = NoSession
                   \/ sess'[b][j] = [sess[b][j] EXCEPT !.remote = TRUE] /\ sess[b][j].known
                   \/ sess'[b][j] = NewSession /\ b \in {initiator[j], responder[j]}
                   \/ /\ sess'[b][j] = [sess[b][j] EXCEPT !.local = TRUE]
                      /\ sess[b][j].known /\ <<b, j>> \in approved'
<1> HIDE DEF Goal
<1>5. ASSUME UNCHANGED sess PROVE Goal
    BY <1>5 DEF Goal
<1>6. ASSUME NEW i \in Ids, AcceptIncomingPairing(i) PROVE Goal
    BY <1>0, <1>6 DEF AcceptIncomingPairing, TypeOK, Goal
<1>7. ASSUME NEW i \in Ids, StartReturns(i) PROVE Goal
    BY <1>0, <1>7 DEF StartReturns, TypeOK, Goal
<1>8. ASSUME NEW c \in Calls, NEW a \in Agents, NEW i \in Ids, ConfirmPairing(c, a, i)
      PROVE Goal
    BY ZenonT(40), <1>0, <1>8 DEF ConfirmPairing, TypeOK, Goal
<1>9. ASSUME NEW c \in Calls, ServeConfirm(c) PROVE Goal
    <2> DEFINE p == PeerOf(caller[c], about[c])
    <2>1. p \in Agents /\ about[c] \in Ids
        BY <1>9, CallSides DEF ServeConfirm
    <2>2. CASE UNCHANGED sess
        BY <2>2 DEF Goal
    <2>3. CASE sess[p][about[c]].known
               /\ sess' = [sess EXCEPT ![p][about[c]].remote = TRUE]
        BY ZenonT(40), <1>0, <2>1, <2>3 DEF TypeOK, Goal
    <2> QED BY <1>9, <2>2, <2>3 DEF ServeConfirm
<1>11. ASSUME NEW a \in Agents, Restart(a) PROVE Goal
    BY <1>0, <1>11 DEF Restart, TypeOK, Goal
<1>12. ASSUME NEW c \in Calls, ConfirmReturns(c) PROVE Goal
    <2>1. caller[c] \in Agents /\ about[c] \in Ids /\ sess[caller[c]][about[c]].known
        BY <1>12, CallSides DEF ConfirmReturns, IInv, CallsBelong
    <2>2. CASE UNCHANGED sess
        BY <2>2 DEF Goal
    <2>3. CASE sess' = [sess EXCEPT ![caller[c]][about[c]].remote = TRUE]
        BY ZenonT(40), <1>0, <2>1, <2>3 DEF TypeOK, Goal
    <2> QED BY <1>12, <2>2, <2>3 DEF ConfirmReturns
<1>13. Goal
    <2>1. ASSUME NEW c \in Calls, ClientUpsert(c) \/ ServerUpsert(c) PROVE UNCHANGED sess
        BY <2>1 DEF ClientUpsert, ServerUpsert
    <2>2. ASSUME NEW a \in Agents, NEW x \in Agents, NEW i \in Ids, StartPairing(a, x, i)
          PROVE UNCHANGED sess
        BY <2>2 DEF StartPairing
    <2>3. UNCHANGED vars => UNCHANGED sess
        BY DEF vars
    <2> QED
        BY <2>1, <2>2, <2>3, <1>5, <1>6, <1>7, <1>8, <1>9, <1>11, <1>12
        DEF Next, StartStep, ClientStep, ServerStep
<1> QED
    BY <1>1, <1>2, <1>3, <1>4, <1>13 DEF Goal

\* A call keeps what it knows of its pairing, whichever step is taken.
LEMMA CallsStep == IInv /\ [Next]_vars => CallsBelong'
<1> SUFFICES ASSUME IInv, [Next]_vars, NEW d \in Calls
             PROVE /\ client'[d] # "idle" \/ server'[d] # "none" =>
                         /\ caller'[d] \in Agents /\ about'[d] \in Ids
                         /\ caller'[d] \in {initiator'[about'[d]], responder'[about'[d]]}
                         /\ <<caller'[d], about'[d]>> \in approved'
                   /\ client'[d] = "waiting" => sess'[caller'[d]][about'[d]].known
                   /\ server'[d] = "upsert" =>
                         <<PeerOf(caller[d], about[d])', about'[d]>> \in approved'
    BY DEF CallsBelong
<1> DEFINE Made == client[d] # "idle" \/ server[d] # "none"
           Owner == caller[d]
           Id == about[d]
<1>0. TypeOK /\ approved \subseteq approved'
    BY ApprovalStays DEF IInv
\* The call is the same before and after the step.
<1> DEFINE Kept ==
           /\ caller'[d] = caller[d] /\ about'[d] = about[d]
           /\ client'[d] # "idle" \/ server'[d] # "none" => Made
           /\ client'[d] = "waiting" => client[d] = "waiting" /\ sess'[Owner][Id].known
           /\ server'[d] = "upsert" =>
                 server[d] = "upsert" \/ (Made /\ sess[PeerOf(Owner, Id)][Id].local)
<1>1. CASE Kept
    <2>1. Made => /\ Owner \in Agents /\ Id \in Ids
                  /\ Owner \in {initiator[Id], responder[Id]}
                  /\ <<Owner, Id>> \in approved
                  /\ PeerOf(Owner, Id) \in Agents
        BY CallSides
    <2>2. Made => /\ initiator'[Id] = initiator[Id] /\ responder'[Id] = responder[Id]
                  /\ PeerOf(caller[d], about[d])' = PeerOf(Owner, Id)
        BY <1>1, <2>1, SidesStay DEF PeerOf
    <2>3. server[d] = "upsert" => Made
        OBVIOUS
    <2>4. server[d] = "upsert" => <<PeerOf(Owner, Id), Id>> \in approved
        BY DEF IInv, CallsBelong
    <2>5. Made /\ sess[PeerOf(Owner, Id)][Id].local => <<PeerOf(Owner, Id), Id>> \in approved
        BY <2>1 DEF IInv, SessionsBelong
    <2> QED
        BY <1>0, <1>1, <2>1, <2>2, <2>3, <2>4, <2>5
\* A waiting caller keeps its pairing unless it restarts.
<1>2. ASSUME client[d] = "waiting"
      PROVE  Owner \in Agents /\ Id \in Ids /\ sess[Owner][Id].known
    BY <1>2, CallSides DEF IInv, CallsBelong
<1>3. ASSUME NEW c \in Calls, NEW a \in Agents, NEW i \in Ids, ConfirmPairing(c, a, i), c = d
      PROVE  /\ caller'[d] = a /\ about'[d] = i /\ server'[d] = "sent"
             /\ <<a, i>> \in approved' /\ sess'[a][i].known
             /\ a \in {initiator'[i], responder'[i]}
    <2>1. sess[a][i].known /\ a \in {initiator[i], responder[i]}
        BY <1>3 DEF ConfirmPairing, IInv, SessionsBelong
    <2>2. sess'[a][i].known
        BY <1>0, <1>3, <2>1 DEF ConfirmPairing, TypeOK, Sessions
    <2> QED BY <1>0, <1>3, <2>1, <2>2 DEF ConfirmPairing, TypeOK
<1>4. ASSUME NEW c \in Calls, NEW a \in Agents, NEW i \in Ids, ConfirmPairing(c, a, i), c # d
      PROVE  Kept
    <2>1. sess[a][i] \in Sessions
        BY <1>0 DEF TypeOK
    <2>2. client[d] = "waiting" => sess'[Owner][Id].known
        BY <1>0, <1>2, <1>4, <2>1 DEF ConfirmPairing, TypeOK, Sessions
    <2> QED BY <1>0, <1>4, <2>2 DEF ConfirmPairing, TypeOK
<1>5. ASSUME NEW i \in Ids, AcceptIncomingPairing(i) PROVE Kept
    <2>1. client[d] = "waiting" => sess'[Owner][Id].known
        BY <1>0, <1>2, <1>5 DEF AcceptIncomingPairing, TypeOK, NewSession
    <2> QED BY <1>5, <2>1 DEF AcceptIncomingPairing
<1>6. ASSUME NEW i \in Ids, StartReturns(i) PROVE Kept
    <2>1. client[d] = "waiting" => sess'[Owner][Id].known
        BY <1>0, <1>2, <1>6 DEF StartReturns, TypeOK, NewSession
    <2> QED BY <1>6, <2>1 DEF StartReturns
<1>7. ASSUME NEW c \in Calls, ConfirmReturns(c) PROVE Kept
    <2>1. client[d] = "waiting" => sess'[Owner][Id].known
        <3>1. caller[c] \in Agents /\ about[c] \in Ids
            BY <1>7, CallSides DEF ConfirmReturns
        <3>2. \/ UNCHANGED sess
              \/ sess' = [sess EXCEPT ![caller[c]][about[c]].remote = TRUE]
            BY <1>7, Zenon DEF ConfirmReturns
        <3> QED BY <1>2, <3>1, <3>2, RemoteKeepsKnown
    <2>2. client'[d] # "idle" => Made
        BY <1>0, <1>7 DEF ConfirmReturns, TypeOK
    <2>3. client'[d] = "waiting" => client[d] = "waiting"
        BY <1>0, <1>7 DEF ConfirmReturns, TypeOK
    <2> QED BY <1>7, <2>1, <2>2, <2>3 DEF ConfirmReturns
<1>8. ASSUME NEW c \in Calls, ClientUpsert(c) PROVE Kept
    <2>1. client'[d] # "idle" => Made
        BY <1>0, <1>8 DEF ClientUpsert, TypeOK
    <2>2. client'[d] = "waiting" => client[d] = "waiting"
        BY <1>0, <1>8 DEF ClientUpsert, TypeOK
    <2> QED BY <1>2, <1>8, <2>1, <2>2 DEF ClientUpsert
<1>9. ASSUME NEW c \in Calls, ServeConfirm(c) PROVE Kept
    <2>1. client[d] = "waiting" => sess'[Owner][Id].known
        <3>1. PeerOf(caller[c], about[c]) \in Agents /\ about[c] \in Ids
            BY <1>9, CallSides DEF ServeConfirm
        <3>2. \/ UNCHANGED sess
              \/ sess' = [sess EXCEPT ![PeerOf(caller[c], about[c])][about[c]].remote = TRUE]
            BY <1>9, Zenon DEF ServeConfirm
        <3> QED BY <1>2, <3>1, <3>2, RemoteKeepsKnown
    <2>2. server'[d] # "none" => Made
        BY <1>0, <1>9 DEF ServeConfirm, TypeOK
    <2>3. server'[d] = "upsert" =>
             server[d] = "upsert" \/ (Made /\ sess[PeerOf(Owner, Id)][Id].local)
        BY <1>0, <1>9 DEF ServeConfirm, TypeOK
    <2> QED BY <1>9, <2>1, <2>2, <2>3 DEF ServeConfirm
<1>10. ASSUME NEW c \in Calls, ServerUpsert(c) PROVE Kept
    <2>1. /\ server'[d] # "none" => Made
          /\ server'[d] = "upsert" => server[d] = "upsert"
        BY <1>0, <1>10 DEF ServerUpsert, TypeOK
    <2> QED BY <1>2, <1>10, <2>1 DEF ServerUpsert
<1>11. ASSUME NEW a \in Agents, Restart(a) PROVE Kept
    <2>1. client'[d] = "waiting" => client[d] = "waiting" /\ caller[d] # a
        BY <1>0, <1>11 DEF Restart, TypeOK
    <2>2. client'[d] = "waiting" => sess'[Owner][Id].known
        BY <1>0, <1>2, <1>11, <2>1 DEF Restart, TypeOK
    <2>3. /\ client'[d] # "idle" => client[d] # "idle"
          /\ server'[d] # "none" => server[d] # "none"
          /\ server'[d] = "upsert" => server[d] = "upsert"
        BY <1>0, <1>11 DEF Restart, TypeOK
    <2> QED BY <1>11, <2>1, <2>2, <2>3 DEF Restart
<1>12. ASSUME NEW a \in Agents, NEW b \in Agents, NEW i \in Ids, StartPairing(a, b, i)
       PROVE  Kept
    BY <1>2, <1>12 DEF StartPairing
<1>13. CASE UNCHANGED vars
    <2>1. Kept
        BY <1>2, <1>13 DEF vars
    <2> QED BY <1>1, <2>1
<1> HIDE DEF Kept
<1>14. CASE \E c \in Calls, a \in Agents, i \in Ids : ConfirmPairing(c, a, i)
    <2>1. PICK c \in Calls, a \in Agents, i \in Ids : ConfirmPairing(c, a, i)
        BY <1>14
    <2>2. CASE c = d
        BY <2>1, <2>2, <1>3
    <2>3. CASE c # d
        BY <2>1, <2>3, <1>1, <1>4
    <2> QED BY <2>2, <2>3
<1> QED
    BY <1>1, <1>5, <1>6, <1>7, <1>8, <1>9, <1>10, <1>11, <1>12, <1>13, <1>14
    DEF Next, StartStep, ClientStep, ServerStep

\* A peer becomes trusted only in the two upserts, whose agent's user approved.
LEMMA TrustStep == IInv /\ [Next]_vars => OwnUserConfirmed'
<1> SUFFICES ASSUME IInv, [Next]_vars, NEW a \in Agents, NEW b \in Agents,
                    b \in trusted'[a]
             PROVE  a # b /\ \E i \in Ids :
                       {initiator'[i], responder'[i]} = {a, b} /\ <<a, i>> \in approved'
    BY DEF OwnUserConfirmed, Between
<1>0. TypeOK /\ approved \subseteq approved'
    BY ApprovalStays DEF IInv
<1>1. ASSUME NEW i \in Ids, a # b, Between(a, b, i), <<a, i>> \in approved
      PROVE  {initiator'[i], responder'[i]} = {a, b} /\ <<a, i>> \in approved'
    <2>1. a \in {initiator[i], responder[i]}
        BY <1>1 DEF Between
    <2> QED BY <1>0, <1>1, <2>1, SidesStay DEF Between
<1>2. CASE b \in trusted[a]
    BY <1>1, <1>2 DEF IInv, OwnUserConfirmed
<1>3. ASSUME NEW c \in Calls, ClientUpsert(c), b \notin trusted[a]
      PROVE  a = caller[c] /\ b = PeerOf(a, about[c])
    BY <1>0, <1>3 DEF ClientUpsert, Trust, FailToTrust, TypeOK
<1>4. ASSUME NEW c \in Calls, ClientUpsert(c), b \notin trusted[a]
      PROVE  about[c] \in Ids /\ a # b /\ Between(a, b, about[c]) /\ <<a, about[c]>> \in approved
    <2>1. a = caller[c] /\ b = PeerOf(a, about[c])
        BY <1>3, <1>4
    <2>2. client[c] # "idle"
        BY <1>4 DEF ClientUpsert
    <2> QED BY <2>1, <2>2, CallSides
<1>5. ASSUME NEW c \in Calls, ServerUpsert(c), b \notin trusted[a]
      PROVE  b = caller[c] /\ a = PeerOf(b, about[c])
    BY <1>0, <1>5 DEF ServerUpsert, Trust, FailToTrust, TypeOK
<1>6. ASSUME NEW c \in Calls, ServerUpsert(c), b \notin trusted[a]
      PROVE  about[c] \in Ids /\ a # b /\ Between(a, b, about[c]) /\ <<a, about[c]>> \in approved
    <2>1. b = caller[c] /\ a = PeerOf(b, about[c])
        BY <1>5, <1>6
    <2>2. server[c] = "upsert"
        BY <1>6 DEF ServerUpsert
    <2>3. <<a, about[c]>> \in approved
        BY <2>1, <2>2 DEF IInv, CallsBelong
    <2> QED BY <2>1, <2>2, <2>3, CallSides
<1>7. CASE UNCHANGED trusted
    BY <1>2, <1>7
<1>8. ASSUME NEW c \in Calls, ConfirmReturns(c) \/ ServeConfirm(c) PROVE UNCHANGED trusted
    BY <1>8 DEF ConfirmReturns, ServeConfirm
<1>9. ASSUME NEW i \in Ids, StartStep(i) PROVE UNCHANGED trusted
    BY <1>9 DEF StartStep, AcceptIncomingPairing, StartReturns
<1>10. ASSUME NEW x \in Agents, NEW y \in Agents, NEW i \in Ids, NEW c \in Calls,
              StartPairing(x, y, i) \/ ConfirmPairing(c, x, i)
       PROVE  UNCHANGED trusted
    BY <1>10 DEF StartPairing, ConfirmPairing
<1>11. ASSUME NEW x \in Agents, NEW y \in Agents, NEW i \in Ids, StartPairing(x, y, i)
       PROVE  UNCHANGED trusted
    BY <1>11 DEF StartPairing
<1>12. ASSUME NEW x \in Agents, Restart(x) PROVE UNCHANGED trusted
    BY <1>12 DEF Restart
<1>13. CASE \E c \in Calls : ClientUpsert(c) \/ ServerUpsert(c)
    BY <1>1, <1>2, <1>4, <1>6, <1>13
<1>14. UNCHANGED vars => UNCHANGED trusted
    BY DEF vars
<1> QED
    BY <1>7, <1>8, <1>9, <1>10, <1>11, <1>12, <1>13, <1>14 DEF Next, ClientStep, ServerStep

\* The invariant that makes every call and every session know whose it is.
LEMMA Invariance == Spec => []IInv
<1>1. IInv /\ [Next]_vars => IInv'
    BY TypeStep, SidesStep, SessionsStep, CallsStep, TrustStep DEF IInv
<1> QED
    BY InitIInv, <1>1, PTL DEF Spec

\* An agent trusts a peer only after its own user has confirmed a pairing with
\* that peer: MarkLocalConfirmed guards both UpsertTrustedPeer calls.
THEOREM TrustNeedsOwnUser == Spec => []OwnUserConfirmed
<1>1. IInv => OwnUserConfirmed
    BY DEF IInv
<1> QED
    BY Invariance, <1>1, PTL

---------------------------------------------------------------------------
(* What a finished pairing leaves behind, as long as nothing fails.        *)

Knows(a, i) == sess[a][i].known
Other(c) == PeerOf(caller[c], about[c])

\* Nobody confirms a pairing that he does not know, and who has heard of the
\* other's confirmation knows that the other has the pairing.
BothKnow ==
    /\ \A c \in Calls :
          /\ server[c] # "none" => client[c] # "idle"
          /\ client[c] # "idle" => Knows(caller[c], about[c])
          /\ server[c] \in {"upsert", "answered"} => Knows(Other(c), about[c])
    /\ \A a \in Agents, i \in Ids :
          sess[a][i].remote => Knows(a, i) /\ Knows(PeerOf(a, i), i)

\* A call that is about to store the peer of a pairing at agent a, or will be.
Settling(c, a, i) ==
    /\ about[c] = i
    /\ \/ caller[c] = a /\ client[c] = "upsert"
       \/ caller[c] = a /\ client[c] = "waiting" /\ server[c] # "failed"
       \/ server[c] = "upsert" /\ PeerOf(caller[c], i) = a

ConfirmedIsSettled ==
    \A a \in Agents, i \in Ids : Confirmed(sess[a][i]) =>
        PeerOf(a, i) \in trusted[a] \/ \E c \in Calls : Settling(c, a, i)

Smooth == NothingFailed => BothKnow /\ ConfirmedIsSettled

\* A step of a run in which nothing fails changes a pairing session only as
\* the pairing and its confirmations go on.
LEMMA SessionChange ==
    ASSUME IInv, [Next]_vars, NothingFailed, NothingFailed',
           NEW b \in Agents, NEW j \in Ids
    PROVE  /\ Knows(b, j) => Knows(b, j)'
           /\ sess'[b][j].local => sess[b][j].local \/ \E c \in Calls : ConfirmPairing(c, b, j)
           /\ sess'[b][j].remote =>
                 \/ sess[b][j].remote
                 \/ \E c \in Calls : /\ about[c] = j
                                     /\ \/ ServeConfirm(c) /\ b = Other(c) /\ Knows(b, j)
                                        \/ ConfirmReturns(c) /\ b = caller[c] /\ server[c] = "answered"
<1> DEFINE Goal ==
       /\ Knows(b, j) => Knows(b, j)'
       /\ sess'[b][j].local => sess[b][j].local \/ \E c \in Calls : ConfirmPairing(c, b, j)
       /\ sess'[b][j].remote =>
             \/ sess[b][j].remote
             \/ \E c \in Calls : /\ about[c] = j
                                 /\ \/ ServeConfirm(c) /\ b = Other(c) /\ Knows(b, j)
                                    \/ ConfirmReturns(c) /\ b = caller[c] /\ server[c] = "answered"
<1> SUFFICES Goal
  OBVIOUS
<1>0. sess \in [Agents -> [Ids -> Sessions]] /\ sess[b][j] \in Sessions
  BY DEF IInv, TypeOK
<1>1. UNCHANGED sess => Goal
  BY DEF Knows
<1>2. sess'[b][j] = NewSession => Goal
  BY DEF Knows, NewSession
<1>3. ASSUME NEW i \in Ids, StartStep(i) PROVE Goal
  <2>1. sess'[b][j] \in {sess[b][j], NewSession}
    BY <1>0, <1>3 DEF StartStep, AcceptIncomingPairing, StartReturns
  <2> QED
    BY <1>2, <2>1 DEF Knows
<1>4. ASSUME NEW c \in Calls, NEW a \in Agents, NEW i \in Ids, ConfirmPairing(c, a, i)
      PROVE  Goal
  <2>1. CASE a = b /\ i = j
    <3>1. sess'[b][j] = [sess[b][j] EXCEPT !.local = TRUE]
      BY <1>0, <1>4, <2>1 DEF ConfirmPairing
    <3> QED
      BY <1>0, <1>4, <2>1, <3>1 DEF Knows, Sessions
  <2>2. CASE ~(a = b /\ i = j)
    <3>1. sess'[b][j] = sess[b][j]
      BY <1>0, <1>4, <2>2 DEF ConfirmPairing
    <3> QED
      BY <3>1 DEF Knows
  <2> QED
    BY <2>1, <2>2
<1>5. ASSUME NEW c \in Calls, ServeConfirm(c) PROVE Goal
  <2>1. CASE Other(c) = b /\ about[c] = j /\ Knows(b, j)
    <3>0. sess' = [sess EXCEPT ![b][j].remote = TRUE]
      BY <1>5, <2>1 DEF ServeConfirm, Other, Knows
    <3>1. sess'[b][j] = [sess[b][j] EXCEPT !.remote = TRUE]
      BY <1>0, <3>0
    <3> QED
      BY <1>0, <1>5, <2>1, <3>1 DEF Knows, Sessions
  <2>2. CASE ~(Other(c) = b /\ about[c] = j /\ Knows(b, j))
    <3>1. sess'[b][j] = sess[b][j]
      BY <1>0, <1>5, <2>2 DEF ServeConfirm, Other, Knows
    <3> QED
      BY <3>1 DEF Knows
  <2> QED
    BY <2>1, <2>2
<1>6. ASSUME NEW c \in Calls, ConfirmReturns(c) PROVE Goal
  <2>1. CASE UNCHANGED sess
    BY <1>1, <2>1
  <2>2. CASE server[c] = "answered" /\ sess' = [sess EXCEPT ![caller[c]][about[c]].remote = TRUE]
    <3>1. CASE caller[c] = b /\ about[c] = j
      <4>1. sess'[b][j] = [sess[b][j] EXCEPT !.remote = TRUE]
        BY <1>0, <2>2, <3>1
      <4> QED
        BY <1>0, <1>6, <2>2, <3>1, <4>1 DEF Knows, Sessions
    <3>2. CASE ~(caller[c] = b /\ about[c] = j)
      <4>1. sess'[b][j] = sess[b][j]
        BY <1>0, <2>2, <3>2
      <4> QED
        BY <4>1 DEF Knows
    <3> QED
      BY <3>1, <3>2
  <2> QED
    BY <1>6, <2>1, <2>2 DEF ConfirmReturns
<1>7. ASSUME NEW a \in Agents, Restart(a) PROVE FALSE
  BY <1>7 DEF Restart, NothingFailed
<1>8. ASSUME NEW c \in Calls, ClientUpsert(c) \/ ServerUpsert(c) PROVE UNCHANGED sess
  BY <1>8 DEF ClientUpsert, ServerUpsert
<1>9. ASSUME NEW a \in Agents, NEW x \in Agents, NEW i \in Ids, StartPairing(a, x, i)
      PROVE  UNCHANGED sess
  BY <1>9 DEF StartPairing
<1>10. UNCHANGED vars => UNCHANGED sess
  BY DEF vars
<1> HIDE DEF Goal
<1> QED
  BY <1>1, <1>3, <1>4, <1>5, <1>6, <1>7, <1>8, <1>9, <1>10
  DEF Next, ClientStep, ServerStep

\* Such a step moves each call on by what its own handlers do.
LEMMA CallChange ==
    ASSUME IInv, [Next]_vars, NothingFailed, NothingFailed', NEW d \in Calls
    PROVE  /\ client[d] # "idle" => /\ caller'[d] = caller[d] /\ about'[d] = about[d]
                                    /\ client'[d] # "idle"
           /\ client'[d] # "idle" \/ server'[d] # "none" =>
                 \/ client[d] # "idle" \/ server[d] # "none"
                 \/ \E a \in Agents, i \in Ids : ConfirmPairing(d, a, i)
           /\ client[d] = "upsert" => client'[d] = "upsert" \/ ClientUpsert(d)
           /\ client[d] = "waiting" => client'[d] = "waiting" \/ ConfirmReturns(d)
           /\ server[d] = "upsert" /\ client[d] # "idle" =>
                 server'[d] = "upsert" \/ ServerUpsert(d)
           /\ server'[d] \in {"upsert", "answered"} =>
                 \/ server[d] \in {"upsert", "answered"}
                 \/ ServeConfirm(d) /\ Knows(Other(d), about[d])
           /\ server'[d] = "failed" =>
                 \/ server[d] = "failed"
                 \/ ServeConfirm(d) /\ ~Knows(Other(d), about[d])
<1> USE DEF NothingFailed, Knows, Other
<1>0. TypeOK
  BY DEF IInv
<1>1. CASE UNCHANGED calls
  BY <1>1
<1>2. ASSUME NEW c \in Calls, NEW a \in Agents, NEW i \in Ids, ConfirmPairing(c, a, i)
      PROVE  c = d \/ (caller'[d] = caller[d] /\ about'[d] = about[d]
                        /\ client'[d] = client[d] /\ server'[d] = server[d])
  BY <1>0, <1>2 DEF ConfirmPairing, TypeOK
<1>3. ASSUME NEW a \in Agents, NEW i \in Ids, ConfirmPairing(d, a, i)
      PROVE  client[d] = "idle" /\ client'[d] = "waiting" /\ server'[d] = "sent"
  BY <1>0, <1>3 DEF ConfirmPairing, TypeOK
<1>4. ASSUME NEW c \in Calls, ConfirmReturns(c)
      PROVE  /\ UNCHANGED <<caller, about, server>>
             /\ c = d \/ client'[d] = client[d]
             /\ client'[d] # "idle" <=> client[d] # "idle"
             /\ client[d] = "upsert" => client'[d] = "upsert"
  BY <1>0, <1>4 DEF ConfirmReturns, TypeOK
<1>5. ASSUME NEW c \in Calls, ClientUpsert(c)
      PROVE  /\ UNCHANGED <<caller, about, server>>
             /\ c = d \/ client'[d] = client[d]
             /\ client'[d] # "idle" <=> client[d] # "idle"
             /\ client[d] = "waiting" => client'[d] = "waiting"
  BY <1>0, <1>5 DEF ClientUpsert, TypeOK
<1>6. ASSUME NEW c \in Calls, ServeConfirm(c)
      PROVE  /\ UNCHANGED <<caller, about, client>>
             /\ c = d \/ server'[d] = server[d]
             /\ server'[d] # "none" <=> server[d] # "none"
             /\ server[d] = "upsert" => server'[d] = "upsert"
             /\ c = d => IF Knows(Other(d), about[d]) THEN server'[d] \in {"upsert", "answered"}
                                                      ELSE server'[d] = "failed"
  BY <1>0, <1>6 DEF ServeConfirm, TypeOK
<1>7. ASSUME NEW c \in Calls, ServerUpsert(c)
      PROVE  /\ UNCHANGED <<caller, about, client>>
             /\ c = d \/ server'[d] = server[d]
             /\ c = d => server[d] = "upsert" /\ server'[d] = "answered"
  BY <1>0, <1>7 DEF ServerUpsert, FailToTrust, TypeOK
<1>8. ASSUME NEW a \in Agents, Restart(a) PROVE FALSE
  BY <1>8 DEF Restart
<1>9. ASSUME NEW a \in Agents, NEW x \in Agents, NEW i \in Ids, StartPairing(a, x, i)
      PROVE  UNCHANGED calls
  BY <1>9 DEF StartPairing
<1>10. ASSUME NEW i \in Ids, StartStep(i) PROVE UNCHANGED calls
  BY <1>10 DEF StartStep, AcceptIncomingPairing, StartReturns
<1>11. CASE \E c \in Calls, a \in Agents, i \in Ids : ConfirmPairing(c, a, i)
  BY <1>2, <1>3, <1>11
<1>12. CASE \E c \in Calls : ClientStep(c)
  BY <1>4, <1>5, <1>12 DEF ClientStep
<1>13. CASE \E c \in Calls : ServerStep(c)
  BY <1>6, <1>7, <1>13 DEF ServerStep
<1>14. UNCHANGED vars => UNCHANGED calls
  BY DEF vars
<1> QED
  BY <1>1, <1>8, <1>9, <1>10, <1>11, <1>12, <1>13, <1>14 DEF Next

\* What an agent knows of a pairing it keeps knowing, and so BothKnow stays.
LEMMA BothKnowStep ==
    ASSUME IInv, BothKnow, [Next]_vars, NothingFailed, NothingFailed'
    PROVE  BothKnow'
<1>1. \A a \in Agents, i \in Ids : Knows(a, i) => Knows(a, i)'
  BY SessionChange
<1>2. ASSUME NEW c \in Calls, NEW a \in Agents, NEW i \in Ids, ConfirmPairing(c, a, i)
      PROVE  /\ caller'[c] = a /\ about'[c] = i /\ client'[c] # "idle"
             /\ server'[c] = "sent" /\ Knows(a, i)
  BY <1>2 DEF ConfirmPairing, IInv, TypeOK, Knows
<1>3. ASSUME NEW c \in Calls, client[c] # "idle"
      PROVE  /\ caller'[c] = caller[c] /\ about'[c] = about[c] /\ client'[c] # "idle"
             /\ caller[c] \in Agents /\ about[c] \in Ids /\ Other(c) \in Agents
             /\ PeerOf(caller[c], about[c])' = Other(c)
             /\ PeerOf(Other(c), about[c]) = caller[c]
  <2>1. /\ caller[c] \in Agents /\ about[c] \in Ids /\ Other(c) \in Agents \ {caller[c]}
        /\ caller[c] \in {initiator[about[c]], responder[about[c]]}
    BY <1>3, CallSides DEF Other
  <2>2. caller'[c] = caller[c] /\ about'[c] = about[c] /\ client'[c] # "idle"
    BY <1>3, CallChange
  <2>3. initiator'[about[c]] = initiator[about[c]] /\ responder'[about[c]] = responder[about[c]]
    BY <2>1, SidesStay
  <2>4. PeerOf(caller[c], about[c])' = Other(c)
    BY <2>2, <2>3, Zenon DEF PeerOf, Other
  <2>5. PeerOf(Other(c), about[c]) = caller[c]
    BY <2>1 DEF PeerOf, Other
  <2> QED
    BY <2>1, <2>2, <2>4, <2>5
<1>4. ASSUME NEW c \in Calls
      PROVE  /\ server'[c] # "none" => client'[c] # "idle"
             /\ client'[c] # "idle" => Knows(caller[c], about[c])'
             /\ server'[c] \in {"upsert", "answered"} => Knows(Other(c), about[c])'
  <2>1. CASE client[c] # "idle"
    <3>1. Knows(caller[c], about[c])
      BY <2>1 DEF BothKnow
    <3>2. Knows(caller[c], about[c])'
      BY <1>1, <1>3, <2>1, <3>1 DEF Knows
    <3>3. server'[c] \in {"upsert", "answered"} => Knows(Other(c), about[c])
      BY CallChange DEF BothKnow
    <3>4. server'[c] \in {"upsert", "answered"} => Knows(Other(c), about[c])'
      BY <1>1, <1>3, <2>1, <3>3 DEF Knows, Other
    <3> QED
      BY <1>3, <2>1, <3>2, <3>4
  <2>2. CASE client[c] = "idle"
    <3>1. server[c] = "none"
      BY <2>2 DEF BothKnow
    <3>2. CASE \E a \in Agents, i \in Ids : ConfirmPairing(c, a, i)
      <4>1. PICK a \in Agents, i \in Ids : ConfirmPairing(c, a, i)
        BY <3>2
      <4> QED
        BY <1>1, <1>2, <4>1 DEF Knows
    <3>3. CASE client'[c] = "idle" /\ server'[c] = "none"
      BY <3>3
    <3> QED
      BY <2>2, <3>1, <3>2, <3>3, CallChange
  <2> QED
    BY <2>1, <2>2
<1>5. ASSUME NEW a \in Agents, NEW i \in Ids, sess'[a][i].remote
      PROVE  Knows(a, i)' /\ Knows(PeerOf(a, i), i)'
  <2>1. Knows(a, i) /\ Knows(PeerOf(a, i), i)
    <3>1. CASE sess[a][i].remote
      BY <3>1 DEF BothKnow
    <3>2. ASSUME NEW c \in Calls, about[c] = i, ServeConfirm(c), a = Other(c), Knows(a, i)
          PROVE  Knows(a, i) /\ Knows(PeerOf(a, i), i)
      <4>1. client[c] # "idle"
        BY <3>2 DEF BothKnow, ServeConfirm
      <4> QED
        BY <1>3, <3>2, <4>1 DEF BothKnow
    <3>3. ASSUME NEW c \in Calls, about[c] = i, ConfirmReturns(c), a = caller[c],
                 server[c] = "answered"
          PROVE  Knows(a, i) /\ Knows(PeerOf(a, i), i)
      BY <3>3 DEF BothKnow, ConfirmReturns, Other
    <3> QED
      BY <1>5, <3>1, <3>2, <3>3, SessionChange
  <2>2. a \in {initiator[i], responder[i]}
    BY <2>1 DEF Knows, IInv, SessionsBelong
  <2>3. PeerOf(a, i) \in Agents /\ PeerOf(a, i)' = PeerOf(a, i)
    BY <2>2, OtherSide, SidesStay DEF IInv
  <2> QED
    BY <1>1, <2>1, <2>3 DEF Knows
<1> QED
  BY <1>4, <1>5 DEF BothKnow, Other

\* A trusted peer stays trusted.
LEMMA TrustStays ==
    ASSUME IInv, [Next]_vars, NEW a \in Agents
    PROVE  trusted[a] \subseteq trusted'[a]
<1>1. trusted \in [Agents -> SUBSET Agents]
  BY DEF IInv, TypeOK
<1>2. ASSUME NEW c \in Calls, ClientUpsert(c) \/ ServerUpsert(c)
      PROVE  trusted[a] \subseteq trusted'[a]
  BY <1>1, <1>2 DEF ClientUpsert, ServerUpsert, Trust, FailToTrust
<1> QED
  BY <1>2 DEF Next, StartStep, StartPairing, AcceptIncomingPairing, StartReturns,
     ConfirmPairing, ClientStep, ConfirmReturns, ServerStep, ServeConfirm, Restart, vars

\* What has failed once has failed for good.
LEMMA FailuresStay ==
    ASSUME IInv, [Next]_vars, NothingFailed'
    PROVE  NothingFailed
<1>1. lost \in Nat /\ storeFailures \in Nat /\ restarts \in Nat
  BY DEF IInv, TypeOK
<1>2. ASSUME NEW a \in Agents, NEW b \in Agents, NEW i \in Ids, StartPairing(a, b, i)
      PROVE  NothingFailed
  BY <1>2 DEF StartPairing, NothingFailed
<1>3. ASSUME NEW i \in Ids, StartStep(i)
      PROVE  NothingFailed
  <2>1. CASE AcceptIncomingPairing(i)
    BY <2>1 DEF AcceptIncomingPairing, NothingFailed
  <2>2. CASE StartReturns(i)
    BY <1>1, <2>2 DEF StartReturns, Lose, NothingFailed
  <2> QED
    BY <1>3, <2>1, <2>2 DEF StartStep
<1>4. ASSUME NEW c \in Calls, NEW a \in Agents, NEW i \in Ids, ConfirmPairing(c, a, i)
      PROVE  NothingFailed
  BY <1>1, <1>4 DEF ConfirmPairing, Lose, NothingFailed
<1>5. ASSUME NEW c \in Calls, ConfirmReturns(c)
      PROVE  NothingFailed
  BY <1>1, <1>5 DEF ConfirmReturns, Lose, NothingFailed
<1>6. ASSUME NEW c \in Calls, ClientUpsert(c)
      PROVE  NothingFailed
  BY <1>1, <1>6 DEF ClientUpsert, Trust, FailToTrust, NothingFailed
<1>7. ASSUME NEW c \in Calls, ServeConfirm(c)
      PROVE  NothingFailed
  BY <1>1, <1>7 DEF ServeConfirm, Lose, NothingFailed
<1>8. ASSUME NEW c \in Calls, ServerUpsert(c)
      PROVE  NothingFailed
  BY <1>1, <1>8 DEF ServerUpsert, Trust, FailToTrust, NothingFailed
<1>9. ASSUME NEW a \in Agents, Restart(a)
      PROVE  NothingFailed
  BY <1>1, <1>9 DEF Restart, NothingFailed
<1>10. CASE UNCHANGED vars
  BY <1>10 DEF vars, NothingFailed
<1> QED
  BY <1>2, <1>3, <1>4, <1>5, <1>6, <1>7, <1>8, <1>9, <1>10
  DEF Next, ClientStep, ServerStep


\* Who sees a pairing become confirmed goes on to store the peer, and does so
\* unless something fails.
LEMMA SettledStep ==
    ASSUME IInv, BothKnow, ConfirmedIsSettled, [Next]_vars,
           NothingFailed, NothingFailed', IInv', BothKnow'
    PROVE  ConfirmedIsSettled'
<1> SUFFICES ASSUME NEW a \in Agents, NEW i \in Ids, Confirmed(sess'[a][i])
             PROVE  PeerOf(a, i)' \in trusted'[a] \/ \E c \in Calls : Settling(c, a, i)'
  BY DEF ConfirmedIsSettled
<1>0. TypeOK /\ sess[a][i] \in Sessions /\ sess'[a][i] \in Sessions
  BY DEF IInv, TypeOK
\* The call that settles the pairing knows its sides.
<1>1. ASSUME NEW c \in Calls, client[c] # "idle", about[c] = i, Knows(a, i),
             a \in {caller[c], Other(c)}
      PROVE  /\ caller'[c] = caller[c] /\ about'[c] = i
             /\ caller[c] \in Agents /\ Other(c) \in Agents \ {caller[c]}
             /\ PeerOf(caller[c], i)' = Other(c) /\ PeerOf(a, i)' = PeerOf(a, i)
             /\ PeerOf(Other(c), i) = caller[c] /\ PeerOf(caller[c], i) = Other(c)
  <2>1. /\ caller[c] \in Agents /\ Other(c) \in Agents \ {caller[c]}
        /\ caller[c] \in {initiator[i], responder[i]}
    BY <1>1, CallSides DEF Other
  <2>2. caller'[c] = caller[c] /\ about'[c] = i
    BY <1>1, CallChange
  <2>3. initiator'[i] = initiator[i] /\ responder'[i] = responder[i]
    BY <2>1, SidesStay
  <2>4. PeerOf(caller[c], i)' = Other(c) /\ PeerOf(a, i)' = PeerOf(a, i)
    BY <1>1, <2>2, <2>3, Zenon DEF PeerOf, Other
  <2> QED
    BY <1>1, <2>1, <2>2, <2>4 DEF PeerOf, Other
<1>2. ASSUME NEW c \in Calls, about[c] = i, caller[c] = a, client[c] = "upsert",
             Knows(a, i)
      PROVE  PeerOf(a, i)' \in trusted'[a] \/ Settling(c, a, i)'
  <2>1. CASE client'[c] = "upsert"
    BY <1>1, <1>2, <2>1 DEF Settling
  <2>2. CASE ClientUpsert(c)
    <3>1. trusted' = [trusted EXCEPT ![a] = @ \cup {PeerOf(a, i)}]
      BY <1>2, <2>2 DEF ClientUpsert, Trust, FailToTrust, NothingFailed
    <3> QED
      BY <1>0, <1>1, <1>2, <3>1 DEF TypeOK
  <2> QED
    BY <1>2, <2>1, <2>2, CallChange
<1>3. ASSUME NEW c \in Calls, about[c] = i, Other(c) = a, client[c] # "idle",
             server[c] = "upsert", Knows(a, i)
      PROVE  PeerOf(a, i)' \in trusted'[a] \/ Settling(c, a, i)'
  <2>1. CASE server'[c] = "upsert"
    BY <1>1, <1>3, <2>1 DEF Settling
  <2>2. CASE ServerUpsert(c)
    <3>1. trusted' = [trusted EXCEPT ![a] = @ \cup {caller[c]}]
      BY <1>3, <2>2 DEF ServerUpsert, Trust, FailToTrust, NothingFailed, Other
    <3> QED
      BY <1>0, <1>1, <1>3, <3>1 DEF TypeOK
  <2> QED
    BY <1>3, <2>1, <2>2, CallChange
<1>4. ASSUME NEW c \in Calls, about[c] = i, caller[c] = a, client[c] = "waiting",
             server[c] # "failed", sess[a][i].local,
             server[c] = "sent" => Knows(Other(c), i)
      PROVE  Settling(c, a, i)'
  <2>1. Knows(a, i)
    BY <1>4 DEF IInv, SessionsBelong, Knows
  <2>2. CASE client'[c] = "waiting"
    <3>1. server'[c] # "failed"
      BY <1>4, CallChange DEF ServeConfirm
    <3> QED
      BY <1>1, <1>4, <2>1, <2>2, <3>1 DEF Settling
  <2>3. CASE ConfirmReturns(c)
    <3>1. client' = [client EXCEPT ![c] = "upsert"]
      BY <1>4, <2>3 DEF ConfirmReturns, Lose, NothingFailed
    <3> QED
      BY <1>0, <1>1, <1>4, <2>1, <3>1 DEF TypeOK, Settling
  <2> QED
    BY <1>4, <2>2, <2>3, CallChange
<1>5. CASE Confirmed(sess[a][i])
  <2>1. Knows(a, i) /\ Knows(PeerOf(a, i), i)
    BY <1>5 DEF BothKnow, Confirmed
  <2>2. CASE PeerOf(a, i) \in trusted[a]
    <3>1. a \in {initiator[i], responder[i]}
      BY <2>1 DEF Knows, IInv, SessionsBelong
    <3>2. PeerOf(a, i)' = PeerOf(a, i)
      BY <3>1, SidesStay
    <3> QED
      BY <2>2, <3>2, TrustStays
  <2>3. ASSUME NEW c \in Calls, Settling(c, a, i)
        PROVE  PeerOf(a, i)' \in trusted'[a] \/ Settling(c, a, i)'
    <3>1. client[c] # "idle"
      BY <2>3 DEF Settling, BothKnow
    <3>2. CASE caller[c] = a /\ client[c] = "upsert"
      BY <1>2, <2>1, <2>3, <3>2 DEF Settling
    <3>3. CASE caller[c] = a /\ client[c] = "waiting" /\ server[c] # "failed"
      BY <1>4, <1>5, <2>1, <2>3, <3>3 DEF Settling, Confirmed, Other
    <3>4. CASE server[c] = "upsert" /\ PeerOf(caller[c], i) = a
      BY <1>3, <2>1, <2>3, <3>1, <3>4 DEF Settling, Other
    <3> QED
      BY <2>3, <3>2, <3>3, <3>4 DEF Settling
  <2> QED
    BY <1>5, <2>2, <2>3 DEF ConfirmedIsSettled
<1>6. ASSUME NEW c \in Calls, ConfirmPairing(c, a, i) PROVE Settling(c, a, i)'
  BY <1>0, <1>6 DEF ConfirmPairing, TypeOK, Settling
<1>7. ASSUME NEW c \in Calls, about[c] = i, ServeConfirm(c), a = Other(c), Knows(a, i),
             sess[a][i].local
      PROVE  Settling(c, a, i)'
  <2>1. client[c] # "idle"
    BY <1>7 DEF ServeConfirm, BothKnow
  <2>2. server' = [server EXCEPT ![c] = "upsert"]
    BY <1>7 DEF ServeConfirm, Other, Knows
  <2> QED
    BY <1>0, <1>1, <1>7, <2>1, <2>2 DEF Settling, TypeOK
<1>8. ASSUME NEW c \in Calls, about[c] = i, ConfirmReturns(c), a = caller[c],
             server[c] = "answered", sess[a][i].local
      PROVE  Settling(c, a, i)'
  BY <1>4, <1>8 DEF ConfirmReturns
<1>9. CASE ~Confirmed(sess[a][i])
  <2>1. CASE ~sess[a][i].local
    BY <1>6, <2>1, SessionChange DEF Confirmed
  <2>2. CASE sess[a][i].local
    <3>1. ~sess[a][i].remote /\ sess'[a][i].remote
      BY <1>9, <2>2 DEF Confirmed
    <3> QED
      BY <1>7, <1>8, <2>2, <3>1, SessionChange
  <2> QED
    BY <2>1, <2>2
<1> QED
  BY <1>5, <1>9

\* Until something fails, Smooth is an invariant.
LEMMA SmoothHolds == Spec => []Smooth
<1>1. Init => Smooth
  BY DEF Init, Smooth, BothKnow, ConfirmedIsSettled, Confirmed, NoSession
<1>2. IInv /\ IInv' /\ Smooth /\ [Next]_vars => Smooth'
  <2> SUFFICES ASSUME IInv, IInv', Smooth, [Next]_vars, NothingFailed'
               PROVE  BothKnow' /\ ConfirmedIsSettled'
    BY DEF Smooth
  <2>1. NothingFailed
    BY FailuresStay
  <2> QED
    BY <2>1, BothKnowStep, SettledStep DEF Smooth
<1> QED
  BY Invariance, <1>1, <1>2, PTL DEF Spec

\* If nothing has failed, a confirmed pairing is being settled or has made its
\* peer a trusted one: UpsertTrustedPeer is never forgotten, in whichever order
\* the two confirmations cross.
THEOREM ConfirmedTrusted == Spec => []ConfirmedIsTrusted
<1>1. Smooth => ConfirmedIsTrusted
  BY DEF Smooth, ConfirmedIsSettled, ConfirmedIsTrusted, Settling, NoCallUnderWay
<1> QED
  BY SmoothHolds, <1>1, PTL

---------------------------------------------------------------------------
(* When both users have confirmed and nothing fails, both sides hear of it. *)

\* A pairing session is created once on each side, before anybody can mark it.
CreatedOnce ==
    \A i \in Ids : /\ starting[i] = "sent" => ~Knows(responder[i], i)
                   /\ awaited[i] => starting[i] # "unused" /\ ~Knows(initiator[i], i)

\* Who has approved has marked the session and made a call; who was asked, or
\* was answered, has marked the other's confirmation; and of two calls from
\* opposite sides one is served, since both callers know the pairing.
ConfirmationsHeard ==
    /\ \A a \in Agents, i \in Ids : <<a, i>> \in approved =>
          /\ sess[a][i].local
          /\ \E c \in Calls : client[c] # "idle" /\ caller[c] = a /\ about[c] = i
    /\ \A c \in Calls : server[c] \in {"upsert", "answered"} => sess[Other(c)][about[c]].remote
    /\ \A c \in Calls : client[c] \in {"upsert", "done"} =>
          /\ server[c] \in {"upsert", "answered", "failed"}
          /\ server[c] # "failed" => sess[caller[c]][about[c]].remote
    /\ \A c, d \in Calls :
          server[c] = "failed" /\ server[d] = "failed" /\ about[d] = about[c] => caller[d] # Other(c)

Heard == NothingFailed => CreatedOnce /\ ConfirmationsHeard

\* Marking a remote confirmation changes nothing else.
LEMMA RemoteMark ==
    ASSUME IInv, NEW c \in Calls, ServeConfirm(c) \/ ConfirmReturns(c),
           NEW b \in Agents, NEW j \in Ids
    PROVE  \/ sess'[b][j] = sess[b][j]
           \/ sess'[b][j] = [sess[b][j] EXCEPT !.remote = TRUE]
<1>0. sess \in [Agents -> [Ids -> Sessions]]
  BY DEF IInv, TypeOK
<1>1. ASSUME NEW x, NEW y, sess' = [sess EXCEPT ![x][y].remote = TRUE]
      PROVE  \/ sess'[b][j] = sess[b][j]
             \/ sess'[b][j] = [sess[b][j] EXCEPT !.remote = TRUE]
  BY <1>0, <1>1
<1>2. CASE ServeConfirm(c)
  <2>1. UNCHANGED sess \/ sess' = [sess EXCEPT ![Other(c)][about[c]].remote = TRUE]
    BY <1>2 DEF ServeConfirm, Other
  <2> QED
    BY <1>1, <2>1
<1>3. CASE ConfirmReturns(c)
  <2>1. UNCHANGED sess \/ sess' = [sess EXCEPT ![caller[c]][about[c]].remote = TRUE]
    BY <1>3 DEF ConfirmReturns
  <2> QED
    BY <1>1, <2>1
<1> QED
  BY <1>2, <1>3

\* A side comes to know a pairing by the pairing request or by its answer.
LEMMA KnownBy ==
    ASSUME IInv, [Next]_vars, NothingFailed, NothingFailed', NEW b \in Agents,
           NEW j \in Ids, Knows(b, j)', ~Knows(b, j)
    PROVE  \/ AcceptIncomingPairing(j) /\ b = responder[j]
           \/ StartReturns(j) /\ awaited[j] /\ b = initiator[j]
<1>0. sess \in [Agents -> [Ids -> Sessions]] /\ sess[b][j] \in Sessions
  BY DEF IInv, TypeOK
<1>1. UNCHANGED sess => FALSE
  BY DEF Knows
<1>2. ASSUME NEW i \in Ids, AcceptIncomingPairing(i) PROVE i = j /\ b = responder[j]
  BY <1>0, <1>2 DEF AcceptIncomingPairing, Knows
<1>3. ASSUME NEW i \in Ids, StartReturns(i) PROVE i = j /\ awaited[j] /\ b = initiator[j]
  BY <1>0, <1>3 DEF StartReturns, Knows
<1>4. ASSUME NEW c \in Calls, NEW a \in Agents, NEW i \in Ids, ConfirmPairing(c, a, i)
      PROVE  FALSE
  BY <1>0, <1>4 DEF ConfirmPairing, Knows, Sessions
<1>5. ASSUME NEW c \in Calls, ServeConfirm(c) PROVE FALSE
  <2>1. sess'[b][j] = sess[b][j] \/ sess'[b][j] = [sess[b][j] EXCEPT !.remote = TRUE]
    BY <1>5, RemoteMark
  <2> QED
    BY <1>0, <2>1 DEF Knows, Sessions
<1>6. ASSUME NEW c \in Calls, ConfirmReturns(c) PROVE FALSE
  <2>1. sess'[b][j] = sess[b][j] \/ sess'[b][j] = [sess[b][j] EXCEPT !.remote = TRUE]
    BY <1>6, RemoteMark
  <2> QED
    BY <1>0, <2>1 DEF Knows, Sessions
<1>7. ASSUME NEW a \in Agents, Restart(a) PROVE FALSE
  BY <1>7 DEF Restart, NothingFailed
<1>8. ASSUME NEW c \in Calls, ClientUpsert(c) \/ ServerUpsert(c) PROVE UNCHANGED sess
  BY <1>8 DEF ClientUpsert, ServerUpsert
<1>9. ASSUME NEW a \in Agents, NEW x \in Agents, NEW i \in Ids, StartPairing(a, x, i)
      PROVE  UNCHANGED sess
  BY <1>9 DEF StartPairing
<1>10. UNCHANGED vars => UNCHANGED sess
  BY DEF vars
<1> QED
  BY <1>1, <1>2, <1>3, <1>4, <1>5, <1>6, <1>7, <1>8, <1>9, <1>10
  DEF Next, StartStep, ClientStep, ServerStep

\* What a side has marked stays marked.
LEMMA MarksStay ==
    ASSUME IInv, BothKnow, CreatedOnce, [Next]_vars, NothingFailed, NothingFailed',
           NEW b \in Agents, NEW j \in Ids
    PROVE  /\ sess[b][j].local => sess'[b][j].local
           /\ sess[b][j].remote => sess'[b][j].remote
<1> DEFINE Goal == /\ sess[b][j].local => sess'[b][j].local
                   /\ sess[b][j].remote => sess'[b][j].remote
<1> SUFFICES Goal
  OBVIOUS
<1>0. sess \in [Agents -> [Ids -> Sessions]] /\ sess[b][j] \in Sessions
  BY DEF IInv, TypeOK
<1>1. UNCHANGED sess => Goal
  OBVIOUS
<1>2. ASSUME NEW i \in Ids, StartStep(i) PROVE Goal
  <2>1. sess'[b][j] = sess[b][j] \/ ~Knows(b, j)
    BY <1>0, <1>2 DEF StartStep, AcceptIncomingPairing, StartReturns, CreatedOnce
  <2>2. ~Knows(b, j) => ~sess[b][j].local /\ ~sess[b][j].remote
    BY DEF BothKnow, IInv, SessionsBelong, Knows
  <2> QED
    BY <2>1, <2>2
<1>3. ASSUME NEW c \in Calls, NEW a \in Agents, NEW i \in Ids, ConfirmPairing(c, a, i)
      PROVE  Goal
  <2>1. sess'[b][j] = sess[b][j] \/ sess'[b][j] = [sess[b][j] EXCEPT !.local = TRUE]
    BY <1>0, <1>3 DEF ConfirmPairing
  <2> QED
    BY <1>0, <2>1 DEF Sessions
<1>4. ASSUME NEW c \in Calls, ServeConfirm(c) \/ ConfirmReturns(c) PROVE Goal
  <2>1. sess'[b][j] = sess[b][j] \/ sess'[b][j] = [sess[b][j] EXCEPT !.remote = TRUE]
    BY <1>4, RemoteMark
  <2> QED
    BY <1>0, <2>1 DEF Sessions
<1>5. ASSUME NEW a \in Agents, Restart(a) PROVE FALSE
  BY <1>5 DEF Restart, NothingFailed
<1>6. ASSUME NEW c \in Calls, ClientUpsert(c) \/ ServerUpsert(c) PROVE UNCHANGED sess
  BY <1>6 DEF ClientUpsert, ServerUpsert
<1>7. ASSUME NEW a \in Agents, NEW x \in Agents, NEW i \in Ids, StartPairing(a, x, i)
      PROVE  UNCHANGED sess
  BY <1>7 DEF StartPairing
<1>8. UNCHANGED vars => UNCHANGED sess
  BY DEF vars
<1> HIDE DEF Goal
<1> QED
  BY <1>1, <1>2, <1>3, <1>4, <1>5, <1>6, <1>7, <1>8
  DEF Next, ClientStep, ServerStep

\* A pairing is started once, and its request is answered once.
LEMMA StartChange ==
    ASSUME IInv, [Next]_vars, NEW j \in Ids
    PROVE  /\ starting'[j] = "unused" => starting[j] = "unused"
           /\ starting'[j] = "sent" => starting[j] \in {"unused", "sent"}
           /\ awaited'[j] => \/ awaited[j]
                             \/ starting[j] = "unused" /\ starting'[j] = "sent"
<1> DEFINE Goal == /\ starting'[j] = "unused" => starting[j] = "unused"
                   /\ starting'[j] = "sent" => starting[j] \in {"unused", "sent"}
                   /\ awaited'[j] => \/ awaited[j]
                                     \/ starting[j] = "unused" /\ starting'[j] = "sent"
<1> SUFFICES Goal
  OBVIOUS
<1>0. TypeOK
  BY DEF IInv
<1>1. UNCHANGED <<starting, awaited>> => Goal
  OBVIOUS
<1>2. ASSUME NEW a \in Agents, NEW b \in Agents, NEW i \in Ids, StartPairing(a, b, i)
      PROVE  Goal
  BY <1>0, <1>2 DEF StartPairing, TypeOK
<1>3. ASSUME NEW i \in Ids, StartStep(i) PROVE Goal
  BY <1>0, <1>3 DEF StartStep, AcceptIncomingPairing, StartReturns, TypeOK
<1>4. ASSUME NEW c \in Calls, NEW a \in Agents, NEW i \in Ids, ConfirmPairing(c, a, i)
      PROVE  UNCHANGED <<starting, awaited>>
  BY <1>4 DEF ConfirmPairing
<1>5. ASSUME NEW c \in Calls, ClientStep(c) \/ ServerStep(c)
      PROVE  UNCHANGED <<starting, awaited>>
  BY <1>5 DEF ClientStep, ConfirmReturns, ClientUpsert, ServerStep, ServeConfirm, ServerUpsert
<1>6. ASSUME NEW a \in Agents, Restart(a) PROVE Goal
  BY <1>0, <1>6 DEF Restart, TypeOK
<1>7. UNCHANGED vars => UNCHANGED <<starting, awaited>>
  BY DEF vars
<1> HIDE DEF Goal
<1> QED
  BY <1>1, <1>2, <1>3, <1>4, <1>5, <1>6, <1>7 DEF Next

\* Each side records a pairing once.
LEMMA CreatedOnceStep ==
    ASSUME IInv, CreatedOnce, [Next]_vars, NothingFailed, NothingFailed', IInv'
    PROVE  CreatedOnce'
<1> SUFFICES ASSUME NEW j \in Ids
             PROVE  /\ starting'[j] = "sent" => ~Knows(responder[j], j)'
                    /\ awaited'[j] => starting'[j] # "unused" /\ ~Knows(initiator[j], j)'
  BY DEF CreatedOnce
<1>0. TypeOK /\ TwoSides /\ TwoSides'
  BY DEF IInv
<1>1. awaited'[j] => starting'[j] # "unused"
  BY StartChange DEF CreatedOnce
<1>2. starting'[j] # "unused" => initiator'[j] \in Agents /\ responder'[j] \in Agents
                                /\ initiator'[j] # responder'[j]
  BY <1>0 DEF TwoSides
<1>3. CASE starting[j] = "unused"
  <2>1. ASSUME NEW b \in Agents PROVE ~Knows(b, j)'
    <3>1. ~Knows(b, j)
      <4>1. initiator[j] = "none" /\ responder[j] = "none" /\ "none" \notin Agents
        BY <1>0, <1>3, PairingAssumption DEF TwoSides
      <4> QED
        BY <4>1 DEF IInv, SessionsBelong, Knows
    <3>2. ~awaited[j]
      BY <1>3 DEF CreatedOnce
    <3> QED
      BY <1>3, <3>1, <3>2, KnownBy DEF AcceptIncomingPairing
  <2> QED
    BY <1>1, <1>2, <2>1 DEF Knows
<1>4. CASE starting[j] # "unused"
  <2>1. /\ initiator[j] \in Agents /\ responder[j] \in Agents /\ initiator[j] # responder[j]
        /\ initiator'[j] = initiator[j] /\ responder'[j] = responder[j]
    BY <1>0, <1>4, SidesStep DEF TwoSides
  <2>2. ASSUME starting'[j] = "sent", Knows(responder[j], j)' PROVE FALSE
    <3>1. starting[j] = "sent" /\ ~sess[responder[j]][j].known
      BY <1>4, <2>2, StartChange DEF CreatedOnce, Knows
    <3>2. AcceptIncomingPairing(j)
      BY <2>1, <2>2, <3>1, KnownBy DEF Knows
    <3> QED
      BY <1>0, <2>2, <3>2 DEF AcceptIncomingPairing, TypeOK
  <2>3. ASSUME awaited'[j], Knows(initiator[j], j)' PROVE FALSE
    <3>1. awaited[j] /\ ~sess[initiator[j]][j].known
      BY <1>4, <2>3, StartChange DEF CreatedOnce, Knows
    <3>2. StartReturns(j)
      BY <2>1, <2>3, <3>1, KnownBy DEF Knows
    <3> QED
      BY <1>0, <2>3, <3>2 DEF StartReturns, TypeOK
  <2> QED
    BY <1>1, <2>1, <2>2, <2>3
<1> QED
  BY <1>3, <1>4

\* A call that was made keeps its sides and its pairing, and only its own
\* handlers move it on.
LEMMA CallMoves ==
    ASSUME IInv, [Next]_vars, NothingFailed, NothingFailed', NEW d \in Calls
    PROVE  /\ client[d] = "idle" => client'[d] \in {"idle", "waiting"}
           /\ client[d] # "idle" =>
                 /\ caller[d] \in Agents /\ Other(d) \in Agents /\ about[d] \in Ids
                 /\ PeerOf(Other(d), about[d]) = caller[d]
                 /\ caller'[d] = caller[d] /\ about'[d] = about[d] /\ Other(d)' = Other(d)
                 /\ client'[d] = client[d] \/ ConfirmReturns(d) \/ ClientUpsert(d)
                 /\ server'[d] = server[d] \/ ServeConfirm(d) \/ ServerUpsert(d)
<1>0. TypeOK
  BY DEF IInv
<1>1. ASSUME client[d] # "idle"
      PROVE  /\ caller[d] \in Agents /\ Other(d) \in Agents /\ about[d] \in Ids
             /\ PeerOf(Other(d), about[d]) = caller[d]
             /\ caller'[d] = caller[d] /\ about'[d] = about[d] /\ Other(d)' = Other(d)
  <2>1. /\ caller[d] \in Agents /\ Other(d) \in Agents /\ about[d] \in Ids
        /\ caller[d] \in {initiator[about[d]], responder[about[d]]}
        /\ Other(d) # caller[d]
    BY <1>1, CallSides DEF Other
  <2>2. caller'[d] = caller[d] /\ about'[d] = about[d]
    BY <1>1, CallChange
  <2>3. initiator'[about[d]] = initiator[about[d]] /\ responder'[about[d]] = responder[about[d]]
    BY <2>1, SidesStay
  <2>4. Other(d)' = Other(d)
    BY <2>2, <2>3 DEF Other, PeerOf
  <2> QED
    BY <2>1, <2>2, <2>4 DEF Other, PeerOf
<1> DEFINE Goal == /\ client[d] = "idle" => client'[d] \in {"idle", "waiting"}
                   /\ client[d] # "idle" =>
                         /\ client'[d] = client[d] \/ ConfirmReturns(d) \/ ClientUpsert(d)
                         /\ server'[d] = server[d] \/ ServeConfirm(d) \/ ServerUpsert(d)
<1>2. UNCHANGED calls => Goal
  OBVIOUS
<1>3. ASSUME NEW c \in Calls, NEW a \in Agents, NEW i \in Ids, ConfirmPairing(c, a, i)
      PROVE  Goal
  BY <1>0, <1>3 DEF ConfirmPairing, TypeOK
<1>4. ASSUME NEW c \in Calls, ClientStep(c) PROVE Goal
  <2>1. UNCHANGED server /\ (c = d \/ client'[d] = client[d]) /\ client[c] # "idle"
    BY <1>0, <1>4 DEF ClientStep, ConfirmReturns, ClientUpsert, TypeOK
  <2> QED
    BY <1>4, <2>1 DEF ClientStep
<1>5. ASSUME NEW c \in Calls, ServerStep(c) PROVE Goal
  <2>1. UNCHANGED client /\ (c = d \/ server'[d] = server[d])
    BY <1>0, <1>5 DEF ServerStep, ServeConfirm, ServerUpsert, TypeOK
  <2> QED
    BY <1>5, <2>1 DEF ServerStep
<1>6. ASSUME NEW a \in Agents, Restart(a) PROVE FALSE
  BY <1>6 DEF Restart, NothingFailed
<1>7. ASSUME NEW a \in Agents, NEW x \in Agents, NEW i \in Ids, StartPairing(a, x, i)
      PROVE  UNCHANGED calls
  BY <1>7 DEF StartPairing
<1>8. ASSUME NEW i \in Ids, StartStep(i) PROVE UNCHANGED calls
  BY <1>8 DEF StartStep, AcceptIncomingPairing, StartReturns
<1>9. UNCHANGED vars => UNCHANGED calls
  BY DEF vars
<1> HIDE DEF Goal
<1>10. Goal
  BY <1>2, <1>3, <1>4, <1>5, <1>6, <1>7, <1>8, <1>9 DEF Next
<1> QED
  BY <1>1, <1>10 DEF Goal

\* The parts of ConfirmationsHeard stay true, one after the other.  First, who
\* approved has marked the session and made a call.
LEMMA ApprovalsHeard ==
    ASSUME IInv, BothKnow, CreatedOnce, ConfirmationsHeard, [Next]_vars,
           NothingFailed, NothingFailed',
           NEW a \in Agents, NEW i \in Ids, <<a, i>> \in approved'
    PROVE  /\ sess'[a][i].local
           /\ \E c \in Calls : client'[c] # "idle" /\ caller'[c] = a /\ about'[c] = i
<1>0. TypeOK /\ sess[a][i] \in Sessions
  BY DEF IInv, TypeOK
<1>1. CASE <<a, i>> \in approved
  BY <1>1, MarksStay, CallChange DEF ConfirmationsHeard
<1>2. ASSUME NEW c \in Calls, ConfirmPairing(c, a, i)
      PROVE  /\ sess'[a][i].local
             /\ client'[c] # "idle" /\ caller'[c] = a /\ about'[c] = i
  BY <1>0, <1>2 DEF ConfirmPairing, TypeOK, Sessions
<1>3. <<a, i>> \in approved \/ \E c \in Calls : ConfirmPairing(c, a, i)
  <2>1. ASSUME NEW c \in Calls, NEW b \in Agents, NEW j \in Ids, ConfirmPairing(c, b, j)
        PROVE  <<a, i>> \in approved \/ ConfirmPairing(c, a, i)
    <3>1. <<a, i>> \in approved \/ <<a, i>> = <<b, j>>
      BY <2>1 DEF ConfirmPairing
    <3> QED
      BY <2>1, <3>1
  <2>2. ASSUME NEW x \in Agents, NEW b \in Agents, NEW j \in Ids, StartPairing(x, b, j)
        PROVE  UNCHANGED approved
    BY <2>2 DEF StartPairing
  <2>3. ASSUME NEW j \in Ids, StartStep(j) PROVE UNCHANGED approved
    BY <2>3 DEF StartStep, AcceptIncomingPairing, StartReturns
  <2>4. ASSUME NEW c \in Calls, ClientStep(c) \/ ServerStep(c) PROVE UNCHANGED approved
    BY <2>4 DEF ClientStep, ConfirmReturns, ClientUpsert, ServerStep, ServeConfirm, ServerUpsert
  <2>5. ASSUME NEW b \in Agents, Restart(b) PROVE UNCHANGED approved
    BY <2>5 DEF Restart
  <2>6. UNCHANGED vars => UNCHANGED approved
    BY DEF vars
  <2> QED
    BY <2>1, <2>2, <2>3, <2>4, <2>5, <2>6 DEF Next
<1> QED
  BY <1>1, <1>2, <1>3

\* Who was asked and did not refuse has marked the caller's confirmation.
LEMMA RequestsHeard ==
    ASSUME IInv, BothKnow, CreatedOnce, ConfirmationsHeard, [Next]_vars,
           NothingFailed, NothingFailed',
           NEW c \in Calls, server'[c] \in {"upsert", "answered"}
    PROVE  sess'[Other(c)'][about'[c]].remote
<1>0. TypeOK
  BY DEF IInv
<1>1. CASE server[c] \in {"upsert", "answered"}
  <2>1. client[c] # "idle" /\ sess[Other(c)][about[c]].remote
    BY <1>1 DEF BothKnow, ConfirmationsHeard
  <2> QED
    BY <2>1, CallMoves, MarksStay
<1>2. CASE ServeConfirm(c) /\ Knows(Other(c), about[c])
  <2>1. client[c] # "idle"
    BY <1>2 DEF BothKnow, ServeConfirm
  <2>2. sess' = [sess EXCEPT ![Other(c)][about[c]].remote = TRUE]
    BY <1>2 DEF ServeConfirm, Other, Knows
  <2>3. Other(c) \in Agents /\ about[c] \in Ids /\ sess[Other(c)][about[c]] \in Sessions
    BY <1>0, <2>1, CallMoves DEF TypeOK
  <2>4. sess'[Other(c)][about[c]].remote
    BY <1>0, <2>2, <2>3 DEF TypeOK, Sessions
  <2> QED
    BY <2>1, <2>4, CallMoves
<1> QED
  BY <1>1, <1>2, CallChange

\* A caller whose call has ended was answered or refused; answered, it has
\* marked the other's confirmation.
LEMMA AnswersHeard ==
    ASSUME IInv, BothKnow, CreatedOnce, ConfirmationsHeard, [Next]_vars,
           NothingFailed, NothingFailed',
           NEW c \in Calls, client'[c] \in {"upsert", "done"}
    PROVE  /\ server'[c] \in {"upsert", "answered", "failed"}
           /\ server'[c] # "failed" => sess'[caller'[c]][about'[c]].remote
<1>0. TypeOK /\ client[c] # "idle"
  BY CallMoves DEF IInv
<1>1. CASE client[c] \in {"upsert", "done"}
  <2>1. server[c] \in {"upsert", "answered", "failed"}
    BY <1>1 DEF ConfirmationsHeard
  <2>2. /\ server'[c] \in {"upsert", "answered", "failed"}
        /\ server[c] = "failed" => server'[c] = "failed"
    BY <1>0, <2>1, CallMoves DEF ServeConfirm, ServerUpsert, TypeOK
  <2> QED
    BY <1>0, <1>1, <2>2, CallMoves, MarksStay DEF ConfirmationsHeard
<1>2. CASE client[c] = "waiting" /\ ConfirmReturns(c)
  <2>0. caller[c] \in Agents /\ about[c] \in Ids /\ sess[caller[c]][about[c]] \in Sessions
    BY <1>0, CallMoves DEF TypeOK
  <2>1. server'[c] = server[c]
    BY <1>2 DEF ConfirmReturns
  <2>2. CASE server[c] = "answered" /\ sess' = [sess EXCEPT ![caller[c]][about[c]].remote = TRUE]
    <3>1. sess'[caller[c]][about[c]].remote
      BY <1>0, <2>0, <2>2 DEF TypeOK, Sessions
    <3> QED
      BY <1>0, <2>1, <2>2, <3>1, CallMoves
  <2>3. CASE server[c] = "failed"
    BY <2>1, <2>3
  <2> QED
    BY <1>2, <2>2, <2>3 DEF ConfirmReturns, Lose, NothingFailed, IInv, TypeOK
<1>3. client[c] \in {"upsert", "done"} \/ (client[c] = "waiting" /\ ConfirmReturns(c))
  BY <1>0, CallChange DEF TypeOK
<1> QED
  BY <1>1, <1>2, <1>3

\* Two calls from opposite sides are not both refused: a side is refused only
\* while the other does not know the pairing, which a caller does.
LEMMA OneIsServed ==
    ASSUME IInv, BothKnow, ConfirmationsHeard, [Next]_vars, NothingFailed, NothingFailed',
           NEW c \in Calls, NEW d \in Calls,
           server'[c] = "failed", server'[d] = "failed", about'[d] = about'[c]
    PROVE  caller'[d] # Other(c)'
<1>1. ASSUME NEW e \in Calls, server'[e] = "failed"
      PROVE  client[e] # "idle" /\ (server[e] = "failed" \/ ~Knows(Other(e), about[e]))
  BY <1>1, CallChange DEF BothKnow, ServeConfirm
<1>2. client[c] # "idle" /\ client[d] # "idle"
  BY <1>1
<1>3. Knows(caller[c], about[c]) /\ Knows(caller[d], about[d])
  BY <1>2 DEF BothKnow
<1>4. /\ caller'[d] = caller[d] /\ Other(c)' = Other(c) /\ about[d] = about[c]
      /\ PeerOf(Other(c), about[c]) = caller[c]
  BY <1>2, CallMoves
<1>5. CASE server[c] = "failed" /\ server[d] = "failed"
  BY <1>4, <1>5 DEF ConfirmationsHeard
<1>6. CASE ~Knows(Other(c), about[c])
  BY <1>3, <1>4, <1>6
<1>7. CASE ~Knows(Other(d), about[d])
  BY <1>3, <1>4, <1>7 DEF Other
<1> QED
  BY <1>1, <1>5, <1>6, <1>7

\* When no call is under way and nothing has failed, what both users have
\* confirmed both agents trust: of their two confirmations one was served, each
\* side then marked the other's, and a confirmed pairing is a trusted peer.
THEOREM SettledMutual == Spec => []SettledTrustIsMutual
<1>1. Init => Heard
  BY DEF Init, Heard, CreatedOnce, ConfirmationsHeard
<1>2. IInv /\ IInv' /\ Smooth /\ Heard /\ [Next]_vars => Heard'
  <2> SUFFICES ASSUME IInv, IInv', Smooth, Heard, [Next]_vars, NothingFailed'
               PROVE  CreatedOnce' /\ ConfirmationsHeard'
    BY DEF Heard
  <2>1. NothingFailed
    BY FailuresStay
  <2>2. BothKnow /\ CreatedOnce /\ ConfirmationsHeard
    BY <2>1 DEF Smooth, Heard
  <2>3. CreatedOnce'
    BY <2>1, <2>2, CreatedOnceStep
  <2> QED
    BY <2>1, <2>2, <2>3, ApprovalsHeard, RequestsHeard, AnswersHeard, OneIsServed
    DEF ConfirmationsHeard
<1>3. IInv /\ Smooth /\ Heard => SettledTrustIsMutual
  <2> SUFFICES ASSUME IInv, Smooth, Heard, NothingFailed, NoCallUnderWay,
                      NEW i \in Ids, BothApproved(i)
               PROVE  MutualTrust(i)
    BY DEF SettledTrustIsMutual
  <2> DEFINE x == initiator[i]
             y == responder[i]
  <2>0. BothKnow /\ CreatedOnce /\ ConfirmationsHeard /\ ConfirmedIsSettled
    BY DEF Smooth, Heard
  <2>1. x \in Agents /\ y \in Agents /\ x # y /\ starting[i] # "unused"
    BY PairingAssumption DEF IInv, TypeOK, TwoSides, BothApproved
  <2>2. PeerOf(x, i) = y /\ PeerOf(y, i) = x
    BY <2>1 DEF PeerOf
  <2>3. sess[x][i].local /\ sess[y][i].local
    BY <2>0, <2>1 DEF BothApproved, ConfirmationsHeard
  <2>4. PICK c \in Calls : client[c] # "idle" /\ caller[c] = x /\ about[c] = i
    BY <2>0, <2>1 DEF BothApproved, ConfirmationsHeard
  <2>5. PICK d \in Calls : client[d] # "idle" /\ caller[d] = y /\ about[d] = i
    BY <2>0, <2>1 DEF BothApproved, ConfirmationsHeard
  <2>6. client[c] = "done" /\ client[d] = "done"
    BY <2>4, <2>5 DEF NoCallUnderWay
  <2>7. server[c] \in {"answered", "failed"} /\ server[d] \in {"answered", "failed"}
    BY <2>0, <2>6 DEF ConfirmationsHeard, NoCallUnderWay
  <2>8. Other(c) = y /\ Other(d) = x
    BY <2>2, <2>4, <2>5 DEF Other
  <2>9. sess[x][i].remote /\ sess[y][i].remote
    <3>1. CASE server[c] = "answered"
      BY <2>0, <2>4, <2>6, <2>8, <3>1 DEF ConfirmationsHeard
    <3>2. CASE server[d] = "answered"
      BY <2>0, <2>5, <2>6, <2>8, <3>2 DEF ConfirmationsHeard
    <3>3. ~(server[c] = "failed" /\ server[d] = "failed")
      BY <2>0, <2>4, <2>5, <2>8 DEF ConfirmationsHeard
    <3> QED
      BY <2>7, <3>1, <3>2, <3>3
  <2>10. ConfirmedIsTrusted
    BY <2>0 DEF ConfirmedIsSettled, ConfirmedIsTrusted, Settling, NoCallUnderWay
  <2> QED
    BY <2>1, <2>2, <2>3, <2>9, <2>10 DEF ConfirmedIsTrusted, Confirmed, MutualTrust
<1> QED
  BY Invariance, SmoothHolds, <1>1, <1>2, <1>3, PTL DEF Spec

=============================================================================
