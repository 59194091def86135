------------------------- MODULE ReachabilityProofs -------------------------
(* For any peers, addresses, calls and thresholds: the types of            *)
(* Reachability, and that suppression is neither unearned, nor forgotten,  *)
(* nor contradicted by what is shown.                                      *)
EXTENDS Reachability, TLAPS

\* Whoever may suppress a peer has found it in the registry, from which no
\* peer ever disappears: MarkReachable(p, false) does not miss its record.
SuppressorsKnowThePeer ==
    /\ todo \subseteq known
    /\ hb \in {"probing", "suppress", "mark"} => probed \in known
    /\ \A t \in Threads : pc[t] = "calling" => peer[t] \in known

\* The counter never runs ahead of the row of failed probes, and the
\* heartbeat suppresses only at the end of such a row and has reset the
\* counter before it records an answer.
CountIsBacked ==
    /\ \A p \in Peers : failures[p] <= misses[p]
    /\ hb = "suppress" => misses[probed] >= Threshold
    /\ hb = "mark" => failures[probed] = 0

\* A suppressed peer has lost the record of its last direct activity.
SuppressedIsNotDirect == suppressed \cap direct = {}

Rest ==
    /\ SuppressorsKnowThePeer
    /\ CountIsBacked
    /\ SuppressedIsNotDirect
    /\ SuppressedIsEarned
    /\ FailingPeerIsSuppressed

\* The inductive invariant: the three safety properties with what keeps them.
IInv == TypeOK /\ Rest

USE ReachabilityAssumption

---------------------------------------------------------------------------
\* Saturated counting keeps its range and its order, and passes Threshold
\* as counting without a limit would.
LEMMA Counting ==
    ASSUME NEW m \in 0 .. Threshold + 1, NEW n \in 0 .. Threshold + 1, m <= n
    PROVE  /\ Count(n) \in 0 .. Threshold + 1
           /\ Count(m) <= Count(n) /\ n <= Count(n)
  BY DEF Count

\* Nothing has been counted or suppressed when the agent starts.
LEMMA InitIInv == Init => IInv
  BY DEF Init, IInv, Rest, TypeOK, HeartTypeOK, ThreadTypeOK, SuppressorsKnowThePeer,
         CountIsBacked, SuppressedIsNotDirect, SuppressedIsEarned,
         FailingPeerIsSuppressed, Threads

\* Every step keeps the types.
LEMMA TypeStep == IInv /\ [Next]_vars => TypeOK'
  <1> SUFFICES ASSUME IInv, [Next]_vars PROVE TypeOK'
    OBVIOUS
  <1> USE DEF IInv, TypeOK, HeartTypeOK, ThreadTypeOK, Threads
  <1>1. ASSUME NEW p \in Peers, OnAnnouncement(p) PROVE TypeOK'
    BY <1>1 DEF OnAnnouncement, world, registry, heart, threads, history
  <1>2. ASSUME NEW p \in Peers, BroadcastExpires(p) PROVE TypeOK'
    BY <1>2 DEF BroadcastExpires, world, registry, heart, threads, history
  <1>3. ASSUME NEW p \in Peers, DirectExpires(p) PROVE TypeOK'
    BY <1>3 DEF DirectExpires, world, registry, heart, threads, history
  <1>4. ASSUME NEW p \in Peers, NEW a \in Addrs \cup {NoAddr}, Move(p, a) PROVE TypeOK'
    BY <1>4 DEF Move, world, registry, heart, threads, history
  <1>5. ASSUME NEW p \in Peers, BecomeTrusted(p) PROVE TypeOK'
    BY <1>5 DEF BecomeTrusted, world, registry, heart, threads, history
  <1>6. ASSUME NEW c \in Clients, NEW p \in Peers, Call(c, p) PROVE TypeOK'
    BY <1>6 DEF Call, Enter, world, registry, heart, threads, history
  <1>7. ASSUME NEW i \in Contacts, NEW p \in Peers, Contact(i, p) PROVE TypeOK'
    BY <1>7 DEF Contact, Enter, world, registry, heart, threads, history
  <1>8. CASE StartSweep
    BY <1>8 DEF StartSweep, ToProbe, world, registry, heart, threads, history
  <1>9. ASSUME NEW p \in Peers, SendHeartbeat(p) PROVE TypeOK'
    BY <1>9 DEF SendHeartbeat, world, registry, heart, threads, history
  <1>10. CASE ProbeFails
    BY <1>10, Counting DEF ProbeFails, world, registry, heart, threads, history
  <1>11. CASE Suppress
    BY <1>11 DEF Suppress, MarkUnreachable, world, registry, heart, threads, history
  <1>12. CASE ProbeAnswered
    BY <1>12 DEF ProbeAnswered, world, registry, heart, threads, history
  <1>13. CASE MarkProbed
    BY <1>13 DEF MarkProbed, MarkDirectActive, world, registry, heart, threads, history
  <1>14. CASE EndSweep
    BY <1>14 DEF EndSweep, world, registry, heart, threads, history
  <1>15. ASSUME NEW c \in Clients, CallFails(c) PROVE TypeOK'
    BY <1>15 DEF CallFails, MarkUnreachable, Leave, world, registry, heart,
       threads, history
  <1>16. ASSUME NEW c \in Clients, CallSucceeds(c) PROVE TypeOK'
    BY <1>16 DEF CallSucceeds, world, registry, heart, threads, history
  <1>17. ASSUME NEW c \in Clients, ResetFailures(c) PROVE TypeOK'
    BY <1>17 DEF ResetFailures, world, registry, heart, threads, history
  <1>18. ASSUME NEW c \in Clients, MarkCalled(c) PROVE TypeOK'
    BY <1>18 DEF MarkCalled, MarkDirectActive, Leave, world, registry, heart,
       threads, history
  <1>19. ASSUME NEW i \in Contacts, MarkContact(i) PROVE TypeOK'
    BY <1>19 DEF MarkContact, MarkDirectActive, Leave, world, registry, heart,
       threads, history
  <1>20. CASE UNCHANGED vars
    BY <1>20 DEF vars, world, registry, heart, threads, history
  <1> QED
    BY <1>1, <1>2, <1>3, <1>4, <1>5, <1>6, <1>7, <1>8, <1>9, <1>10, <1>11, <1>12,
       <1>13, <1>14, <1>15, <1>16, <1>17, <1>18, <1>19, <1>20
      DEF Next, ProbeStep, ClientStep

\* Every step keeps the other parts.
LEMMA RestStep == IInv /\ [Next]_vars => Rest'
  <1> SUFFICES ASSUME IInv, [Next]_vars PROVE Rest'
    OBVIOUS
  <1> USE DEF IInv, TypeOK, HeartTypeOK, ThreadTypeOK, Rest,
     SuppressorsKnowThePeer, CountIsBacked, SuppressedIsNotDirect,
     SuppressedIsEarned, FailingPeerIsSuppressed, Threads
  <1>1. ASSUME NEW p \in Peers, OnAnnouncement(p) PROVE Rest'
    BY <1>1 DEF OnAnnouncement, world, registry, heart, threads, history
  <1>2. ASSUME NEW p \in Peers, BroadcastExpires(p) PROVE Rest'
    BY <1>2 DEF BroadcastExpires, world, registry, heart, threads, history
  <1>3. ASSUME NEW p \in Peers, DirectExpires(p) PROVE Rest'
    BY <1>3 DEF DirectExpires, world, registry, heart, threads, history
  <1>4. ASSUME NEW p \in Peers, NEW a \in Addrs \cup {NoAddr}, Move(p, a) PROVE Rest'
    BY <1>4 DEF Move, world, registry, heart, threads, history
  <1>5. ASSUME NEW p \in Peers, BecomeTrusted(p) PROVE Rest'
    BY <1>5 DEF BecomeTrusted, world, registry, heart, threads, history
  <1>6. ASSUME NEW c \in Clients, NEW p \in Peers, Call(c, p) PROVE Rest'
    BY <1>6 DEF Call, Enter, world, registry, heart, threads, history
  <1>7. ASSUME NEW i \in Contacts, NEW p \in Peers, Contact(i, p) PROVE Rest'
    BY <1>7 DEF Contact, Enter, world, registry, heart, threads, history
  <1>8. CASE StartSweep
    BY <1>8 DEF StartSweep, ToProbe, world, registry, heart, threads, history
  <1>9. ASSUME NEW p \in Peers, SendHeartbeat(p) PROVE Rest'
    BY <1>9 DEF SendHeartbeat, world, registry, heart, threads, history
  <1>10. CASE ProbeFails
    <2> SUFFICES ASSUME ProbeFails PROVE Rest'
      BY <1>10
    <2>1. probed \in Peers /\ hb = "probing"
      BY DEF ProbeFails
    <2>2. /\ failures' = [failures EXCEPT ![probed] = Count(failures[probed])]
          /\ misses' = [misses EXCEPT ![probed] = Count(misses[probed])]
      BY DEF ProbeFails
    <2>3. \A p \in Peers : /\ failures'[p] \in 0 .. Threshold + 1
                           /\ misses'[p] \in 0 .. Threshold + 1
                           /\ failures'[p] <= misses'[p] /\ misses[p] <= misses'[p]
      BY <2>1, <2>2, Counting
    <2>4. UNCHANGED <<todo, known, suppressed, direct, probed, pc, peer>>
      BY DEF ProbeFails, registry, threads
    <2>5. SuppressorsKnowThePeer' /\ SuppressedIsNotDirect'
      BY <2>1, <2>4 DEF ProbeFails
    <2>6. CountIsBacked'
      BY <2>1, <2>3, <2>4 DEF ProbeFails
    <2>7. SuppressedIsEarned'
      BY <2>1, <2>3, <2>4 DEF ProbeFails
    <2>8. FailingPeerIsSuppressed'
      BY <2>1, <2>2, <2>3, <2>4 DEF ProbeFails
    <2> QED
      BY <2>5, <2>6, <2>7, <2>8
  <1>11. CASE Suppress
    BY <1>11 DEF Suppress, MarkUnreachable, world, registry, heart, threads, history
  <1>12. CASE ProbeAnswered
    BY <1>12 DEF ProbeAnswered, world, registry, heart, threads, history
  <1>13. CASE MarkProbed
    <2> SUFFICES ASSUME MarkProbed PROVE Rest'
      BY <1>13
    <2>1. probed \in Peers /\ hb = "mark" /\ hb' = "sweep"
      BY DEF MarkProbed
    <2>2. /\ misses' = [misses EXCEPT ![probed] = 0]
          /\ evidence' = [evidence EXCEPT ![probed] = "active"]
          /\ suppressed' = suppressed \ {probed} /\ direct' = direct \cup {probed}
          /\ known' = known \cup {probed}
      BY DEF MarkProbed, MarkDirectActive
    <2>3. UNCHANGED <<todo, probed, failures, pc, peer>>
      BY DEF MarkProbed, threads
    <2>4. SuppressorsKnowThePeer' /\ SuppressedIsNotDirect'
      BY <2>1, <2>2, <2>3
    <2>5. CountIsBacked'
      BY <2>1, <2>2, <2>3
    <2>6. SuppressedIsEarned'
      BY <2>1, <2>2, <2>3
    <2>7. FailingPeerIsSuppressed'
      BY <2>1, <2>2, <2>3
    <2> QED
      BY <2>4, <2>5, <2>6, <2>7
  <1>14. CASE EndSweep
    BY <1>14 DEF EndSweep, world, registry, heart, threads, history
  <1>15. ASSUME NEW c \in Clients, CallFails(c) PROVE Rest'
    BY <1>15 DEF CallFails, MarkUnreachable, Leave, world, registry, heart,
       threads, history
  <1>16. ASSUME NEW c \in Clients, CallSucceeds(c) PROVE Rest'
    BY <1>16 DEF CallSucceeds, world, registry, heart, threads, history
  <1>17. ASSUME NEW c \in Clients, ResetFailures(c) PROVE Rest'
    BY <1>17 DEF ResetFailures, world, registry, heart, threads, history
  <1>18. ASSUME NEW c \in Clients, MarkCalled(c) PROVE Rest'
    BY <1>18 DEF MarkCalled, MarkDirectActive, Leave, world, registry, heart,
       threads, history
  <1>19. ASSUME NEW i \in Contacts, MarkContact(i) PROVE Rest'
    BY <1>19 DEF MarkContact, MarkDirectActive, Leave, world, registry, heart,
       threads, history
  <1>20. CASE UNCHANGED vars
    BY <1>20 DEF vars, world, registry, heart, threads, history
  <1> QED
    BY <1>1, <1>2, <1>3, <1>4, <1>5, <1>6, <1>7, <1>8, <1>9, <1>10, <1>11, <1>12,
       <1>13, <1>14, <1>15, <1>16, <1>17, <1>18, <1>19, <1>20
      DEF Next, ProbeStep, ClientStep

\* The invariant holds in every reachable state.
LEMMA Invariance == Spec => []IInv
  <1>1. Init => IInv
    BY InitIInv
  <1>2. IInv /\ [Next]_vars => IInv'
    BY TypeStep, RestStep DEF IInv
  <1> QED
    BY <1>1, <1>2, PTL DEF Spec

\* The variables of the registry and the heartbeat keep their types.
THEOREM TypeCorrect == Spec => []TypeOK
  <1>1. IInv => TypeOK
    BY DEF IInv
  <1> QED
    BY <1>1, Invariance, PTL

\* A suppressed peer is shown as unreachable: MarkReachable(p, false) also
\* forgets the last direct activity, so no fresh time stamp outlives it.
THEOREM SuppressionShows == Spec => []SuppressedIsUnreachable
  <1>1. IInv => SuppressedIsUnreachable
    BY DEF IInv, Rest, SuppressedIsNotDirect, SuppressedIsUnreachable, Reachable
  <1> QED
    BY <1>1, Invariance, PTL

\* A peer is suppressed only for a failed call or Threshold failed probes
\* in a row.
THEOREM SuppressionEarned == Spec => []SuppressedIsEarned
  <1>1. IInv => SuppressedIsEarned
    BY DEF IInv, Rest
  <1> QED
    BY <1>1, Invariance, PTL

\* A peer whose counter has reached the threshold is suppressed, unless it
\* is being suppressed or has been active since.
THEOREM SuppressionFollows == Spec => []FailingPeerIsSuppressed
  <1>1. IInv => FailingPeerIsSuppressed
    BY DEF IInv, Rest
  <1> QED
    BY <1>1, Invariance, PTL
=============================================================================
