---------------------------- MODULE Reachability ----------------------------
(***************************************************************************)
(* How one agent decides which peers it can reach: the discovery registry, *)
(* the announcements peers broadcast, the heartbeat that probes trusted    *)
(* peers, the calls its user makes and the requests peers send to it.      *)
(*                                                                         *)
(* Time stamps are kept as what they are compared for: whether the last    *)
(* announcement is younger than peerTTL and the last direct activity       *)
(* younger than directReachabilityTTL.  Each of them may expire at any     *)
(* time.  Each step is one lock region of the registry or of the failure   *)
(* counters.                                                               *)
(***************************************************************************)
EXTENDS Integers

CONSTANTS
    Peers,
    Addrs,      \* addresses a peer's agent may listen on
    Clients,    \* goroutines that serve a user's call to a peer
    Contacts,   \* goroutines that serve a peer's request
    Threshold,  \* heartbeatFailureThreshold
    NoAddr,     \* the empty address, and no peer listening
    NoPeer

ASSUME ReachabilityAssumption ==
    /\ NoAddr \notin Addrs /\ NoPeer \notin Peers
    /\ Threshold \in Nat \ {0}

VARIABLES
    home,       \* where each peer's agent listens now, or NoAddr
    trusted,    \* trusted peers in the database
    addr,       \* LastKnownAddr
    known,      \* the registry has a record of the peer
    online,     \* LastSeenAt is fresh
    direct,     \* LastDirectActiveAt is fresh
    suppressed, \* ReachabilitySuppressed
    failures,   \* heartbeatFailures; every number above Threshold is Threshold + 1
    todo,       \* trusted peers this sweep has still to probe
    listed,     \* the addresses this sweep read at its start
    hb,         \* heartbeat: "idle", "sweep", "probing", "suppress", "mark"
    probed,     \* the peer the heartbeat is at
    pc,         \* per client: "idle", "calling", "reset", "mark"; per contact: "idle", "mark"
    peer,       \* per client or contact: the other side
    at,         \* per client or contact: its address when it started
    misses,     \* history: failed probes since the last answer was recorded
    evidence    \* history: what was last seen of the peer

world    == <<home, trusted>>
registry == <<addr, known, online, direct, suppressed>>
heart    == <<todo, listed, hb, probed>>
threads  == <<pc, peer, at>>
history  == <<misses, evidence>>
vars == <<world, registry, failures, heart, threads, history>>

Threads == Clients \cup Contacts

Init ==
    /\ home \in [Peers -> Addrs \cup {NoAddr}]
    /\ trusted \in SUBSET Peers
    /\ addr = [p \in Peers |-> NoAddr] /\ known = {}
    /\ online = {} /\ direct = {} /\ suppressed = {}
    /\ failures = [p \in Peers |-> 0]
    /\ todo = {} /\ listed = addr /\ hb = "idle" /\ probed = NoPeer
    /\ pc = [t \in Threads |-> "idle"]
    /\ peer = [t \in Threads |-> NoPeer] /\ at = [t \in Threads |-> NoAddr]
    /\ misses = [p \in Peers |-> 0]
    /\ evidence = [p \in Peers |-> "none"]

---------------------------------------------------------------------------
(* The registry.                                                           *)

\* projectPeerRecord
Reachable(p) ==
    /\ addr[p] # NoAddr
    /\ p \in direct \/ (p \in online /\ p \notin suppressed)

\* Registry.MarkDirectActive; without an address it keeps the one it has.
MarkDirectActive(p, a) ==
    /\ known' = known \cup {p}
    /\ addr' = [addr EXCEPT ![p] = IF a = NoAddr THEN @ ELSE a]
    /\ direct' = direct \cup {p}
    /\ suppressed' = suppressed \ {p}
    /\ evidence' = [evidence EXCEPT ![p] = "active"]
    /\ UNCHANGED online

\* Mutant: the time of the last direct activity is kept.
MarkUnreachableKeepingDirect(p) ==
    /\ suppressed' = suppressed \cup ({p} \cap known)
    /\ UNCHANGED <<addr, known, online, direct>>

\* Registry.MarkReachable(p, false)
MarkUnreachable(p) ==
    /\ suppressed' = suppressed \cup ({p} \cap known)
    /\ direct' = direct \ {p}
    /\ UNCHANGED <<addr, known, online>>

\* Registry.Upsert, for a datagram of a peer that is there.
OnAnnouncement(p) ==
    /\ home[p] # NoAddr
    /\ known' = known \cup {p}
    /\ addr' = [addr EXCEPT ![p] = home[p]]
    /\ online' = online \cup {p}
    /\ UNCHANGED <<world, direct, suppressed, failures, heart, threads, history>>

BroadcastExpires(p) ==
    /\ p \in online /\ online' = online \ {p}
    /\ UNCHANGED <<world, addr, known, direct, suppressed, failures, heart, threads,
                   history>>

DirectExpires(p) ==
    /\ p \in direct /\ direct' = direct \ {p}
    /\ UNCHANGED <<world, addr, known, online, suppressed, failures, heart, threads,
                   history>>

---------------------------------------------------------------------------
(* runHeartbeatSweep, one sweep after the other.                           *)

\* Mutant: only peers that look reachable are probed.
ToProbeReachable == {p \in trusted \cap known : Reachable(p)}

\* Trusted peers whose address is known, reachable or not.
ToProbe == {p \in trusted \cap known : addr[p] # NoAddr}

StartSweep ==
    /\ hb = "idle"
    /\ todo' = ToProbe /\ listed' = addr
    /\ hb' = "sweep"
    /\ UNCHANGED <<world, registry, failures, probed, threads, history>>

SendHeartbeat(p) ==
    /\ hb = "sweep" /\ p \in todo
    /\ todo' = todo \ {p} /\ probed' = p
    /\ hb' = "probing"
    /\ UNCHANGED <<world, registry, failures, listed, threads, history>>

Count(n) == IF n > Threshold THEN n ELSE n + 1

\* Mutant: the peer is suppressed only when the count meets the threshold.
ProbeFailsExactly ==
    /\ hb = "probing"
    /\ failures' = [failures EXCEPT ![probed] = Count(@)]
    /\ hb' = IF failures'[probed] = Threshold THEN "suppress" ELSE "sweep"
    /\ misses' = [misses EXCEPT ![probed] = Count(@)]
    /\ evidence' = [evidence EXCEPT ![probed] = IF @ = "call" THEN @ ELSE "probe"]
    /\ UNCHANGED <<world, registry, todo, listed, probed, threads>>

\* recordHeartbeatFailure; a probe may fail whether or not the peer is there.
ProbeFails ==
    /\ hb = "probing"
    /\ failures' = [failures EXCEPT ![probed] = Count(@)]
    /\ hb' = IF failures'[probed] >= Threshold THEN "suppress" ELSE "sweep"
    /\ misses' = [misses EXCEPT ![probed] = Count(@)]
    /\ evidence' = [evidence EXCEPT ![probed] = IF @ = "call" THEN @ ELSE "probe"]
    /\ UNCHANGED <<world, registry, todo, listed, probed, threads>>

Suppress ==
    /\ hb = "suppress"
    /\ MarkUnreachable(probed)
    /\ hb' = "sweep"
    /\ UNCHANGED <<world, failures, todo, listed, probed, threads, history>>

\* Mutant: an answer does not end the row of failures.
ProbeAnsweredUncleared ==
    /\ hb = "probing" /\ home[probed] = listed[probed]
    /\ hb' = "mark"
    /\ UNCHANGED <<world, registry, failures, todo, listed, probed, threads, history>>

\* The answer resets the counter; the second reset, of markPeerDirectActiveAt,
\* finds nothing, for only this goroutine counts.
ProbeAnswered ==
    /\ hb = "probing" /\ home[probed] = listed[probed]
    /\ failures' = [failures EXCEPT ![probed] = 0]
    /\ hb' = "mark"
    /\ UNCHANGED <<world, registry, todo, listed, probed, threads, history>>

\* markPeerDirectActiveAt, with the address the sweep started from.
MarkProbed ==
    /\ hb = "mark"
    /\ MarkDirectActive(probed, listed[probed])
    /\ misses' = [misses EXCEPT ![probed] = 0]
    /\ hb' = "sweep"
    /\ UNCHANGED <<world, failures, todo, listed, probed, threads>>

EndSweep ==
    /\ hb = "sweep" /\ todo = {}
    /\ hb' = "idle" /\ probed' = NoPeer
    /\ listed' = [p \in Peers |-> NoAddr]
    /\ UNCHANGED <<world, registry, failures, todo, threads, history>>

---------------------------------------------------------------------------
(* Calls and requests.                                                     *)

Enter(t, p, a, where) ==
    /\ pc[t] = "idle"
    /\ pc' = [pc EXCEPT ![t] = where]
    /\ peer' = [peer EXCEPT ![t] = p] /\ at' = [at EXCEPT ![t] = a]

Leave(t) ==
    /\ pc' = [pc EXCEPT ![t] = "idle"]
    /\ peer' = [peer EXCEPT ![t] = NoPeer] /\ at' = [at EXCEPT ![t] = NoAddr]

\* The user pairs with, writes to or sends a file to a peer of the list.
Call(c, p) ==
    /\ p \in known
    /\ Enter(c, p, addr[p], "calling")
    /\ UNCHANGED <<world, registry, failures, heart, history>>

\* updatePeerReachability(p, false), for any reason the call failed for,
\* and however long ago that was.
CallFails(c) ==
    /\ pc[c] = "calling"
    /\ MarkUnreachable(peer[c])
    /\ evidence' = [evidence EXCEPT ![peer[c]] = "call"]
    /\ Leave(c)
    /\ UNCHANGED <<world, failures, heart, misses>>

CallSucceeds(c) ==
    /\ pc[c] = "calling" /\ at[c] # NoAddr /\ home[peer[c]] = at[c]
    /\ pc' = [pc EXCEPT ![c] = "reset"]
    /\ UNCHANGED <<world, registry, failures, heart, peer, at, history>>

\* updatePeerReachability(p, true): reset the counter ...
ResetFailures(c) ==
    /\ pc[c] = "reset"
    /\ failures' = [failures EXCEPT ![peer[c]] = 0]
    /\ pc' = [pc EXCEPT ![c] = "mark"]
    /\ UNCHANGED <<world, registry, heart, peer, at, history>>

\* ... and mark the record, keeping its address.
MarkCalled(c) ==
    /\ pc[c] = "mark"
    /\ MarkDirectActive(peer[c], NoAddr)
    /\ Leave(c)
    /\ UNCHANGED <<world, failures, heart, misses>>

\* markPeerDirectActive: a request of a peer resets the counter ...
Contact(i, p) ==
    /\ home[p] # NoAddr
    /\ Enter(i, p, home[p], "mark")
    /\ failures' = [failures EXCEPT ![p] = 0]
    /\ UNCHANGED <<world, registry, heart, history>>

\* ... and marks the record with the address the request came from.
MarkContact(i) ==
    /\ pc[i] = "mark"
    /\ MarkDirectActive(peer[i], at[i])
    /\ Leave(i)
    /\ UNCHANGED <<world, failures, heart, misses>>

---------------------------------------------------------------------------
(* The world: agents start, stop and change their address, and pairings    *)
(* are confirmed.                                                          *)

Move(p, a) ==
    /\ home' = [home EXCEPT ![p] = a]
    /\ UNCHANGED <<trusted, registry, failures, heart, threads, history>>

BecomeTrusted(p) ==
    /\ p \in known /\ trusted' = trusted \cup {p}
    /\ UNCHANGED <<home, registry, failures, heart, threads, history>>

ProbeStep ==
    \/ \E p \in Peers : SendHeartbeat(p)
    \/ ProbeFails \/ Suppress \/ ProbeAnswered \/ MarkProbed

ClientStep(c) == CallFails(c) \/ CallSucceeds(c) \/ ResetFailures(c) \/ MarkCalled(c)

Next ==
    \/ \E p \in Peers :
          \/ OnAnnouncement(p) \/ BroadcastExpires(p) \/ DirectExpires(p)
          \/ \E a \in Addrs \cup {NoAddr} : Move(p, a)
          \/ BecomeTrusted(p)
          \/ \E c \in Clients : Call(c, p)
          \/ \E i \in Contacts : Contact(i, p)
    \/ StartSweep \/ ProbeStep \/ EndSweep
    \/ \E c \in Clients : ClientStep(c)
    \/ \E i \in Contacts : MarkContact(i)

Spec == Init /\ [][Next]_vars

\* The ticker and the goroutines run; some announcement of a peer that stays
\* is heard; a peer that stays where it is probed answers some probe; what
\* is known of a peer that is gone gets too old.
Fairness ==
    /\ WF_vars(StartSweep) /\ WF_vars(ProbeStep) /\ WF_vars(EndSweep)
    /\ SF_vars(ProbeAnswered)
    /\ \A p \in Peers :
          /\ WF_vars(OnAnnouncement(p))
          /\ WF_vars(BroadcastExpires(p) /\ home[p] = NoAddr)
          /\ WF_vars(DirectExpires(p) /\ home[p] = NoAddr)

FairSpec == Spec /\ Fairness

---------------------------------------------------------------------------
(* Properties.                                                             *)

ThreadTypeOK ==
    /\ pc \in [Threads -> {"idle", "calling", "reset", "mark"}]
    /\ peer \in [Threads -> Peers \cup {NoPeer}]
    /\ at \in [Threads -> Addrs \cup {NoAddr}]
    /\ \A t \in Threads : pc[t] # "idle" => peer[t] \in Peers

HeartTypeOK ==
    /\ todo \subseteq Peers /\ listed \in [Peers -> Addrs \cup {NoAddr}]
    /\ hb \in {"idle", "sweep", "probing", "suppress", "mark"}
    /\ probed \in Peers \cup {NoPeer}
    /\ hb \in {"probing", "suppress", "mark"} => probed \in Peers

\* The variables keep their types.
TypeOK ==
    /\ home \in [Peers -> Addrs \cup {NoAddr}] /\ trusted \subseteq Peers
    /\ addr \in [Peers -> Addrs \cup {NoAddr}] /\ known \subseteq Peers
    /\ online \subseteq Peers /\ direct \subseteq Peers /\ suppressed \subseteq Peers
    /\ failures \in [Peers -> 0 .. Threshold + 1]
    /\ misses \in [Peers -> 0 .. Threshold + 1]
    /\ evidence \in [Peers -> {"none", "active", "call", "probe"}]
    /\ HeartTypeOK /\ ThreadTypeOK

\* Announcements never revive a peer that does not answer: whatever time
\* stamps survive, a suppressed peer is shown as unreachable.
SuppressedIsUnreachable ==
    \A p \in Peers : p \in suppressed => ~Reachable(p)

\* Nobody is suppressed for less than a failed call or Threshold failed
\* probes in a row, whoever else resets the counter meanwhile.
SuppressedIsEarned ==
    \A p \in Peers : p \in suppressed =>
        misses[p] >= Threshold \/ evidence[p] = "call"

\* The other way round: once the counter has reached the threshold the peer
\* is suppressed, or about to be, or has been active after its last failed
\* probe; the counter and the flag are under different locks.
FailingPeerIsSuppressed ==
    \A p \in Peers : failures[p] >= Threshold =>
        \/ p \in suppressed
        \/ hb = "suppress" /\ probed = p
        \/ evidence[p] = "active"

\* A trusted peer that is back and stays is found again without a user's
\* call, however it was suppressed and wherever it has moved.
TrustedPeerRecovers ==
    \A p \in Peers, a \in Addrs :
        <>[](home[p] = a /\ p \in trusted) => []<>Reachable(p)
=============================================================================
