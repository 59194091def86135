\* One peer that comes, goes and moves, probed, called and calling at the same time.
CONSTANTS
    peer1 = peer1 a1 = a1 a2 = a2 call1 = call1 request1 = request1
    NoAddr = NoAddr NoPeer = NoPeer
    Peers = {peer1}
    Addrs = {a1, a2}
    Clients = {call1}
    Contacts = {request1}
    Threshold = 2
SPECIFICATION FairSpec
INVARIANTS
    SuppressedIsUnreachable
    SuppressedIsEarned
    FailingPeerIsSuppressed
PROPERTIES
    TrustedPeerRecovers
