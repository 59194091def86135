\* Crossing and repeated confirmations of one pairing, with up to three failures.
CONSTANTS
    c1 = c1 c2 = c2 c3 = c3 i1 = i1
    Agents = {"a", "b"}
    Ids = {i1}
    Calls = {c1, c2, c3}
    MaxFaults = 3
SPECIFICATION FairSpec
CHECK_DEADLOCK FALSE
INVARIANTS
    OwnUserConfirmed
    ConfirmedIsTrusted
    SettledTrustIsMutual
PROPERTIES
    TrustIsMutual
