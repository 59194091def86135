\* Nothing fails, one user confirms.
CONSTANTS
    c1 = c1 c2 = c2 c3 = c3 i1 = i1
    Agents = {"a", "b"}
    Ids = {i1}
    Calls = {c1}
    MaxFaults = 0
SPECIFICATION Spec
CHECK_DEADLOCK FALSE
INVARIANTS
    BothUsersConfirmed
