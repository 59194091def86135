\* Two publishers overrun a channel of one event while the connection breaks and the agent restarts.
CONSTANTS
    p1 = p1 p2 = p2 i1 = i1 i2 = i2
    Publishers = {p1, p2}
    Commands = {p2}
    Items = {i1}
    MaxVersion = 2
    Capacity = 1
    MaxFaults = 1
    MaxRestarts = 1
SPECIFICATION FairSpec
CHECK_DEADLOCK FALSE
INVARIANTS
    EveryEventAccounted
PROPERTIES
    ViewCatchesUp
