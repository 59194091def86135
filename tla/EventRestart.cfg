\* The agent restarts while the page stays open.
CONSTANTS
    p1 = p1 p2 = p2 i1 = i1 i2 = i2
    Publishers = {p1}
    Commands = {}
    Items = {i1}
    MaxVersion = 2
    Capacity = 16
    MaxFaults = 0
    MaxRestarts = 1
SPECIFICATION FairSpec
CHECK_DEADLOCK FALSE
PROPERTIES
    ReloadsReflectState
