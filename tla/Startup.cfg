\* Any two legacy directories, two faults or crashes at any step, an old version run again, Close during Start.
CONSTANTS
    d1 = d1 d2 = d2 i1 = i1 i2 = i2
    Dirs = {d1, d2}
    Rank <- MCRank
    Fresh = {i1, i2}
    MaxFaults = 2
SPECIFICATION Spec
CHECK_DEADLOCK FALSE
INVARIANTS
    OnlyTornFilesAreBroken
    LegacyComesWhole
    NothingLeftOpen
    StoreOutlivesServers
PROPERTIES
    IdentityIsKept
