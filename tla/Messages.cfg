\* Two messages on pages of one; two more are sent, with any time stamps, either way, while the user scrolls up.
CONSTANTS
    Last = 4
    Earlier <- MCPlaces
    PageSize = 1
    MaxNew = 2
    MaxFaults = 1
SPECIFICATION FairSpec
CHECK_DEADLOCK FALSE
INVARIANTS
    SentIsDelivered
    EveryMessageAccounted
PROPERTIES
    HistoryIsReached
