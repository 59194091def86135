\* Pages of one message: a new message pushes a shown one out of the snapshot.
CONSTANTS
    Last = 4
    Earlier <- MCEarlier
    PageSize = 1
    MaxNew = 1
    MaxFaults = 0
SPECIFICATION Spec
CHECK_DEADLOCK FALSE
PROPERTIES
    LoadedHistoryStays
