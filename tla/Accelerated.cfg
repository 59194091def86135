\* Two chunks, one change of the source and one fault: the receiver publishes one whole file, once, and both sides end with outcomes that agree.
CONSTANTS
    N = 2
    Chunks <- MCChunks
    Stripes = {1, 2}
    MaxEdits = 1
    Versions <- MCVersions
    MaxFaults = 1
SPECIFICATION TransferFairSpec
CHECK_DEADLOCK FALSE
INVARIANTS
    LaneWritesStagedFile
    PublishedIsOneVersion
    OutcomeMatchesFile
    DeliveredOnce
    OwnCompleteIsAccepted
    DoneIsDelivered
PROPERTIES
    DeliversOnePromise
    EverythingEnds
