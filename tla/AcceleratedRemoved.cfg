\* One chunk and no fault: the local file is removed while the receiver is asked to prepare.
CONSTANTS
    N = 1
    Chunks <- MCChunks
    Stripes = {1}
    MaxEdits = 0
    Versions <- MCVersions
    MaxFaults = 0
SPECIFICATION TransferFairSpec
CHECK_DEADLOCK FALSE
PROPERTIES
    LostSourceEndsTransfer
