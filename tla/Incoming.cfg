\* Any parts, a complete and the idle timer race while the store fails or the agent restarts.
CONSTANTS
    p1 = p1 p2 = p2 p3 = p3 c1 = c1 e1 = e1
    PartCalls = {p1, p2, p3}
    CompleteCalls = {c1}
    Expiries = {e1}
    Windows <- AnyWindows
    Size = 2
    MaxPartCount = 2
    Faults = {"store", "remove", "crash"}
    MaxFaults = 1
SPECIFICATION Spec
CHECK_DEADLOCK FALSE
SYMMETRY Symmetric
VIEW View
INVARIANTS
    PublishedFileComplete
    SingleFinalizer
    PartWrittenOnce
    OutcomeMatchesFile
    ClosedSessionIsReleased
    ListedSessionWillEnd
PROPERTIES
    OutcomeIsFinal
