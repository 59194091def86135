\* Two chunks one after the other, a retry and one fault: Send returns, both sides end, with outcomes that agree.
CONSTANTS
    complete = complete timer1 = timer1
    PartCalls <- MCPartCalls
    CompleteCalls = {complete}
    CompleteCall = complete
    Expiries = {timer1}
    Windows <- MCWindows
    Size = 2
    MaxPartCount = 2
    Floor = 1
    Parallelism = 1
    MaxAttempts <- MCAttempts
    Faults = {"store", "crash"}
    MaxFaults = 1
SPECIFICATION TransferFairSpec
CHECK_DEADLOCK FALSE
INVARIANTS
    HonestCompleteAccepted
    DoneIsDelivered
    WaiterIsWoken
PROPERTIES
    ImplementsFileDelivery
    SendReturns
    SessionIsReleased
    OutcomeIsReached
