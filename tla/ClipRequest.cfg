SPECIFICATION ClipSpec
CONSTANTS
    MaxDials = 2
    MaxCloses = 1
    Answer = 2
INVARIANTS
    ClipTypeOK
    SocketOwned
    PanicNeedsTeardown
PROPERTIES
    CloseCleansUp
    TeardownHasCause
    SuccessIsComplete
    FailureHasCause
    OtherCallsReturn
    OtherBreakReported
    RequestEnds
CHECK_DEADLOCK FALSE
