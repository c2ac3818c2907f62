SPECIFICATION Spec
CONSTANTS
    MaxReqs = 2
    MaxConns = 2
    MaxWrites = 4
    MaxPages = 2
    MaxStream = 3
INVARIANTS
    TypeOK
    NothingAfterEnd
    StreamContinuous
    CallbackMatchesWire
