SPECIFICATION FairSpec
CONSTANTS
    FrameSize = 3
    SampleScale = 2
    PreSkip = 4
    MaxSamples = 20
INVARIANTS
    TypeOK
    WellFormed
    PlaysExactly
PROPERTIES
    EncodeReturns
