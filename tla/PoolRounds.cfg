SPECIFICATION RoundsSpec
CONSTANTS
    w1 = w1
    w2 = w2
    c1 = c1
    Workers <- MCWorkers
    Connections <- MCConnections
    MaxReqs = 2
    MaxFrames = 1
    MaxBreaks = 1
    Rounds = 2
SYMMETRY Symmetry
INVARIANTS
    RoundsTypeOK
    Exclusive
    ChannelSafe
    
    
