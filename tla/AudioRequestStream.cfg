SPECIFICATION Spec
CONSTANTS
    MaxReqs = 2
    MaxConns = 2
    MaxWrites = 4
    MaxPages = 1
    MaxStream = 3
INVARIANTS
    OneStreamPerRequest
