SPECIFICATION Spec
CONSTANTS
    MaxDials = 1
    MaxCloses = 1
INVARIANTS
    SendReturnsError
