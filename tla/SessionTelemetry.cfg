SPECIFICATION Spec
CONSTANTS
    MaxStarts = 2
    MaxReqs = 2
    MaxSpans = 3
    MaxCloses = 2
INVARIANTS
    TypeOK
    SpansAccounted
PROPERTIES
    CloseCompletes
