SPECIFICATION FairSpec
CONSTANTS
    MaxDials = 1
    MaxCloses = 1
PROPERTIES
    OnCloseEventually
