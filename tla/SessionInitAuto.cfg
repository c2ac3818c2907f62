SPECIFICATION Spec
CONSTANTS
    s1 = s1
    p1 = p1
    Sessions <- MCSessions
    Prewarms <- MCPrewarms
    Regions <- MCRegions
    DefaultRegion <- MCDefault
    Answers <- MCAnswers
    Configs <- MCConfigs
    Lifetimes <- MCLifetimes
    RegionTTL = 2
    Margin = 1
    MaxTime = 3
    MaxCalls = 2
INVARIANTS
    RegionNeverBlocks
CHECK_DEADLOCK FALSE
