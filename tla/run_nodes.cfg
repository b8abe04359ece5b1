SPECIFICATION FairSpec
CONSTANTS
    N = 2
    MaxRun = 2
    MaxCrash = 2
INVARIANTS
    TypeOK
    OnlyLateServe
PROPERTIES
    LoopsEnd
    ComesBack
CHECK_DEADLOCK FALSE
