SPECIFICATION FairSpec
CONSTANTS
    Timeout = 2
    MaxTime = 3
    MaxCalls = 4
INVARIANTS
    SleepIsCurrent
PROPERTIES
    SilenceIsNoticed
    CancelEndsTheThread
