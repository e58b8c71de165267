\* A queue of two places, six calls of Put: it is full and drained several
\* times, and Close can fall between any two steps.
SPECIFICATION FairSpec
CONSTANTS
    Max = 2
    MaxPuts = 6
INVARIANTS
    CapacityRespected
    OnlyARacingPutIsLost
    NoLostWakeup
PROPERTIES
    CancelEndsTheThread
    PutReturns
    AcceptedIsRun
    ImplementsChannel
