SPECIFICATION FairSpec
CONSTANTS
    NumFiles = 2
    LastTime = 2
    MaxFaults = 2
INVARIANTS
    NothingUnreflectedIsMoved
    ControlTimeIsEarliest
    NeverTwiceByOneProcess
PROPERTIES
    StopEndsTheProcess
    EveryFileIsBackedUp
    ImplementsReflection
