\* The receive process, started up to twice, by callers that may overlap.
SPECIFICATION FairSpec
CONSTANTS
    NumProcs = 1
    MaxPids = 2
    MaxFaults = 1
INVARIANTS
    StoppingIsTrue
    NoThreadOutlivesItsObject
PROPERTIES
    MonitorEnds
    LastingStatusIsReported
