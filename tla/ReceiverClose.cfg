SPECIFICATION Spec
CONSTANTS
    DbMax = 1
    MaxRecords = 1
    MaxWork = 1
    MaxConns = 2
    MaxSigterm = 1
    AcceptFails = FALSE
INVARIANT ClosesNoOtherFile
