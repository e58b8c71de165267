SPECIFICATION ArchiveSpec
CONSTANTS
    NumFiles = 2
    LastTime = 1
    MaxFaults = 0
INVARIANT RemovedIsArchived
