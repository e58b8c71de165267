SPECIFICATION Spec
CONSTANTS
    MaxSize = 1
    MaxLines = 8
    MaxFaults = 2
CHECK_DEADLOCK FALSE
INVARIANTS OneLiveFile InOrderOnce
PROPERTIES KeepsNewestLine LiveFileIsFound
