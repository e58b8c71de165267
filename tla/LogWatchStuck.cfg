SPECIFICATION Spec
CONSTANTS
    MaxSize = 1
    MaxLines = 3
    MaxFaults = 0
CHECK_DEADLOCK FALSE
PROPERTY FollowsTheLog
