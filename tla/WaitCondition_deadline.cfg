SPECIFICATION WaitSpec
CONSTANTS
    DefaultTimeout = 6
    MinTimeout = 2
    DefaultInterval = 2
    MinInterval = 1
    MaxInterval = 4
    Timeouts = {0, 5, 7, 20}
    Intervals = {0, 3, 9}
    MaxTimeouts = {1, 7, 11}
    ToolTimeout = 13
    MaxCheck = 2
    MaxLag = 1
INVARIANTS
    AbsoluteDeadline
CHECK_DEADLOCK FALSE
