SPECIFICATION Spec
CONSTANTS
    Ids = {r1}
    NoId = NoId
    Input <- MCInput
    MaxLines = 3
INVARIANT ExitEndsSession
CHECK_DEADLOCK FALSE
