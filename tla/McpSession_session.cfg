SPECIFICATION FairSpec
CONSTANTS
    Ids = {r1}
    NoId = NoId
    Input <- MCInput
    MaxLines = 3
INVARIANTS
    TypeOK
    AnsweredInOrder
    HandshakeGate
    NoneDropped
PROPERTIES
    ContractSpec
    EveryLineConsumed
    StopsAfterStdinCloses
CHECK_DEADLOCK FALSE
