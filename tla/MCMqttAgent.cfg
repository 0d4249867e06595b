CONSTANTS
    p1 = p1
    p2 = p2
    Pushers <- MCPushers
    MaxPacks = 2
    WriteCap = 1
    ReadCap = 1
SPECIFICATION FairSpec
\* The session may be over, or the process may have died.
CHECK_DEADLOCK FALSE
INVARIANTS
    TypeOK
    ConnAckFirst
    AnswersInOrder
    ClosedOnlyByFailure
PROPERTIES
    FailureEndsSession
    PushReturns
