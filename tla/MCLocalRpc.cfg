CONSTANTS
    c1 = c1
    c2 = c2
    None = None
    Calls <- MCCalls
    NoReply <- MCNoReply
    MaxCoroutine = 1
    CallbackCap = 1
    ResultCap = 1
    MayPanic = FALSE
    MayStop = TRUE
SPECIFICATION CallSpec
\* Every caller may have returned, or the process may have died.
CHECK_DEADLOCK FALSE
INVARIANTS
    NoAnswerToClosedClient
PROPERTIES
    ImplementsClient
    ImplementsServer
    CallReturnsWhileUp
