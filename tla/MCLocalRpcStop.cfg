CONSTANTS
    c1 = c1
    c2 = c2
    None = None
    Calls = {c1}
    NoReply = {}
    MaxCoroutine = 1
    CallbackCap = 1
    ResultCap = 1
    MayPanic = FALSE
    MayStop = TRUE
SPECIFICATION FairSpec
\* Every caller may have returned.
CHECK_DEADLOCK FALSE
PROPERTIES
    CallReturns
