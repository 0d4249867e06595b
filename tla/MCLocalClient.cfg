CONSTANTS
    c1 = c1
    c2 = c2
    n1 = n1
    None = None
    Calls <- MCCalls
    NoReply <- MCNoReply
    ResultCap = 1
SPECIFICATION FairSpec
\* Every caller may have returned, or the process may have died.
CHECK_DEADLOCK FALSE
INVARIANTS
    TypeOK
    SettledOnce
    ClosedOnlyByDone
PROPERTIES
    ImplementsContract
    TimelySettlement
