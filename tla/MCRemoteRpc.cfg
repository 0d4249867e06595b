CONSTANTS
    c1 = c1
    c2 = c2
    Calls <- MCCalls
    NoReply <- MCNoReply
    MaxLosses = 1
SPECIFICATION FairSpec
\* Every caller may have returned, or the process may have died.
CHECK_DEADLOCK FALSE
INVARIANTS
    TypeOK
    SettledOnce
    ExecutedOnce
PROPERTIES
    CallEnds
