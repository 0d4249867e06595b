CONSTANTS
    r1 = r1
    r2 = r2
    None = None
    Reqs <- MCReqs
    NoReply = {}
    MaxCoroutine = 2
    CallbackCap = 1
    ReplyCap = 1
    MayPanic = TRUE
SPECIFICATION FairSpec
\* Every request may be over, or the process may have died.
CHECK_DEADLOCK FALSE
INVARIANTS
    TypeOK
    Accounting
    AnsweredOnce
    DrainedBeforeClose
    FewAnswersLost
PROPERTIES
    AcceptedIsAnswered
    DoneTerminates
