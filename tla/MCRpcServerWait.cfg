CONSTANTS
    r1 = r1
    r2 = r2
    None = None
    Reqs <- MCReqs
    NoReply = {}
    MaxCoroutine = 1
    CallbackCap = 1
    ReplyCap = 1
    MayPanic = FALSE
SPECIFICATION Spec
\* Every request may be over.
CHECK_DEADLOCK FALSE
INVARIANT DoneWaitsForTasks
