CONSTANTS
    i1 = i1
    i2 = i2
    i3 = i3
    here = here
    there = there
    n1 = n1
    n2 = n2
    n3 = n3
    d1 = d1
    d2 = d2
    Nil = Nil
    Types <- MCTypes
    Ids <- MCIds
    Processes <- MCProcesses
    Here = here
    Mods <- MCMods
    MaxSettings = 3
    Conns <- MCConns
    MaxConnNum = 2
    Dialers <- MCDialers
    MaxDials = 3
SPECIFICATION FairSpec
\* A server that nobody connects to and a process that exited stop.
CHECK_DEADLOCK FALSE
INVARIANTS
    Bounded
    ClosedMeansGone
    ReachedRightly
    DestroyOrder
PROPERTIES
    Stops
