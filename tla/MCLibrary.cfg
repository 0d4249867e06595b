CONSTANTS
    l1 = l1
    l2 = l2
    o1 = o1
    o2 = o2
    w1 = w1
    w2 = w2
    k1 = k1
    k2 = k2
    k3 = k3
    s1 = s1
    s2 = s2
    v1 = v1
    v2 = v2
    Base = 4
    GatePacks <- MCGatePacks
    PeerPacks <- MCPeerPacks
    MaxPacks = 2
    WordSize = 4
    Args <- MCArgs
    Loggers <- MCLoggers
    Owners <- MCOwners
    msgChanLen = 1
    MaxMsgs = 1
    Writers <- MCWriters
    LineLimits = {1, 2}
    MaxNum = 2
    MaxDays = 0
    MaxWrites = 5
    LastDay = 2
    MaxFaults = 1
    Keys <- MCKeys
    Vals = {v1, v2}
    Shards <- MCShards
    GetShard <- MCGetShard
    MaxChanges = 3
SYMMETRY Symmetry
SPECIFICATION Spec
\* A library stops when nobody uses it.
CHECK_DEADLOCK FALSE
INVARIANTS
    InSync
    RoundTrip
    FlushKeeps
    KeptOnce
    RotatedOnce
    ItemsSound
