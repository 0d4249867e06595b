CONSTANTS
    s1 = s1
    c1 = c1
    c2 = c2
    u1 = u1
    u2 = u2
    k1 = k1
    v1 = v1
    v2 = v2
    None = None
    Absent = Absent
    Sessions <- MCSessions
    Callers <- MCCallers
    Users <- MCUsers
    Keys <- MCKeys
    Values <- MCValues
    MaxCalls = 3
    MaxFailures = 1
SYMMETRY Symmetry
SPECIFICATION Spec
CHECK_DEADLOCK FALSE
INVARIANTS
    TypeOK
    BindKeepsOwn
    WriteThrough
