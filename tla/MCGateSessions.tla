---------------------------- MODULE MCGateSessions ----------------------------
\* Two modules work on the session of one client, which binds to either of two users.
\* Callers, users and values are interchangeable.
EXTENDS GateSessions, TLC

CONSTANTS s1, c1, c2, u1, u2, k1, v1, v2

MCSessions == {s1}
MCCallers == {c1, c2}
MCUsers == {u1, u2}
MCKeys == {k1}
MCValues == {v1, v2}

Symmetry == Permutations(MCCallers) \cup Permutations(MCUsers) \cup Permutations(MCValues)
=============================================================================
