----------------------------- MODULE MCLifecycle -----------------------------
\* Up to three configured modules of three types, one of which the process was not given,
\* in two processes; three connections where two fit; two dialling goroutines.
EXTENDS Lifecycle

CONSTANTS i1, i2, i3, here, there, n1, n2, n3, d1, d2

MCTypes == {"Gate", "Room", "Chat"}
MCIds == {i1, i2, i3}
MCProcesses == {here, there}
MCMods == <<"Gate", "Room">>
MCConns == {n1, n2, n3}
MCDialers == {d1, d2}
=============================================================================
