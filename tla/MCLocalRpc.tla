------------------------------ MODULE MCLocalRpc ------------------------------
\* Two concurrent calls on a server with one slot.
EXTENDS LocalRpc

CONSTANTS c1, c2

MCCalls == {c1, c2}
MCNoReply == {c2}
=============================================================================
