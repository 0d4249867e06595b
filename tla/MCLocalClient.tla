---------------------------- MODULE MCLocalClient ----------------------------
\* A small instance of LocalClient: two calls that want an answer and one that
\* does not, with a result channel of the capacity the code gives it.
EXTENDS LocalClient

CONSTANTS c1, c2, n1

MCCalls == {c1, c2, n1}
MCNoReply == {n1}
=============================================================================
