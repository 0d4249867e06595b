------------------------------ MODULE MCRemoteRpc ------------------------------
\* One call that is answered and one that wants no answer; one connection is lost.
EXTENDS RemoteRpc

CONSTANTS c1, c2

MCCalls == {c1, c2}
MCNoReply == {c2}
=============================================================================
