----------------------------- MODULE MCRpcServer -----------------------------
\* Small instances of RpcServer: two requests, on one slot or on two.
EXTENDS RpcServer

CONSTANTS r1, r2

MCReqs == {r1, r2}
=============================================================================
