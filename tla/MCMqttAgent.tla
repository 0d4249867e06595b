---------------------------- MODULE MCMqttAgent ----------------------------
\* One connection, two packets of the peer and two pushed messages, on queues of
\* the smallest capacities.
EXTENDS MqttAgent

CONSTANTS p1, p2

MCPushers == {p1, p2}
=============================================================================
