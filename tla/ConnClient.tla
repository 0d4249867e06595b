----------------------------- MODULE ConnClient ------------------------------
(***************************************************************************)
(* TCPClient and WSClient: a goroutine per connection dials, runs the      *)
(* agent and, with AutoReconnect, dials again, until Close.                *)
(***************************************************************************)
EXTENDS Naturals, FiniteSets

CONSTANTS Dialers,        \* the ConnNum goroutines
          MaxDials,       \* how many connections are made
          Nil

VARIABLES
    AutoReconnect,
    dialer,  \* the goroutine of connect
    socket,  \* its connection: "none", "open" or "closed"
    conns,   \* the dialers whose connection is in the table, Nil once it is closed
    wgDial, closeFlag, closing, dials

vars == <<AutoReconnect, dialer, socket, conns, wgDial, closeFlag, closing, dials>>

Init ==
    /\ AutoReconnect \in BOOLEAN
    /\ dialer = [d \in Dialers |-> "dialing"]
    /\ socket = [d \in Dialers |-> "none"]
    /\ conns = {}
    /\ wgDial = Cardinality(Dialers)
    /\ closeFlag = FALSE
    /\ closing = "no"
    /\ dials = 0

Dial(d) ==
    /\ dialer[d] = "dialing"
    /\ dials < MaxDials
    /\ dials' = dials + 1
    /\ dialer' = [dialer EXCEPT ![d] = "dialed"]
    /\ socket' = [socket EXCEPT ![d] = "open"]
    /\ UNCHANGED <<AutoReconnect, conns, wgDial, closeFlag, closing>>

\* A dial that fails is repeated after a pause, unless the client is closed.
GiveUp(d) ==
    /\ dialer[d] = "dialing"
    /\ closeFlag
    /\ dialer' = [dialer EXCEPT ![d] = "ended"]
    /\ wgDial' = wgDial - 1
    /\ UNCHANGED <<AutoReconnect, socket, conns, closeFlag, closing, dials>>

Refuse(d) ==
    /\ dialer[d] = "dialed"
    /\ closeFlag
    /\ socket' = [socket EXCEPT ![d] = "closed"]
    /\ dialer' = [dialer EXCEPT ![d] = "ended"]
    /\ wgDial' = wgDial - 1
    /\ UNCHANGED <<AutoReconnect, conns, closeFlag, closing, dials>>

Enter(d) ==
    /\ dialer[d] = "dialed"
    /\ ~closeFlag
    /\ conns' = conns \cup {d}
    /\ dialer' = [dialer EXCEPT ![d] = "running"]
    /\ UNCHANGED <<AutoReconnect, socket, wgDial, closeFlag, closing, dials>>

\* agent.Run returns, on its own account or because the socket was closed.
AgentReturns(d) ==
    /\ dialer[d] = "running"
    /\ dialer' = [dialer EXCEPT ![d] = "returned"]
    /\ socket' = [socket EXCEPT ![d] = "closed"]
    /\ UNCHANGED <<AutoReconnect, conns, wgDial, closeFlag, closing, dials>>

\* The connection leaves the table and agent.OnClose runs.
Forget(d) ==
    /\ dialer[d] = "returned"
    /\ conns' = IF conns = Nil THEN Nil ELSE conns \ {d}
    /\ IF AutoReconnect
       THEN dialer' = [dialer EXCEPT ![d] = "dialing"] /\ UNCHANGED wgDial
       ELSE dialer' = [dialer EXCEPT ![d] = "ended"] /\ wgDial' = wgDial - 1
    /\ UNCHANGED <<AutoReconnect, socket, closeFlag, closing, dials>>

CloseConns ==
    /\ closing = "no"
    /\ closing' = "conns"
    /\ closeFlag' = TRUE
    /\ socket' = [d \in Dialers |-> IF d \in conns THEN "closed" ELSE socket[d]]
    /\ conns' = Nil
    /\ UNCHANGED <<AutoReconnect, dialer, wgDial, dials>>

WaitConns ==
    /\ closing = "conns"
    /\ wgDial = 0
    /\ closing' = "closed"
    /\ UNCHANGED <<AutoReconnect, dialer, socket, conns, wgDial, closeFlag, dials>>

\* What goes on once the client is closed or a connection is.
DialerNext(d) == GiveUp(d) \/ Refuse(d) \/ Enter(d) \/ (socket[d] = "closed" /\ AgentReturns(d))
                 \/ Forget(d)

Next ==
    \/ \E d \in Dialers : Dial(d) \/ DialerNext(d) \/ AgentReturns(d)
    \/ CloseConns \/ WaitConns

Spec == Init /\ [][Next]_vars

\* The table holds the connections of the agents that run, until Close.
Bounded ==
    /\ wgDial = Cardinality({d \in Dialers : dialer[d] # "ended"})
    /\ conns # Nil => \A d \in Dialers : dialer[d] = "running" => d \in conns

\* Once Close has returned no connection is open and none is dialled again.
ClosedMeansGone ==
    closing = "closed" => \A d \in Dialers : socket[d] # "open" /\ dialer[d] = "ended"
=============================================================================
