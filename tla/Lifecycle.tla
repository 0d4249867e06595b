------------------------------ MODULE Lifecycle ------------------------------
(***************************************************************************)
(* What starts and stops: the process with its modules, and the servers    *)
(* and clients of the network, which Gate.Run starts when its module is    *)
(* started and closes before it returns.  They do not interact otherwise,  *)
(* so a behaviour is one of one of them.                                   *)
(***************************************************************************)
EXTENDS Naturals, Sequences, FiniteSets

CONSTANTS Types, Ids, Processes, Here, Mods, MaxSettings, Conns, MaxConnNum, Dialers,
          MaxDials, Nil

\* The model names a module by its type: app.Run is given one module of each.
ASSUME LifecycleAssumption ==
    /\ Mods \in Seq(Types)
    /\ \A i, j \in DOMAIN Mods : i # j => Mods[i] # Mods[j]
    /\ MaxConnNum \in Nat
    /\ IsFiniteSet(Dialers)
    /\ \A S \in (SUBSET Conns) \cup (SUBSET Dialers) : S # Nil

VARIABLES
    part,
    conf, stage, at, client, runMods, server, run, closeSig, wg, reached,  \* App
    conn, agent, listening,                                                \* Tcp and Ws
    wgConns, wgLn, acceptor, taken, panicked,                              \* Tcp
    reader, wgServe,                                                       \* Ws
    AutoReconnect, dialer, socket, wgDial, closeFlag, dials,               \* Client
    conns, closing                                                         \* all but App

App == INSTANCE AppLifecycle WITH Nobody <- Nil
Tcp == INSTANCE TcpServer
Ws == INSTANCE WsServer
Client == INSTANCE ConnClient

appVars == <<conf, stage, at, client, runMods, server, run, closeSig, wg, reached>>
serverVars == <<conn, agent, listening>>
tcpVars == <<wgConns, wgLn, acceptor, taken, panicked>>
wsVars == <<reader, wgServe>>
clientVars == <<AutoReconnect, dialer, socket, wgDial, closeFlag, dials>>
tableVars == <<conns, closing>>
vars == <<part, appVars, serverVars, tcpVars, wsVars, clientVars, tableVars>>

Init ==
    /\ part \in {"app", "tcp", "ws", "client"}
    /\ App!Init /\ (part # "app" => conf = {})
    /\ Tcp!Init /\ Ws!Init
    /\ Client!Init /\ (part # "client" => ~AutoReconnect)

AppFrame == part = "app" /\ UNCHANGED <<part, serverVars, tcpVars, wsVars, clientVars, tableVars>>
TcpFrame == part = "tcp" /\ UNCHANGED <<part, appVars, wsVars, clientVars>>
WsFrame == part = "ws" /\ UNCHANGED <<part, appVars, tcpVars, clientVars>>
ClientFrame == part = "client" /\ UNCHANGED <<part, appVars, serverVars, tcpVars, wsVars>>

Next ==
    \/ AppFrame /\ App!Next
    \/ TcpFrame /\ Tcp!Next
    \/ WsFrame /\ Ws!Next
    \/ ClientFrame /\ Client!Next

Spec == Init /\ [][Next]_vars

\* Goroutines that can run do, a module's Run returns when it is told to, and an agent
\* returns once its socket is closed. Nobody has to connect, to answer a dial or to stop
\* the process.
Fairness ==
    /\ WF_vars(AppFrame /\ App!StartNext)
    /\ WF_vars(AppFrame /\ App!DestroyNext)
    /\ \A t \in Types : WF_vars(AppFrame /\ App!TypeNext(t))
    /\ WF_vars(TcpFrame /\ (Tcp!RunBegins \/ Tcp!AcceptFails \/ Tcp!Reject \/ Tcp!Enter
                            \/ Tcp!StartAgent))
    /\ WF_vars(TcpFrame /\ Tcp!CloseNext)
    /\ WF_vars(WsFrame /\ Ws!CloseNext)
    /\ \A c \in Conns : /\ WF_vars(TcpFrame /\ Tcp!AgentNext(c))
                        /\ WF_vars(WsFrame /\ Ws!ServeNext(c))
                        /\ WF_vars(WsFrame /\ Ws!ReadMessage(c))
    /\ WF_vars(ClientFrame /\ Client!WaitConns)
    /\ \A d \in Dialers : WF_vars(ClientFrame /\ Client!DialerNext(d))

FairSpec == Spec /\ Fairness

-----------------------------------------------------------------------------
\* Every agent that runs is in the table of its server or client, the table of a server
\* never exceeds MaxConnNum, and no wait group falls below zero.
Bounded ==
    /\ part = "tcp" => Tcp!Bounded
    /\ part = "ws" => Ws!Bounded
    /\ part = "client" => Client!Bounded

\* When Close of the TCP server or of a client has returned, no connection is left open or
\* served and none is begun, whatever was being accepted or dialled meanwhile. When Close of
\* the WebSocket server has, none is served and no agent begins, but a connection that is
\* being upgraded, or was and is yet to be rejected, is still open.
ClosedMeansGone ==
    /\ part = "tcp" => Tcp!ClosedMeansGone
    /\ part = "ws" => Ws!ClosedMeansGone
    /\ part = "client" => Client!ClosedMeansGone

\* For every configuration the process accepts, a module that runs in it is reached
\* in-process, one of another process remotely, and each id by one module only.
ReachedRightly == part = "app" => App!ReachedRightly

\* Modules are destroyed in the reverse order of their start, each after its Run has
\* returned, and all before the clients.
DestroyOrder == part = "app" => App!DestroyOrder

\* What is told to stop stops: Close returns, what the WebSocket server was still upgrading
\* then is closed in the end, and the process exits unless the Run of a module panicked, for
\* which the manager waits in vain.
Stops ==
    /\ (part \in {"tcp", "ws"} /\ closing = "sessions") ~> closing = "closed"
    /\ (part = "ws" /\ closing = "closed") ~> \A c \in Conns : conn[c] # "open"
    /\ (part = "client" /\ closing = "conns") ~> closing = "closed"
    /\ (part = "app" /\ stage = "signal")
          ~> (stage = "exited" \/ \E t \in Types : run[t] = "panicked")
=============================================================================
