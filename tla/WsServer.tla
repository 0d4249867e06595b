------------------------------ MODULE WsServer -------------------------------
(***************************************************************************)
(* The WebSocket server of a gate. The HTTP server calls ServeHTTP in a    *)
(* goroutine per connection; that goroutine runs the agent. A second       *)
(* goroutine per connection reads messages and hands them, and errors, to  *)
(* the agent's Read over an unbuffered channel.                            *)
(***************************************************************************)
EXTENDS Naturals, FiniteSets

CONSTANTS Conns, MaxConnNum, Nil

VARIABLES
    conn,    \* a connection's socket: "none", "open", "closed"
    agent,   \* the goroutine of ServeHTTP
    reader,  \* the goroutine of newWSConn: "none", "reading", "data" or "error"
    conns,   \* handler.conns, Nil once it is closed
    wgServe,
    listening,
    closing  \* what Gate.Run does

vars == <<conn, agent, reader, conns, wgServe, listening, closing>>

Init ==
    /\ conn = [c \in Conns |-> "none"]
    /\ agent = [c \in Conns |-> "none"]
    /\ reader = [c \in Conns |-> "none"]
    /\ conns = {}
    /\ wgServe = 0
    /\ listening = TRUE
    /\ closing = "no"

\* The HTTP server has accepted a connection.
Accept(c) ==
    /\ listening
    /\ conn[c] = "none"
    /\ conn' = [conn EXCEPT ![c] = "open"]
    /\ agent' = [agent EXCEPT ![c] = "upgrading"]
    /\ UNCHANGED <<reader, conns, wgServe, listening, closing>>

\* The request is no GET, or the upgrade fails. (A client that tries again on the same
\* connection is one whose first request is not decided yet.)
UpgradeFails(c) ==
    /\ agent[c] = "upgrading"
    /\ conn' = [conn EXCEPT ![c] = "closed"]
    /\ agent' = [agent EXCEPT ![c] = "ended"]
    /\ UNCHANGED <<reader, conns, wgServe, listening, closing>>

\* The upgrade succeeds, at any time after the server was closed too, and is counted.
Upgrade(c) ==
    /\ agent[c] = "upgrading"
    /\ agent' = [agent EXCEPT ![c] = "upgraded"]
    /\ wgServe' = wgServe + 1
    /\ UNCHANGED <<conn, reader, conns, listening, closing>>

Full == conns # Nil /\ Cardinality(conns) >= MaxConnNum

\* A mutated form: what is rejected is not closed.
RejectLeavesOpen(c) ==
    /\ agent[c] = "upgraded"
    /\ conns # Nil => Full
    /\ agent' = [agent EXCEPT ![c] = "ended"]
    /\ wgServe' = wgServe - 1
    /\ UNCHANGED <<conn, reader, conns, listening, closing>>

\* The server is closed, or has too many connections.
Reject(c) ==
    /\ agent[c] = "upgraded"
    /\ conns # Nil => Full
    /\ conn' = [conn EXCEPT ![c] = "closed"]
    /\ agent' = [agent EXCEPT ![c] = "ended"]
    /\ wgServe' = wgServe - 1
    /\ UNCHANGED <<reader, conns, listening, closing>>

\* A mutated form: the bound is passed by one.
EnterOneMore(c) ==
    /\ agent[c] = "upgraded"
    /\ conns # Nil
    /\ Cardinality(conns) <= MaxConnNum
    /\ conns' = conns \cup {c}
    /\ agent' = [agent EXCEPT ![c] = "running"]
    /\ reader' = [reader EXCEPT ![c] = "reading"]
    /\ UNCHANGED <<conn, wgServe, listening, closing>>

Enter(c) ==
    /\ agent[c] = "upgraded"
    /\ conns # Nil
    /\ ~Full
    /\ conns' = conns \cup {c}
    /\ agent' = [agent EXCEPT ![c] = "running"]
    /\ reader' = [reader EXCEPT ![c] = "reading"]
    /\ UNCHANGED <<conn, wgServe, listening, closing>>

\* ReadMessage returns; a closed socket only gives errors.
ReadMessage(c) ==
    /\ reader[c] = "reading"
    /\ reader' = [reader EXCEPT ![c] = IF conn[c] = "closed" THEN "error" ELSE "data"]
    /\ UNCHANGED <<conn, agent, conns, wgServe, listening, closing>>

\* The peer goes away.
ReadFails(c) ==
    /\ reader[c] = "reading"
    /\ conn[c] = "open"
    /\ reader' = [reader EXCEPT ![c] = "error"]
    /\ UNCHANGED <<conn, agent, conns, wgServe, listening, closing>>

\* Read takes what the reader offers. After an error the agent's Run returns.
Read(c) ==
    /\ agent[c] = "running"
    /\ reader[c] \in {"data", "error"}
    /\ reader' = [reader EXCEPT ![c] = "reading"]
    /\ agent' = [agent EXCEPT ![c] = IF reader[c] = "error" THEN "returned" ELSE @]
    /\ UNCHANGED <<conn, conns, wgServe, listening, closing>>

\* The agent's Run returns for another reason.
AgentReturns(c) ==
    /\ agent[c] = "running"
    /\ agent' = [agent EXCEPT ![c] = "returned"]
    /\ UNCHANGED <<conn, reader, conns, wgServe, listening, closing>>

Forget(c) ==
    /\ agent[c] = "returned"
    /\ agent' = [agent EXCEPT ![c] = "forgotten"]
    /\ conn' = [conn EXCEPT ![c] = "closed"]
    /\ conns' = IF conns = Nil THEN Nil ELSE conns \ {c}
    /\ UNCHANGED <<reader, wgServe, listening, closing>>

AgentEnds(c) ==
    /\ agent[c] = "forgotten"
    /\ agent' = [agent EXCEPT ![c] = "ended"]
    /\ wgServe' = wgServe - 1
    /\ UNCHANGED <<conn, reader, conns, listening, closing>>

-----------------------------------------------------------------------------
(* Gate.Run after closeSig: gateHandler.OnDestroy, then Close.             *)

DestroySessions ==
    /\ closing = "no"
    /\ closing' = "sessions"
    /\ \E some \in SUBSET {c \in Conns : agent[c] = "running"} :
          conn' = [c \in Conns |-> IF c \in some THEN "closed" ELSE conn[c]]
    /\ UNCHANGED <<agent, reader, conns, wgServe, listening>>

CloseListener ==
    /\ closing = "sessions"
    /\ closing' = "listener"
    /\ listening' = FALSE
    /\ UNCHANGED <<conn, agent, reader, conns, wgServe>>

CloseConns ==
    /\ closing = "listener"
    /\ conn' = [c \in Conns |-> IF c \in conns THEN "closed" ELSE conn[c]]
    /\ conns' = Nil
    /\ closing' = "conns"
    /\ UNCHANGED <<agent, reader, wgServe, listening>>

WaitConns ==
    /\ closing = "conns"
    /\ wgServe = 0
    /\ closing' = "closed"
    /\ UNCHANGED <<conn, agent, reader, conns, wgServe, listening>>

ServeNext(c) ==
    Upgrade(c) \/ UpgradeFails(c) \/ Reject(c) \/ Enter(c) \/ Read(c) \/ Forget(c) \/ AgentEnds(c)

CloseNext == CloseListener \/ CloseConns \/ WaitConns

Next ==
    \/ \E c \in Conns : Accept(c) \/ ServeNext(c) \/ AgentReturns(c) \/ ReadMessage(c)
                        \/ ReadFails(c)
    \/ DestroySessions \/ CloseNext

Spec == Init /\ [][Next]_vars

\* As for TCP.
Bounded ==
    /\ wgServe \in Nat
    /\ conns # Nil => /\ conns \subseteq Conns
                      /\ Cardinality(conns) <= MaxConnNum
                      /\ \A c \in Conns : agent[c] = "running" => c \in conns

\* Once Close has returned no agent runs or begins to. Close does not shut the HTTP server
\* down, so a connection can still be open: but only one that is being upgraded, or was and
\* is yet to be rejected.
ClosedMeansGone ==
    closing = "closed" =>
        \A c \in Conns : /\ agent[c] \in {"none", "upgrading", "upgraded", "ended"}
                        /\ conn[c] = "open" => agent[c] \in {"upgrading", "upgraded"}
=============================================================================
