------------------------------ MODULE TcpServer ------------------------------
(***************************************************************************)
(* The TCP server of a gate: one goroutine accepts connections and enters  *)
(* them into a table of bounded size, a goroutine each runs their agents,  *)
(* and Close ends all of them. Gate.Run starts and closes the server.      *)
(***************************************************************************)
EXTENDS Naturals, FiniteSets

CONSTANTS Conns, MaxConnNum, Nil

VARIABLES
    conn,    \* a connection's socket: "none", "open", "closed"
    agent,   \* its goroutine: "none", "running", "returned", "forgotten", "ended"
    conns,   \* the table, Nil once it is closed
    wgConns,
    wgLn,
    acceptor, \* the accepting goroutine
    taken,   \* the connection it works on
    listening,
    closing, \* what Gate.Run does
    panicked \* whether a nil table was written to

vars == <<conn, agent, conns, wgConns, wgLn, acceptor, taken, listening, closing, panicked>>

\* The server is listening when Start returns; its goroutine need not have run yet.
Init ==
    /\ conn = [c \in Conns |-> "none"]
    /\ agent = [c \in Conns |-> "none"]
    /\ conns = {}
    /\ wgConns = 0
    /\ wgLn = 0
    /\ acceptor = "started"
    /\ taken = Nil
    /\ listening = TRUE
    /\ closing = "no"
    /\ panicked = FALSE

RunBegins ==
    /\ acceptor = "started"
    /\ acceptor' = "accepting"
    /\ wgLn' = wgLn + 1
    /\ UNCHANGED <<conn, agent, conns, wgConns, taken, listening, closing, panicked>>

\* A temporary failure of Accept only delays it and is left out.
Accept(c) ==
    /\ acceptor = "accepting"
    /\ listening
    /\ conn[c] = "none"
    /\ conn' = [conn EXCEPT ![c] = "open"]
    /\ taken' = c
    /\ acceptor' = "accepted"
    /\ UNCHANGED <<agent, conns, wgConns, wgLn, listening, closing, panicked>>

AcceptFails ==
    /\ acceptor = "accepting"
    /\ ~listening
    /\ acceptor' = "ended"
    /\ wgLn' = wgLn - 1
    /\ UNCHANGED <<conn, agent, conns, wgConns, taken, listening, closing, panicked>>

Full == conns # Nil /\ Cardinality(conns) >= MaxConnNum

Reject ==
    /\ acceptor = "accepted"
    /\ Full
    /\ conn' = [conn EXCEPT ![taken] = "closed"]
    /\ acceptor' = "accepting"
    /\ UNCHANGED <<agent, conns, wgConns, wgLn, taken, listening, closing, panicked>>

Enter ==
    /\ acceptor = "accepted"
    /\ ~Full
    /\ IF conns = Nil
       THEN panicked' = TRUE /\ acceptor' = "dead" /\ UNCHANGED conns
       ELSE conns' = conns \cup {taken} /\ acceptor' = "entered" /\ UNCHANGED panicked
    /\ UNCHANGED <<conn, agent, wgConns, wgLn, taken, listening, closing>>

StartAgent ==
    /\ acceptor = "entered"
    /\ wgConns' = wgConns + 1
    /\ agent' = [agent EXCEPT ![taken] = "running"]
    /\ acceptor' = "accepting"
    /\ UNCHANGED <<conn, conns, wgLn, taken, listening, closing, panicked>>

\* agent.Run returns: on its own account, or because the socket was closed. The socket
\* is closed in any case.
AgentReturns(c) ==
    /\ agent[c] = "running"
    /\ agent' = [agent EXCEPT ![c] = "returned"]
    /\ conn' = [conn EXCEPT ![c] = "closed"]
    /\ UNCHANGED <<conns, wgConns, wgLn, acceptor, taken, listening, closing, panicked>>

Forget(c) ==
    /\ agent[c] = "returned"
    /\ agent' = [agent EXCEPT ![c] = "forgotten"]
    /\ conns' = IF conns = Nil THEN Nil ELSE conns \ {c}
    /\ UNCHANGED <<conn, wgConns, wgLn, acceptor, taken, listening, closing, panicked>>

\* agent.OnClose and wgConns.Done.
AgentEnds(c) ==
    /\ agent[c] = "forgotten"
    /\ agent' = [agent EXCEPT ![c] = "ended"]
    /\ wgConns' = wgConns - 1
    /\ UNCHANGED <<conn, conns, wgLn, acceptor, taken, listening, closing, panicked>>

-----------------------------------------------------------------------------
(* Gate.Run after closeSig: gateHandler.OnDestroy, then Close.             *)

\* OnDestroy closes the agents that have connected: any of those that run.
DestroySessions ==
    /\ closing = "no"
    /\ closing' = "sessions"
    /\ \E some \in SUBSET {c \in Conns : agent[c] = "running"} :
          conn' = [c \in Conns |-> IF c \in some THEN "closed" ELSE conn[c]]
    /\ UNCHANGED <<agent, conns, wgConns, wgLn, acceptor, taken, listening, panicked>>

CloseListener ==
    /\ closing = "sessions"
    /\ closing' = "listener"
    /\ listening' = FALSE
    /\ UNCHANGED <<conn, agent, conns, wgConns, wgLn, acceptor, taken, panicked>>

\* A mutated form: the accepting goroutine is not waited for.
WaitLnNot ==
    /\ closing = "listener"
    /\ closing' = "accepted"
    /\ UNCHANGED <<conn, agent, conns, wgConns, wgLn, acceptor, taken, listening, panicked>>

WaitLn ==
    /\ closing = "listener"
    /\ wgLn = 0
    /\ closing' = "accepted"
    /\ UNCHANGED <<conn, agent, conns, wgConns, wgLn, acceptor, taken, listening, panicked>>

CloseConns ==
    /\ closing = "accepted"
    /\ conn' = [c \in Conns |-> IF c \in conns THEN "closed" ELSE conn[c]]
    /\ conns' = Nil
    /\ closing' = "conns"
    /\ UNCHANGED <<agent, wgConns, wgLn, acceptor, taken, listening, panicked>>

WaitConns ==
    /\ closing = "conns"
    /\ wgConns = 0
    /\ closing' = "closed"
    /\ UNCHANGED <<conn, agent, conns, wgConns, wgLn, acceptor, taken, listening, panicked>>

RunNext == RunBegins \/ (\E c \in Conns : Accept(c)) \/ AcceptFails \/ Reject \/ Enter
           \/ StartAgent

\* What follows once a socket is closed.
AgentNext(c) == (conn[c] = "closed" /\ AgentReturns(c)) \/ Forget(c) \/ AgentEnds(c)

CloseNext == CloseListener \/ WaitLn \/ CloseConns \/ WaitConns

Next ==
    \/ RunNext \/ DestroySessions \/ CloseNext
    \/ \E c \in Conns : AgentReturns(c) \/ Forget(c) \/ AgentEnds(c)

Spec == Init /\ [][Next]_vars

\* The table and the counters agree with the goroutines: each agent that runs is in the
\* table while there is one, the table never exceeds its bound, and no wait group falls
\* below zero.
Bounded ==
    /\ {wgConns, wgLn} \subseteq Nat
    /\ conns # Nil => /\ conns \subseteq Conns
                      /\ Cardinality(conns) <= MaxConnNum
                      /\ \A c \in Conns : agent[c] = "running" => c \in conns

\* Once Close has returned no socket is open and no agent runs or begins to, and a nil
\* table is never written to, whenever the accepting goroutine got to run.
ClosedMeansGone ==
    /\ ~panicked
    /\ closing = "closed" =>
          /\ \A c \in Conns : conn[c] # "open" /\ agent[c] \in {"none", "ended"}
          /\ acceptor \in {"started", "accepting", "ended"}
=============================================================================
