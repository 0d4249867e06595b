--------------------------- MODULE Lifecycle_proofs ---------------------------
(***************************************************************************)
(* What holds of the servers and clients of the network for every number   *)
(* of connections: tables and wait groups agree with the goroutines, and   *)
(* nothing is left when Close has returned.                                *)
(***************************************************************************)
EXTENDS TLAPS, FiniteSetTheorems, Lifecycle

\* The components are instances, and so is their Cardinality.
LEMMA SameCardinality ==
    ASSUME NEW S
    PROVE  /\ Tcp!Cardinality(S) = Cardinality(S)
           /\ Ws!Cardinality(S) = Cardinality(S)
           /\ Client!Cardinality(S) = Cardinality(S)
<1>1. Tcp!Cardinality(S) = Cardinality(S)
  BY DEF Tcp!Cardinality, Cardinality
<1>2. Ws!Cardinality(S) = Cardinality(S)
  BY DEF Ws!Cardinality, Cardinality
<1>3. Client!Cardinality(S) = Cardinality(S)
  BY DEF Client!Cardinality, Cardinality
<1> QED
  BY <1>1, <1>2, <1>3

\* A region is the set of goroutines that a wait group counts: one enters, or leaves.
LEMMA Entered ==
    ASSUME NEW S, NEW T, NEW x, IsFiniteSet(S), x \notin S, T = S \cup {x}
    PROVE  IsFiniteSet(T) /\ Cardinality(T) = Cardinality(S) + 1
  BY FS_AddElement

LEMMA Left ==
    ASSUME NEW S, NEW T, NEW x, IsFiniteSet(S), x \in S, T = S \ {x}
    PROVE  IsFiniteSet(T) /\ Cardinality(T) = Cardinality(S) - 1
  BY FS_RemoveElement

\* The table of a server stays within its bound.
TableInv ==
    conns # Nil => /\ conns \subseteq Conns
                   /\ IsFiniteSet(conns)
                   /\ Cardinality(conns) <= MaxConnNum

LEMMA TableAdd ==
    ASSUME NEW c \in Conns, TableInv, conns # Nil, ~(Cardinality(conns) >= MaxConnNum),
           conns' = conns \cup {c}
    PROVE  TableInv' /\ conns' # Nil
<1>1. conns' \subseteq Conns /\ conns' # Nil
  BY LifecycleAssumption DEF TableInv
<1>2. IsFiniteSet(conns') /\ Cardinality(conns') <= Cardinality(conns) + 1
  <2>1. Cardinality(conns) \in Nat
    BY FS_CardinalityType DEF TableInv
  <2> QED
    BY <2>1, FS_AddElement DEF TableInv
<1>3. Cardinality(conns) \in Nat /\ Cardinality(conns') \in Nat /\ MaxConnNum \in Nat
  BY <1>2, FS_CardinalityType, LifecycleAssumption DEF TableInv
<1> QED
  BY <1>1, <1>2, <1>3 DEF TableInv

LEMMA TableRemove ==
    ASSUME NEW c \in Conns, TableInv, conns' = IF conns = Nil THEN Nil ELSE conns \ {c}
    PROVE  TableInv' /\ (conns' = Nil <=> conns = Nil)
<1>1. CASE conns = Nil
  BY <1>1 DEF TableInv
<1>2. CASE conns # Nil
  <2>1. conns' \subseteq Conns /\ conns' # Nil
    BY <1>2, LifecycleAssumption DEF TableInv
  <2>2. IsFiniteSet(conns') /\ Cardinality(conns') <= Cardinality(conns)
    BY <1>2, <2>1, FS_Subset DEF TableInv
  <2>3. Cardinality(conns) \in Nat /\ Cardinality(conns') \in Nat /\ MaxConnNum \in Nat
    BY <1>2, <2>2, FS_CardinalityType, LifecycleAssumption DEF TableInv
  <2> QED
    BY <1>2, <2>1, <2>2, <2>3 DEF TableInv
<1> QED
  BY <1>1, <1>2

Closings == {"no", "sessions", "listener", "accepted", "conns", "closed"}

-----------------------------------------------------------------------------
(* The TCP server.                                                         *)

\* What wgConns counts.
TcpServed == {c \in Conns : agent[c] \in {"running", "returned", "forgotten"}}

\* Control: where the accepting goroutine can be while the server is being closed, and
\* what it and the agents know of the table.
TcpControl ==
    /\ conn \in [Conns -> {"none", "open", "closed"}]
    /\ agent \in [Conns -> {"none", "running", "returned", "forgotten", "ended"}]
    /\ acceptor \in {"started", "accepting", "accepted", "entered", "ended"}
    /\ closing \in Closings
    /\ ~panicked
    /\ conns = Nil <=> closing \in {"conns", "closed"}
    /\ closing \notin {"no", "sessions"} => ~listening
    /\ closing \in {"accepted", "conns", "closed"} =>
          acceptor \in {"started", "accepting", "ended"}
    /\ acceptor \in {"accepted", "entered"} =>
          taken \in Conns /\ agent[taken] = "none" /\ conn[taken] # "none"
    /\ acceptor = "entered" => taken \in conns
    /\ \A c \in Conns :
          /\ conn[c] = "none" => agent[c] = "none"
          /\ conn[c] = "open" => \/ acceptor = "accepted" /\ c = taken
                                 \/ conns # Nil /\ c \in conns
          /\ agent[c] = "running" => conns = Nil \/ c \in conns
          /\ agent[c] \in {"returned", "forgotten"} => conn[c] = "closed"
          /\ closing = "closed" => agent[c] \in {"none", "ended"}

\* The wait groups count exactly the goroutines they are for.
TcpCount ==
    /\ IsFiniteSet(TcpServed)
    /\ wgConns = Cardinality(TcpServed)
    /\ wgLn = IF acceptor \in {"started", "ended"} THEN 0 ELSE 1

TcpInv == TcpControl /\ TcpCount /\ TableInv

\* The table: only Enter adds to it, and only below the bound.
LEMMA TcpTable ==
    ASSUME TcpInv, [Tcp!Next]_Tcp!vars PROVE TableInv'
<1> USE DEF TcpInv
<1>1. ASSUME Tcp!RunBegins PROVE TableInv'
  BY <1>1 DEF Tcp!RunBegins, TableInv
<1>2. ASSUME NEW c \in Conns, Tcp!Accept(c) PROVE TableInv'
  BY <1>2 DEF Tcp!Accept, TableInv
<1>3. ASSUME Tcp!AcceptFails PROVE TableInv'
  BY <1>3 DEF Tcp!AcceptFails, TableInv
<1>4. ASSUME Tcp!Reject PROVE TableInv'
  BY <1>4 DEF Tcp!Reject, TableInv
<1>5. ASSUME Tcp!Enter PROVE TableInv'
  <2>1. conns # Nil /\ taken \in Conns
    BY <1>5 DEF Tcp!Enter, TcpControl
  <2> QED
    BY <1>5, <2>1, TableAdd, SameCardinality DEF Tcp!Enter, Tcp!Full
<1>6. ASSUME Tcp!StartAgent PROVE TableInv'
  BY <1>6 DEF Tcp!StartAgent, TableInv
<1>7. ASSUME NEW c \in Conns, Tcp!AgentReturns(c) PROVE TableInv'
  BY <1>7 DEF Tcp!AgentReturns, TableInv
<1>8. ASSUME NEW c \in Conns, Tcp!Forget(c) PROVE TableInv'
  BY <1>8, TableRemove DEF Tcp!Forget
<1>9. ASSUME NEW c \in Conns, Tcp!AgentEnds(c) PROVE TableInv'
  BY <1>9 DEF Tcp!AgentEnds, TableInv
<1>10. ASSUME Tcp!DestroySessions PROVE TableInv'
  BY <1>10 DEF Tcp!DestroySessions, TableInv
<1>11. ASSUME Tcp!CloseListener PROVE TableInv'
  BY <1>11 DEF Tcp!CloseListener, TableInv
<1>12. ASSUME Tcp!WaitLn PROVE TableInv'
  BY <1>12 DEF Tcp!WaitLn, TableInv
<1>13. ASSUME Tcp!CloseConns PROVE TableInv'
  BY <1>13 DEF Tcp!CloseConns, TableInv
<1>14. ASSUME Tcp!WaitConns PROVE TableInv'
  BY <1>14 DEF Tcp!WaitConns, TableInv
<1>15. CASE UNCHANGED Tcp!vars
  BY <1>15 DEF Tcp!vars, TableInv
<1> QED
  BY <1>1, <1>2, <1>3, <1>4, <1>5, <1>6, <1>7, <1>8, <1>9, <1>10, <1>11, <1>12, <1>13,
     <1>14, <1>15
  DEF Tcp!Next, Tcp!RunNext, Tcp!CloseNext

\* Control. When the wait for wgLn is over the acceptor has not begun or has ended, and
\* cannot accept any more; when that for wgConns is over no agent is left.
LEMMA TcpControls ==
    ASSUME TcpInv, [Tcp!Next]_Tcp!vars PROVE TcpControl'
<1> USE DEF TcpInv, TcpControl, Closings
<1>1. ASSUME Tcp!RunBegins PROVE TcpControl'
  BY <1>1 DEF Tcp!RunBegins
<1>2. ASSUME NEW c \in Conns, Tcp!Accept(c) PROVE TcpControl'
  BY <1>2 DEF Tcp!Accept
<1>3. ASSUME Tcp!AcceptFails PROVE TcpControl'
  BY <1>3 DEF Tcp!AcceptFails
<1>4. ASSUME Tcp!Reject PROVE TcpControl'
  BY <1>4 DEF Tcp!Reject
<1>5. ASSUME Tcp!Enter PROVE TcpControl'
  <2>1. conns # Nil /\ taken \in Conns /\ conns' = conns \cup {taken}
    BY <1>5 DEF Tcp!Enter
  <2>2. conns' # Nil
    BY <2>1, LifecycleAssumption DEF TableInv
  <2> QED
    BY <1>5, <2>1, <2>2 DEF Tcp!Enter
<1>6. ASSUME Tcp!StartAgent PROVE TcpControl'
  BY <1>6 DEF Tcp!StartAgent
<1>7. ASSUME NEW c \in Conns, Tcp!AgentReturns(c) PROVE TcpControl'
  BY <1>7 DEF Tcp!AgentReturns
<1>8. ASSUME NEW c \in Conns, Tcp!Forget(c) PROVE TcpControl'
  <2>1. conns' = Nil <=> conns = Nil
    BY <1>8, TableRemove DEF Tcp!Forget
  <2> QED
    BY <1>8, <2>1 DEF Tcp!Forget
<1>9. ASSUME NEW c \in Conns, Tcp!AgentEnds(c) PROVE TcpControl'
  BY <1>9 DEF Tcp!AgentEnds
<1>10. ASSUME Tcp!DestroySessions PROVE TcpControl'
  BY <1>10 DEF Tcp!DestroySessions
<1>11. ASSUME Tcp!CloseListener PROVE TcpControl'
  BY <1>11 DEF Tcp!CloseListener
<1>12. ASSUME Tcp!WaitLn PROVE TcpControl'
  BY <1>12 DEF Tcp!WaitLn, TcpCount
<1>13. ASSUME Tcp!CloseConns PROVE TcpControl'
  BY <1>13 DEF Tcp!CloseConns
<1>14. ASSUME Tcp!WaitConns PROVE TcpControl'
  <2>1. TcpServed = {}
    BY <1>14, FS_EmptySet DEF Tcp!WaitConns, TcpCount
  <2> QED
    BY <1>14, <2>1 DEF Tcp!WaitConns, TcpServed
<1>15. CASE UNCHANGED Tcp!vars
  BY <1>15 DEF Tcp!vars
<1> QED
  BY <1>1, <1>2, <1>3, <1>4, <1>5, <1>6, <1>7, <1>8, <1>9, <1>10, <1>11, <1>12, <1>13,
     <1>14, <1>15
  DEF Tcp!Next, Tcp!RunNext, Tcp!CloseNext

\* Counting: StartAgent enters the region of wgConns and AgentEnds leaves it.
LEMMA TcpCounts ==
    ASSUME TcpInv, [Tcp!Next]_Tcp!vars PROVE TcpCount'
<1> USE DEF TcpInv
<1>1. ASSUME Tcp!RunBegins PROVE TcpCount'
  BY <1>1 DEF Tcp!RunBegins, TcpCount, TcpServed, TcpControl
<1>2. ASSUME NEW c \in Conns, Tcp!Accept(c) PROVE TcpCount'
  BY <1>2 DEF Tcp!Accept, TcpCount, TcpServed, TcpControl
<1>3. ASSUME Tcp!AcceptFails PROVE TcpCount'
  BY <1>3 DEF Tcp!AcceptFails, TcpCount, TcpServed, TcpControl
<1>4. ASSUME Tcp!Reject PROVE TcpCount'
  BY <1>4 DEF Tcp!Reject, TcpCount, TcpServed, TcpControl
<1>5. ASSUME Tcp!Enter PROVE TcpCount'
  BY <1>5 DEF Tcp!Enter, TcpCount, TcpServed, TcpControl
<1>6. ASSUME Tcp!StartAgent PROVE TcpCount'
  <2>1. taken \notin TcpServed /\ TcpServed' = TcpServed \cup {taken}
    BY <1>6 DEF Tcp!StartAgent, TcpServed, TcpControl
  <2>2. IsFiniteSet(TcpServed') /\ Cardinality(TcpServed') = Cardinality(TcpServed) + 1
    BY <2>1, Entered DEF TcpCount
  <2> QED
    BY <1>6, <2>2 DEF Tcp!StartAgent, TcpCount
<1>7. ASSUME NEW c \in Conns, Tcp!AgentReturns(c) PROVE TcpCount'
  <2>1. TcpServed' = TcpServed
    BY <1>7 DEF Tcp!AgentReturns, TcpServed, TcpControl
  <2> QED
    BY <1>7, <2>1 DEF Tcp!AgentReturns, TcpCount
<1>8. ASSUME NEW c \in Conns, Tcp!Forget(c) PROVE TcpCount'
  <2>1. TcpServed' = TcpServed
    BY <1>8 DEF Tcp!Forget, TcpServed, TcpControl
  <2> QED
    BY <1>8, <2>1 DEF Tcp!Forget, TcpCount
<1>9. ASSUME NEW c \in Conns, Tcp!AgentEnds(c) PROVE TcpCount'
  <2>1. c \in TcpServed /\ TcpServed' = TcpServed \ {c}
    BY <1>9 DEF Tcp!AgentEnds, TcpServed, TcpControl
  <2>2. IsFiniteSet(TcpServed') /\ Cardinality(TcpServed') = Cardinality(TcpServed) - 1
    BY <2>1, Left DEF TcpCount
  <2> QED
    BY <1>9, <2>2 DEF Tcp!AgentEnds, TcpCount
<1>10. ASSUME Tcp!DestroySessions PROVE TcpCount'
  BY <1>10 DEF Tcp!DestroySessions, TcpCount, TcpServed, TcpControl
<1>11. ASSUME Tcp!CloseListener PROVE TcpCount'
  BY <1>11 DEF Tcp!CloseListener, TcpCount, TcpServed, TcpControl
<1>12. ASSUME Tcp!WaitLn PROVE TcpCount'
  BY <1>12 DEF Tcp!WaitLn, TcpCount, TcpServed, TcpControl
<1>13. ASSUME Tcp!CloseConns PROVE TcpCount'
  BY <1>13 DEF Tcp!CloseConns, TcpCount, TcpServed, TcpControl
<1>14. ASSUME Tcp!WaitConns PROVE TcpCount'
  BY <1>14 DEF Tcp!WaitConns, TcpCount, TcpServed, TcpControl
<1>15. CASE UNCHANGED Tcp!vars
  BY <1>15 DEF Tcp!vars, TcpCount, TcpServed
<1> QED
  BY <1>1, <1>2, <1>3, <1>4, <1>5, <1>6, <1>7, <1>8, <1>9, <1>10, <1>11, <1>12, <1>13,
     <1>14, <1>15
  DEF Tcp!Next, Tcp!RunNext, Tcp!CloseNext

-----------------------------------------------------------------------------
(* The WebSocket server.                                                   *)

\* What wgServe counts: an upgrade too, from its success on.
WsServed == {c \in Conns : agent[c] \in {"upgraded", "running", "returned", "forgotten"}}

WsControl ==
    /\ conn \in [Conns -> {"none", "open", "closed"}]
    /\ agent \in [Conns -> {"none", "upgrading", "upgraded", "running", "returned",
                            "forgotten", "ended"}]
    /\ closing \in Closings \ {"accepted"}
    /\ conns = Nil <=> closing \in {"conns", "closed"}
    /\ \A c \in Conns :
          /\ conn[c] = "none" => agent[c] = "none"
          /\ conn[c] = "open" => agent[c] \in {"upgrading", "upgraded", "running", "returned"}
          /\ agent[c] = "running" => conns = Nil \/ c \in conns
          /\ closing = "closed" => agent[c] \notin {"running", "returned", "forgotten"}

WsCount == IsFiniteSet(WsServed) /\ wgServe = Cardinality(WsServed)

WsInv == WsControl /\ WsCount /\ TableInv

\* The table: as for TCP.
LEMMA WsTable ==
    ASSUME WsInv, [Ws!Next]_Ws!vars PROVE TableInv'
<1> USE DEF WsInv
<1>1. ASSUME NEW c \in Conns, Ws!Accept(c) PROVE TableInv'
  BY <1>1 DEF Ws!Accept, TableInv
<1>2. ASSUME NEW c \in Conns, Ws!UpgradeFails(c) PROVE TableInv'
  BY <1>2 DEF Ws!UpgradeFails, TableInv
<1>3. ASSUME NEW c \in Conns, Ws!Upgrade(c) PROVE TableInv'
  BY <1>3 DEF Ws!Upgrade, TableInv
<1>4. ASSUME NEW c \in Conns, Ws!Reject(c) PROVE TableInv'
  BY <1>4 DEF Ws!Reject, TableInv
<1>5. ASSUME NEW c \in Conns, Ws!Enter(c) PROVE TableInv'
  BY <1>5, TableAdd, SameCardinality DEF Ws!Enter, Ws!Full
<1>6. ASSUME NEW c \in Conns, Ws!ReadMessage(c) PROVE TableInv'
  BY <1>6 DEF Ws!ReadMessage, TableInv
<1>7. ASSUME NEW c \in Conns, Ws!ReadFails(c) PROVE TableInv'
  BY <1>7 DEF Ws!ReadFails, TableInv
<1>8. ASSUME NEW c \in Conns, Ws!Read(c) PROVE TableInv'
  BY <1>8 DEF Ws!Read, TableInv
<1>9. ASSUME NEW c \in Conns, Ws!AgentReturns(c) PROVE TableInv'
  BY <1>9 DEF Ws!AgentReturns, TableInv
<1>10. ASSUME NEW c \in Conns, Ws!Forget(c) PROVE TableInv'
  BY <1>10, TableRemove DEF Ws!Forget
<1>11. ASSUME NEW c \in Conns, Ws!AgentEnds(c) PROVE TableInv'
  BY <1>11 DEF Ws!AgentEnds, TableInv
<1>12. ASSUME Ws!DestroySessions PROVE TableInv'
  BY <1>12 DEF Ws!DestroySessions, TableInv
<1>13. ASSUME Ws!CloseListener PROVE TableInv'
  BY <1>13 DEF Ws!CloseListener, TableInv
<1>14. ASSUME Ws!CloseConns PROVE TableInv'
  BY <1>14 DEF Ws!CloseConns, TableInv
<1>15. ASSUME Ws!WaitConns PROVE TableInv'
  BY <1>15 DEF Ws!WaitConns, TableInv
<1>16. CASE UNCHANGED Ws!vars
  BY <1>16 DEF Ws!vars, TableInv
<1> QED
  BY <1>1, <1>2, <1>3, <1>4, <1>5, <1>6, <1>7, <1>8, <1>9, <1>10, <1>11, <1>12, <1>13,
     <1>14, <1>15, <1>16
  DEF Ws!Next, Ws!ServeNext, Ws!CloseNext

\* Control: once the table is gone no agent is started, and the last one has left when
\* the wait for wgServe is over.
LEMMA WsControls ==
    ASSUME WsInv, [Ws!Next]_Ws!vars PROVE WsControl'
<1> USE DEF WsInv, WsControl, Closings
<1>1. ASSUME NEW c \in Conns, Ws!Accept(c) PROVE WsControl'
  BY <1>1 DEF Ws!Accept
<1>2. ASSUME NEW c \in Conns, Ws!UpgradeFails(c) PROVE WsControl'
  BY <1>2 DEF Ws!UpgradeFails
<1>3. ASSUME NEW c \in Conns, Ws!Upgrade(c) PROVE WsControl'
  BY <1>3 DEF Ws!Upgrade
<1>4. ASSUME NEW c \in Conns, Ws!Reject(c) PROVE WsControl'
  BY <1>4 DEF Ws!Reject
<1>5. ASSUME NEW c \in Conns, Ws!Enter(c) PROVE WsControl'
  <2>1. conns' # Nil
    BY <1>5, TableAdd, SameCardinality DEF Ws!Enter, Ws!Full
  <2> QED
    BY <1>5, <2>1 DEF Ws!Enter
<1>6. ASSUME NEW c \in Conns, Ws!ReadMessage(c) PROVE WsControl'
  BY <1>6 DEF Ws!ReadMessage
<1>7. ASSUME NEW c \in Conns, Ws!ReadFails(c) PROVE WsControl'
  BY <1>7 DEF Ws!ReadFails
<1>8. ASSUME NEW c \in Conns, Ws!Read(c) PROVE WsControl'
  BY <1>8 DEF Ws!Read
<1>9. ASSUME NEW c \in Conns, Ws!AgentReturns(c) PROVE WsControl'
  BY <1>9 DEF Ws!AgentReturns
<1>10. ASSUME NEW c \in Conns, Ws!Forget(c) PROVE WsControl'
  <2>1. conns' = Nil <=> conns = Nil
    BY <1>10, TableRemove DEF Ws!Forget
  <2> QED
    BY <1>10, <2>1 DEF Ws!Forget
<1>11. ASSUME NEW c \in Conns, Ws!AgentEnds(c) PROVE WsControl'
  BY <1>11 DEF Ws!AgentEnds
<1>12. ASSUME Ws!DestroySessions PROVE WsControl'
  BY <1>12 DEF Ws!DestroySessions
<1>13. ASSUME Ws!CloseListener PROVE WsControl'
  BY <1>13 DEF Ws!CloseListener
<1>14. ASSUME Ws!CloseConns PROVE WsControl'
  BY <1>14 DEF Ws!CloseConns
<1>15. ASSUME Ws!WaitConns PROVE WsControl'
  <2>1. WsServed = {}
    BY <1>15, FS_EmptySet DEF Ws!WaitConns, WsCount
  <2> QED
    BY <1>15, <2>1 DEF Ws!WaitConns, WsServed
<1>16. CASE UNCHANGED Ws!vars
  BY <1>16 DEF Ws!vars
<1> QED
  BY <1>1, <1>2, <1>3, <1>4, <1>5, <1>6, <1>7, <1>8, <1>9, <1>10, <1>11, <1>12, <1>13,
     <1>14, <1>15, <1>16
  DEF Ws!Next, Ws!ServeNext, Ws!CloseNext

\* Counting: Upgrade enters the region of wgServe, Reject and AgentEnds leave it.
LEMMA WsCounts ==
    ASSUME WsInv, [Ws!Next]_Ws!vars PROVE WsCount'
<1> USE DEF WsInv
<1>1. ASSUME NEW c \in Conns, Ws!Accept(c) PROVE WsCount'
  <2>1. WsServed' = WsServed
    BY <1>1 DEF Ws!Accept, WsServed, WsControl
  <2> QED
    BY <1>1, <2>1 DEF Ws!Accept, WsCount
<1>2. ASSUME NEW c \in Conns, Ws!UpgradeFails(c) PROVE WsCount'
  <2>1. WsServed' = WsServed
    BY <1>2 DEF Ws!UpgradeFails, WsServed, WsControl
  <2> QED
    BY <1>2, <2>1 DEF Ws!UpgradeFails, WsCount
<1>3. ASSUME NEW c \in Conns, Ws!Upgrade(c) PROVE WsCount'
  <2>1. c \notin WsServed /\ WsServed' = WsServed \cup {c}
    BY <1>3 DEF Ws!Upgrade, WsServed, WsControl
  <2>2. IsFiniteSet(WsServed') /\ Cardinality(WsServed') = Cardinality(WsServed) + 1
    BY <2>1, Entered DEF WsCount
  <2> QED
    BY <1>3, <2>2 DEF Ws!Upgrade, WsCount
<1>4. ASSUME NEW c \in Conns, Ws!Reject(c) PROVE WsCount'
  <2>1. c \in WsServed /\ WsServed' = WsServed \ {c}
    BY <1>4 DEF Ws!Reject, WsServed, WsControl
  <2>2. IsFiniteSet(WsServed') /\ Cardinality(WsServed') = Cardinality(WsServed) - 1
    BY <2>1, Left DEF WsCount
  <2> QED
    BY <1>4, <2>2 DEF Ws!Reject, WsCount
<1>5. ASSUME NEW c \in Conns, Ws!Enter(c) PROVE WsCount'
  <2>1. WsServed' = WsServed
    BY <1>5 DEF Ws!Enter, WsServed, WsControl
  <2> QED
    BY <1>5, <2>1 DEF Ws!Enter, WsCount
<1>6. ASSUME NEW c \in Conns, Ws!ReadMessage(c) PROVE WsCount'
  BY <1>6 DEF Ws!ReadMessage, WsCount, WsServed, WsControl
<1>7. ASSUME NEW c \in Conns, Ws!ReadFails(c) PROVE WsCount'
  BY <1>7 DEF Ws!ReadFails, WsCount, WsServed, WsControl
<1>8. ASSUME NEW c \in Conns, Ws!Read(c) PROVE WsCount'
  <2>1. WsServed' = WsServed
    BY <1>8 DEF Ws!Read, WsServed, WsControl
  <2> QED
    BY <1>8, <2>1 DEF Ws!Read, WsCount
<1>9. ASSUME NEW c \in Conns, Ws!AgentReturns(c) PROVE WsCount'
  <2>1. WsServed' = WsServed
    BY <1>9 DEF Ws!AgentReturns, WsServed, WsControl
  <2> QED
    BY <1>9, <2>1 DEF Ws!AgentReturns, WsCount
<1>10. ASSUME NEW c \in Conns, Ws!Forget(c) PROVE WsCount'
  <2>1. WsServed' = WsServed
    BY <1>10 DEF Ws!Forget, WsServed, WsControl
  <2> QED
    BY <1>10, <2>1 DEF Ws!Forget, WsCount
<1>11. ASSUME NEW c \in Conns, Ws!AgentEnds(c) PROVE WsCount'
  <2>1. c \in WsServed /\ WsServed' = WsServed \ {c}
    BY <1>11 DEF Ws!AgentEnds, WsServed, WsControl
  <2>2. IsFiniteSet(WsServed') /\ Cardinality(WsServed') = Cardinality(WsServed) - 1
    BY <2>1, Left DEF WsCount
  <2> QED
    BY <1>11, <2>2 DEF Ws!AgentEnds, WsCount
<1>12. ASSUME Ws!DestroySessions PROVE WsCount'
  BY <1>12 DEF Ws!DestroySessions, WsCount, WsServed, WsControl
<1>13. ASSUME Ws!CloseListener PROVE WsCount'
  BY <1>13 DEF Ws!CloseListener, WsCount, WsServed, WsControl
<1>14. ASSUME Ws!CloseConns PROVE WsCount'
  BY <1>14 DEF Ws!CloseConns, WsCount, WsServed, WsControl
<1>15. ASSUME Ws!WaitConns PROVE WsCount'
  BY <1>15 DEF Ws!WaitConns, WsCount, WsServed, WsControl
<1>16. CASE UNCHANGED Ws!vars
  BY <1>16 DEF Ws!vars, WsCount, WsServed, WsControl
<1> QED
  BY <1>1, <1>2, <1>3, <1>4, <1>5, <1>6, <1>7, <1>8, <1>9, <1>10, <1>11, <1>12, <1>13,
     <1>14, <1>15, <1>16
  DEF Ws!Next, Ws!ServeNext, Ws!CloseNext

-----------------------------------------------------------------------------
(* The clients.                                                            *)

\* What wgDial counts.
Undone == {d \in Dialers : dialer[d] # "ended"}

ClientControl ==
    /\ dialer \in [Dialers -> {"dialing", "dialed", "running", "returned", "ended"}]
    /\ socket \in [Dialers -> {"none", "open", "closed"}]
    /\ closing \in {"no", "conns", "closed"}
    /\ closeFlag <=> closing # "no"
    /\ conns = Nil <=> closing # "no"
    /\ conns # Nil => conns \subseteq Dialers
    /\ \A d \in Dialers :
          /\ dialer[d] = "running" => conns = Nil \/ d \in conns
          /\ dialer[d] \in {"dialing", "returned", "ended"} => socket[d] # "open"
          /\ closing = "closed" => dialer[d] = "ended"

ClientCount == IsFiniteSet(Undone) /\ wgDial = Cardinality(Undone)

ClientInv == ClientControl /\ ClientCount

\* Control: what a client that is closed has dialled is refused, and the wait for wgDial
\* is over when every goroutine has ended.
LEMMA ClientControls ==
    ASSUME ClientInv, [Client!Next]_Client!vars PROVE ClientControl'
<1> USE DEF ClientInv, ClientControl
<1>1. ASSUME NEW d \in Dialers, Client!Dial(d) PROVE ClientControl'
  BY <1>1 DEF Client!Dial
<1>2. ASSUME NEW d \in Dialers, Client!GiveUp(d) PROVE ClientControl'
  BY <1>2 DEF Client!GiveUp
<1>3. ASSUME NEW d \in Dialers, Client!Refuse(d) PROVE ClientControl'
  BY <1>3 DEF Client!Refuse
<1>4. ASSUME NEW d \in Dialers, Client!Enter(d) PROVE ClientControl'
  <2>1. conns # Nil /\ conns' = conns \cup {d} /\ conns' \subseteq Dialers
    BY <1>4 DEF Client!Enter
  <2>2. conns' # Nil
    <3>1. conns' \in SUBSET Dialers
      BY <2>1
    <3> QED
      BY <3>1, LifecycleAssumption
  <2> QED
    BY <1>4, <2>1, <2>2 DEF Client!Enter
<1>5. ASSUME NEW d \in Dialers, Client!AgentReturns(d) PROVE ClientControl'
  BY <1>5 DEF Client!AgentReturns
<1>6. ASSUME NEW d \in Dialers, Client!Forget(d) PROVE ClientControl'
  <2>1. conns' = IF conns = Nil THEN Nil ELSE conns \ {d}
    BY <1>6 DEF Client!Forget
  <2>2. /\ conns' = Nil <=> conns = Nil
        /\ conns' # Nil => conns' \subseteq Dialers
    <3>1. conns \subseteq Dialers => conns \ {d} \in SUBSET Dialers
      OBVIOUS
    <3> QED
      BY <2>1, <3>1, LifecycleAssumption
  <2>3. CASE AutoReconnect
    BY <1>6, <2>1, <2>2, <2>3 DEF Client!Forget
  <2>4. CASE ~AutoReconnect
    BY <1>6, <2>1, <2>2, <2>4 DEF Client!Forget
  <2> QED
    BY <2>3, <2>4
<1>7. ASSUME Client!CloseConns PROVE ClientControl'
  BY <1>7 DEF Client!CloseConns
<1>8. ASSUME Client!WaitConns PROVE ClientControl'
  <2>1. Undone = {}
    BY <1>8, FS_EmptySet DEF Client!WaitConns, ClientCount
  <2> QED
    BY <1>8, <2>1 DEF Client!WaitConns, Undone
<1>9. CASE UNCHANGED Client!vars
  BY <1>9 DEF Client!vars
<1> QED
  BY <1>1, <1>2, <1>3, <1>4, <1>5, <1>6, <1>7, <1>8, <1>9
  DEF Client!Next, Client!DialerNext

\* Counting: a goroutine ends once, by GiveUp, Refuse or, without AutoReconnect, Forget.
LEMMA ClientCounts ==
    ASSUME ClientInv, [Client!Next]_Client!vars PROVE ClientCount'
<1> USE DEF ClientInv
<1>1. ASSUME NEW d \in Dialers, Client!Dial(d) PROVE ClientCount'
  <2>1. Undone' = Undone
    BY <1>1 DEF Client!Dial, Undone, ClientControl
  <2> QED
    BY <1>1, <2>1 DEF Client!Dial, ClientCount
<1>2. ASSUME NEW d \in Dialers, Client!GiveUp(d) PROVE ClientCount'
  <2>1. d \in Undone /\ Undone' = Undone \ {d}
    BY <1>2 DEF Client!GiveUp, Undone, ClientControl
  <2>2. IsFiniteSet(Undone') /\ Cardinality(Undone') = Cardinality(Undone) - 1
    BY <2>1, Left DEF ClientCount
  <2> QED
    BY <1>2, <2>2 DEF Client!GiveUp, ClientCount
<1>3. ASSUME NEW d \in Dialers, Client!Refuse(d) PROVE ClientCount'
  <2>1. d \in Undone /\ Undone' = Undone \ {d}
    BY <1>3 DEF Client!Refuse, Undone, ClientControl
  <2>2. IsFiniteSet(Undone') /\ Cardinality(Undone') = Cardinality(Undone) - 1
    BY <2>1, Left DEF ClientCount
  <2> QED
    BY <1>3, <2>2 DEF Client!Refuse, ClientCount
<1>4. ASSUME NEW d \in Dialers, Client!Enter(d) PROVE ClientCount'
  <2>1. Undone' = Undone
    BY <1>4 DEF Client!Enter, Undone, ClientControl
  <2> QED
    BY <1>4, <2>1 DEF Client!Enter, ClientCount
<1>5. ASSUME NEW d \in Dialers, Client!AgentReturns(d) PROVE ClientCount'
  <2>1. Undone' = Undone
    BY <1>5 DEF Client!AgentReturns, Undone, ClientControl
  <2> QED
    BY <1>5, <2>1 DEF Client!AgentReturns, ClientCount
<1>6. ASSUME NEW d \in Dialers, Client!Forget(d) PROVE ClientCount'
  <2>1. CASE AutoReconnect
    <3>1. Undone' = Undone
      BY <1>6, <2>1 DEF Client!Forget, Undone, ClientControl
    <3> QED
      BY <1>6, <2>1, <3>1 DEF Client!Forget, ClientCount
  <2>2. CASE ~AutoReconnect
    <3>1. d \in Undone /\ Undone' = Undone \ {d}
      BY <1>6, <2>2 DEF Client!Forget, Undone, ClientControl
    <3>2. IsFiniteSet(Undone') /\ Cardinality(Undone') = Cardinality(Undone) - 1
      BY <3>1, Left DEF ClientCount
    <3> QED
      BY <1>6, <2>2, <3>2 DEF Client!Forget, ClientCount
  <2> QED
    BY <2>1, <2>2
<1>7. ASSUME Client!CloseConns PROVE ClientCount'
  BY <1>7 DEF Client!CloseConns, ClientCount, Undone, ClientControl
<1>8. ASSUME Client!WaitConns PROVE ClientCount'
  BY <1>8 DEF Client!WaitConns, ClientCount, Undone, ClientControl
<1>9. CASE UNCHANGED Client!vars
  BY <1>9 DEF Client!vars, ClientCount, Undone, ClientControl
<1> QED
  BY <1>1, <1>2, <1>3, <1>4, <1>5, <1>6, <1>7, <1>8, <1>9
  DEF Client!Next, Client!DialerNext

-----------------------------------------------------------------------------
(* The process.                                                            *)

\* Before the first module is made.
Before == stage \in {"wire", "check", "panicked", "match"}

AppTypes ==
    /\ conf \subseteq App!Settings
    /\ stage \in {"wire", "check", "panicked", "match", "start", "running", "signal",
                  "wait", "exited"}
    /\ at \in Nat
    /\ runMods \in Seq(Types)
    /\ client \in [Ids -> {"none", "remote", "unconnected", "local", "closed"}]
    /\ server \in [Types -> {"none", "open", "done"}]
    /\ run \in [Types -> {"none", "running", "returned", "panicked"}]
    /\ closeSig \in [Types -> {0, 1}]
    /\ wg \in [Types -> {0, 1}]

\* The configuration was accepted, and what runs here is configured here, once.
Matches ==
    /\ stage \notin {"wire", "panicked"} => ~App!IdReused
    /\ stage \notin {"wire", "check", "panicked"} => ~App!PidReused
    /\ stage \in {"wire", "check", "panicked"} => runMods = <<>>
    /\ stage \in {"wire", "check"} => at = 1
    /\ stage = "match" => at > 0
    /\ \A i \in DOMAIN runMods :
          /\ App!ConfiguredHere(runMods[i])
          /\ \A j \in DOMAIN runMods : i # j => runMods[i] # runMods[j]
          /\ stage = "match" => \E k \in DOMAIN Mods : k < at /\ runMods[i] = Mods[k]

\* Until the interrupt a client reaches its module the right way, and only the exit of
\* the process closes it.
Reaches ==
    /\ stage \in {"check", "match", "start", "running"} =>
          \A s \in conf :
              client[s.id] = IF s.pid # Here THEN "remote"
                             ELSE IF server[s.type] = "open" THEN "local" ELSE "unconnected"
    /\ \A id \in Ids : client[id] = "closed" => stage = "exited"
    /\ reached # Nil => reached.how # "closed"

Up(t) == server[t] = "open" /\ run[t] # "none"
Down(t) == server[t] = "done" /\ run[t] = "returned"
Fresh(t) == server[t] = "none" /\ run[t] = "none"

\* Modules are started from the first on and destroyed from the last on; the wait group
\* of a module counts its Run.
Places ==
    /\ Before => \A t \in Types : Fresh(t)
    /\ \A t \in Types : run[t] # "none" => \E i \in DOMAIN runMods : t = runMods[i]
    /\ \A t \in Types : wg[t] = IF run[t] \in {"running", "panicked"} THEN 1 ELSE 0
    /\ stage = "start" => at > 0
    /\ stage \in {"signal", "wait"} => at <= Len(runMods)
    /\ stage = "wait" => at > 0
    /\ \A i \in DOMAIN runMods :
          /\ stage = "start" /\ i < at => Up(runMods[i])
          /\ stage = "start" /\ i = at =>
                server[runMods[i]] # "done" /\ run[runMods[i]] = "none"
          /\ stage = "start" /\ i > at => Fresh(runMods[i])
          /\ stage = "running" => Up(runMods[i])
          /\ stage \in {"signal", "wait"} /\ i <= at => Up(runMods[i])
          /\ stage \in {"signal", "wait"} /\ i > at => Down(runMods[i])
          /\ stage = "exited" => Down(runMods[i])

AppInv == AppTypes /\ Matches /\ Reaches /\ Places

LEMMA AppStarts ==
    ASSUME App!Init PROVE AppInv
<1>1. /\ conf \subseteq App!Settings /\ stage = "wire" /\ at = 1 /\ runMods = <<>>
      /\ client = [id \in Ids |-> "none"]
      /\ server = [t \in Types |-> "none"] /\ run = [t \in Types |-> "none"]
      /\ closeSig = [t \in Types |-> 0] /\ wg = [t \in Types |-> 0] /\ reached = Nil
  BY DEF App!Init
<1>2. AppTypes
  BY <1>1 DEF AppTypes
<1>3. Matches
  BY <1>1 DEF Matches
<1>4. Reaches
  BY <1>1 DEF Reaches
<1>5. Places
  BY <1>1 DEF Places, Before, Up, Down, Fresh
<1> QED
  BY <1>2, <1>3, <1>4, <1>5 DEF AppInv

\* A module of a type that is configured here has settings, and no other module has them.
LEMMA SettingsHere ==
    ASSUME NEW t, App!ConfiguredHere(t)
    PROVE  /\ App!SettingsOf(t) \in conf
           /\ App!SettingsOf(t).type = t /\ App!SettingsOf(t).pid = Here
           /\ ~App!PidReused => \A s \in conf : s.type = t /\ s.pid = Here
                                                 => s = App!SettingsOf(t)
           /\ ~App!IdReused => \A s \in conf : s.id = App!SettingsOf(t).id
                                                 => s = App!SettingsOf(t)
<1>1. /\ App!SettingsOf(t) \in conf
      /\ App!SettingsOf(t).type = t /\ App!SettingsOf(t).pid = Here
  BY DEF App!SettingsOf, App!ConfiguredHere
<1>2. ASSUME ~App!PidReused, NEW s \in conf, s.type = t, s.pid = Here
      PROVE  s = App!SettingsOf(t)
  BY <1>1, <1>2 DEF App!PidReused
<1>3. ASSUME ~App!IdReused, NEW s \in conf, s.id = App!SettingsOf(t).id
      PROVE  s = App!SettingsOf(t)
  BY <1>1, <1>3 DEF App!IdReused
<1> QED
  BY <1>1, <1>2, <1>3

LEMMA AppTyped ==
    ASSUME AppInv, [App!Next]_App!vars PROVE AppTypes'
<1> USE DEF AppInv, AppTypes
<1>1. ASSUME App!Wire PROVE AppTypes'
  BY <1>1 DEF App!Wire
<1>2. ASSUME App!CheckModuleSettings PROVE AppTypes'
  BY <1>2 DEF App!CheckModuleSettings
<1>3. ASSUME App!MatchModule PROVE AppTypes'
  <2>1. Mods[at] \in Types
    BY <1>3, LifecycleAssumption DEF App!MatchModule, Matches
  <2>2. runMods' \in Seq(Types)
    BY <1>3, <2>1 DEF App!MatchModule
  <2> QED
    BY <1>3, <2>2 DEF App!MatchModule
<1>4. ASSUME App!Matched PROVE AppTypes'
  BY <1>4 DEF App!Matched
<1>5. ASSUME App!InitModule PROVE AppTypes'
  BY <1>5 DEF App!InitModule
<1>6. ASSUME App!StartModule PROVE AppTypes'
  <2>1. runMods[at] \in Types /\ wg[runMods[at]] = 0
    <3>1. at \in DOMAIN runMods /\ runMods[at] \in Types
      BY <1>6 DEF App!StartModule, Places
    <3>2. run[runMods[at]] = "none"
      BY <1>6, <3>1 DEF App!StartModule, Places
    <3> QED
      BY <3>1, <3>2 DEF Places
  <2> QED
    BY <1>6, <2>1 DEF App!StartModule
<1>7. ASSUME App!Started PROVE AppTypes'
  BY <1>7 DEF App!Started
<1>8. ASSUME App!Interrupt PROVE AppTypes'
  BY <1>8 DEF App!Interrupt
<1>9. ASSUME App!Signal PROVE AppTypes'
  BY <1>9 DEF App!Signal
<1>10. ASSUME App!DestroyModule PROVE AppTypes'
  <2>1. at - 1 \in Nat
    BY <1>10 DEF App!DestroyModule, Places
  <2> QED
    BY <1>10, <2>1 DEF App!DestroyModule, App!OnDestroy
<1>11. ASSUME App!CloseClients PROVE AppTypes'
  BY <1>11 DEF App!CloseClients
<1>12. ASSUME NEW t \in Types, App!RunReturns(t) PROVE AppTypes'
  <2>1. wg[t] = 1
    BY <1>12 DEF App!RunReturns, Places
  <2> QED
    BY <1>12, <2>1 DEF App!RunReturns
<1>13. ASSUME NEW t \in Types, App!RunPanics(t) PROVE AppTypes'
  BY <1>13 DEF App!RunPanics
<1>14. ASSUME NEW t \in Types, NEW id \in Ids, App!RpcCall(t, id) PROVE AppTypes'
  BY <1>14 DEF App!RpcCall
<1>15. CASE UNCHANGED App!vars
  BY <1>15 DEF App!vars
<1> QED
  BY <1>1, <1>2, <1>3, <1>4, <1>5, <1>6, <1>7, <1>8, <1>9, <1>10, <1>11, <1>12, <1>13,
     <1>14, <1>15
  DEF App!Next, App!StartNext, App!DestroyNext

\* Matching appends a type of Mods only once, since no type is in Mods twice.
LEMMA AppMatched ==
    ASSUME AppInv, [App!Next]_App!vars PROVE Matches'
<1> USE DEF AppInv, AppTypes
<1>1. ASSUME App!MatchModule, App!ConfiguredHere(Mods[at]) PROVE Matches'
  <2>1. /\ stage = "match" /\ stage' = "match" /\ conf' = conf /\ at' = at + 1
        /\ at \in DOMAIN Mods /\ Mods[at] \in Types
        /\ runMods' = Append(runMods, Mods[at])
    BY <1>1, LifecycleAssumption DEF App!MatchModule, Matches
  <2>2. /\ DOMAIN runMods' = DOMAIN runMods \cup {Len(runMods) + 1}
        /\ Len(runMods) + 1 \notin DOMAIN runMods
        /\ \A i \in DOMAIN runMods : runMods'[i] = runMods[i]
        /\ runMods'[Len(runMods) + 1] = Mods[at]
    BY <2>1
  <2>3. \A i \in DOMAIN runMods : runMods[i] # Mods[at]
    <3> SUFFICES ASSUME NEW i \in DOMAIN runMods PROVE runMods[i] # Mods[at]
      OBVIOUS
    <3>1. PICK k \in DOMAIN Mods : k < at /\ runMods[i] = Mods[k]
      BY <2>1 DEF Matches
    <3>2. k # at
      BY <2>1, <3>1, LifecycleAssumption
    <3> QED
      BY <2>1, <3>1, <3>2, LifecycleAssumption
  <2>4. App!IdReused' = App!IdReused /\ App!PidReused' = App!PidReused
    BY <2>1 DEF App!IdReused, App!PidReused
  <2>5. \A t : App!ConfiguredHere(t)' <=> App!ConfiguredHere(t)
    BY <2>1 DEF App!ConfiguredHere
  <2>6. \A i \in DOMAIN runMods' : App!ConfiguredHere(runMods'[i])
    BY <1>1, <2>2 DEF Matches
  <2>7. \A i, j \in DOMAIN runMods' : i # j => runMods'[i] # runMods'[j]
    BY <2>2, <2>3 DEF Matches
  <2>8. \A i \in DOMAIN runMods' : \E k \in DOMAIN Mods : k < at' /\ runMods'[i] = Mods[k]
    <3> SUFFICES ASSUME NEW i \in DOMAIN runMods'
                 PROVE  \E k \in DOMAIN Mods : k < at' /\ runMods'[i] = Mods[k]
      OBVIOUS
    <3>1. CASE i \in DOMAIN runMods
      <4>1. PICK k \in DOMAIN Mods : k < at /\ runMods[i] = Mods[k]
        BY <2>1, <3>1 DEF Matches
      <4>2. k < at'
        BY <2>1, <4>1, LifecycleAssumption
      <4> QED
        BY <2>2, <3>1, <4>1, <4>2
    <3>2. CASE i = Len(runMods) + 1
      <4>1. at < at'
        BY <2>1
      <4> QED
        BY <2>1, <2>2, <3>2, <4>1
    <3> QED
      BY <2>2, <3>1, <3>2
  <2>9. at' > 0
    BY <2>1
  <2> QED
    BY <2>1, <2>4, <2>6, <2>7, <2>8, <2>9 DEF Matches, App!ConfiguredHere
<1>2. ASSUME App!MatchModule, ~App!ConfiguredHere(Mods[at]) PROVE Matches'
  <2>1. /\ stage = "match" /\ stage' = "match" /\ UNCHANGED <<conf, runMods>>
        /\ at' = at + 1
    BY <1>2 DEF App!MatchModule
  <2>2. \A i \in DOMAIN runMods : \E k \in DOMAIN Mods : k < at' /\ runMods[i] = Mods[k]
    <3> SUFFICES ASSUME NEW i \in DOMAIN runMods
                 PROVE  \E k \in DOMAIN Mods : k < at' /\ runMods[i] = Mods[k]
      OBVIOUS
    <3>1. PICK k \in DOMAIN Mods : k < at /\ runMods[i] = Mods[k]
      BY <2>1 DEF Matches
    <3>2. k < at'
      BY <2>1, <3>1, LifecycleAssumption
    <3> QED
      BY <3>1, <3>2
  <2> QED
    BY <2>1, <2>2 DEF Matches, App!IdReused, App!PidReused, App!ConfiguredHere
<1>3. ASSUME App!Wire PROVE Matches'
  BY <1>3 DEF App!Wire, Matches, App!IdReused, App!PidReused, App!ConfiguredHere
<1>4. ASSUME App!CheckModuleSettings PROVE Matches'
  BY <1>4 DEF App!CheckModuleSettings, Matches, App!IdReused, App!PidReused,
     App!ConfiguredHere
<1>5. ASSUME UNCHANGED <<conf, runMods>>, stage \in {"match", "start", "running", "signal",
                "wait", "exited"}, stage' \in {"start", "running", "signal", "wait", "exited"}
      PROVE  Matches'
  BY <1>5 DEF Matches, App!IdReused, App!PidReused, App!ConfiguredHere
<1>6. ASSUME UNCHANGED <<conf, runMods, stage, at>> PROVE Matches'
  BY <1>6 DEF Matches, App!IdReused, App!PidReused, App!ConfiguredHere
<1>7. ASSUME App!Matched \/ App!InitModule \/ App!StartModule \/ App!Started \/ App!Interrupt
             \/ App!DestroyNext
      PROVE  Matches'
  BY <1>5, <1>7 DEF App!Matched, App!InitModule, App!StartModule, App!Started,
     App!Interrupt, App!DestroyNext, App!Signal, App!DestroyModule, App!CloseClients
<1>8. ASSUME NEW t \in Types,
             App!RunReturns(t) \/ App!RunPanics(t) \/ \E id \in Ids : App!RpcCall(t, id)
      PROVE  Matches'
  BY <1>6, <1>8 DEF App!RunReturns, App!RunPanics, App!RpcCall
<1>9. CASE UNCHANGED App!vars
  BY <1>6, <1>9 DEF App!vars
<1> QED
  BY <1>1, <1>2, <1>3, <1>4, <1>7, <1>8, <1>9 DEF App!Next, App!StartNext

\* A client becomes local when its module is made here, and nobody runs at the exit.
LEMMA AppReaches ==
    ASSUME AppInv, [App!Next]_App!vars PROVE Reaches'
<1> USE DEF AppInv, AppTypes
<1>1. ASSUME App!Wire PROVE Reaches'
  <2>1. CASE App!IdReused
    BY <1>1, <2>1 DEF App!Wire, Reaches
  <2>2. CASE ~App!IdReused
    <3>1. /\ stage' = "check" /\ UNCHANGED <<conf, server, reached>>
          /\ client' = [id \in Ids |->
                IF \E s \in conf : s.id = id /\ s.pid # Here THEN "remote"
                ELSE IF \E s \in conf : s.id = id THEN "unconnected" ELSE "none"]
      BY <1>1, <2>2 DEF App!Wire
    <3>2. ASSUME NEW s \in conf
          PROVE  client'[s.id] = IF s.pid # Here THEN "remote" ELSE "unconnected"
      <4>1. s.id \in Ids
        BY DEF App!Settings
      <4>2. \A r \in conf : r.id = s.id => r = s
        BY <2>2 DEF App!IdReused
      <4> QED
        BY <3>1, <4>1, <4>2
    <3>3. \A s \in conf : server[s.type] = "none"
      BY <1>1 DEF App!Wire, Places, Before, Fresh, App!Settings
    <3>4. \A id \in Ids : client'[id] # "closed"
      BY <3>1
    <3> QED
      BY <3>1, <3>2, <3>3, <3>4 DEF Reaches
  <2> QED
    BY <2>1, <2>2
<1>2. ASSUME App!InitModule PROVE Reaches'
  <2> DEFINE t == runMods[at]
             id == App!SettingsOf(t).id
  <2>1. /\ stage = "start" /\ stage' = "start" /\ at \in DOMAIN runMods
        /\ server' = [server EXCEPT ![t] = "open"]
        /\ client' = [client EXCEPT ![id] = "local"] /\ UNCHANGED <<conf, reached>>
    BY <1>2 DEF App!InitModule, Places
  <2>2. t \in Types /\ App!ConfiguredHere(t) /\ ~App!IdReused /\ ~App!PidReused
    BY <2>1 DEF Matches
  <2>3. /\ App!SettingsOf(t) \in conf
        /\ App!SettingsOf(t).type = t /\ App!SettingsOf(t).pid = Here
        /\ \A s \in conf : s.type = t /\ s.pid = Here => s = App!SettingsOf(t)
        /\ \A s \in conf : s.id = id => s = App!SettingsOf(t)
    BY <2>2, SettingsHere
  <2>4. id \in Ids
    BY <2>3 DEF App!Settings
  <2> HIDE DEF t, id
  <2>5. ASSUME NEW s \in conf
        PROVE  client'[s.id] = IF s.pid # Here THEN "remote"
                               ELSE IF server'[s.type] = "open" THEN "local"
                               ELSE "unconnected"
    <3>1. /\ s.id \in Ids /\ s.type \in Types
          /\ client[s.id] = IF s.pid # Here THEN "remote"
                            ELSE IF server[s.type] = "open" THEN "local" ELSE "unconnected"
      BY <2>1 DEF App!Settings, Reaches
    <3>2. CASE s.id = id
      <4>1. s.type = t /\ s.pid = Here
        BY <2>3, <3>2
      <4>2. client'[s.id] = "local" /\ server'[s.type] = "open"
        BY <2>1, <2>2, <3>1, <3>2, <4>1
      <4> QED
        BY <4>1, <4>2
    <3>3. CASE s.id # id
      <4>1. client'[s.id] = client[s.id]
        BY <2>1, <3>1, <3>3
      <4>2. s.pid = Here => s.type # t
        BY <2>3, <3>3 DEF id
      <4>3. s.pid = Here => server'[s.type] = server[s.type]
        BY <2>1, <3>1, <4>2
      <4> QED
        BY <3>1, <4>1, <4>3
    <3> QED
      BY <3>2, <3>3
  <2>6. \A i \in Ids : client'[i] = "closed" => client[i] = "closed"
    BY <2>1, <2>4
  <2> QED
    BY <2>1, <2>5, <2>6 DEF Reaches
<1>3. ASSUME NEW t \in Types, NEW id \in Ids, App!RpcCall(t, id) PROVE Reaches'
  <2>1. /\ UNCHANGED <<conf, stage, client, server>>
        /\ reached' = [id |-> id, how |-> client[id]]
        /\ \E m \in Types : run[m] = "running"
    BY <1>3 DEF App!RpcCall
  <2>2. PICK m \in Types : run[m] = "running"
    BY <2>1
  <2>3. stage # "exited"
    BY <2>2 DEF Places, Down
  <2>4. client[id] # "closed"
    BY <2>3 DEF Reaches
  <2>5. reached'.how # "closed"
    BY <2>1, <2>4
  <2> QED
    BY <2>1, <2>5 DEF Reaches
<1>4. ASSUME App!DestroyModule PROVE Reaches'
  <2>1. stage = "wait" /\ stage' = "signal" /\ UNCHANGED <<client, reached>>
    BY <1>4 DEF App!DestroyModule
  <2> QED
    BY <2>1 DEF Reaches
<1>5. ASSUME App!CloseClients PROVE Reaches'
  BY <1>5 DEF App!CloseClients, Reaches
<1>6. CASE UNCHANGED App!vars
  BY <1>6 DEF App!vars, Reaches
<1>7. ASSUME App!CheckModuleSettings \/ App!MatchModule \/ App!Matched \/ App!StartModule
             \/ App!Started \/ App!Interrupt \/ App!Signal
      PROVE  Reaches'
  <2>1. /\ UNCHANGED <<conf, client, server, reached>>
        /\ \/ stage \in {"check", "match", "start"}
                 /\ stage' \in {"panicked", "match", "start", "running"}
           \/ stage \in {"running", "signal"} /\ stage' \in {"signal", "wait"}
    BY <1>7 DEF App!CheckModuleSettings, App!MatchModule, App!Matched, App!StartModule,
       App!Started, App!Interrupt, App!Signal
  <2> QED
    BY <2>1 DEF Reaches
<1>8. ASSUME NEW t \in Types, App!RunReturns(t) \/ App!RunPanics(t) PROVE Reaches'
  BY <1>8 DEF App!RunReturns, App!RunPanics, Reaches
<1> QED
  BY <1>1, <1>2, <1>3, <1>4, <1>5, <1>6, <1>7, <1>8
  DEF App!Next, App!StartNext, App!DestroyNext

\* The wait for a module's Run, and its receipt of closeSig, are between those that are
\* still up and those that are down.
LEMMA AppPlaced ==
    ASSUME AppInv, [App!Next]_App!vars PROVE Places'
<1> USE DEF AppInv, AppTypes
<1>1. ASSUME App!Wire \/ App!CheckModuleSettings PROVE Places'
  <2>1. /\ UNCHANGED <<runMods, server, run, wg>> /\ Before /\ Before' /\ runMods = <<>>
        /\ stage' \notin {"start", "running", "signal", "wait", "exited"}
    BY <1>1 DEF App!Wire, App!CheckModuleSettings, Before, Matches
  <2> QED
    BY <2>1 DEF Places, Fresh
<1>2. ASSUME App!MatchModule PROVE Places'
  <2>1. /\ UNCHANGED <<server, run, wg>> /\ Before /\ stage' = "match"
    BY <1>2 DEF App!MatchModule, Before
  <2>2. \A t \in Types : run[t] = "none"
    BY <2>1 DEF Places, Fresh
  <2> QED
    BY <2>1, <2>2 DEF Places, Before, Fresh
<1>3. ASSUME App!Matched PROVE Places'
  <2>1. /\ UNCHANGED <<runMods, server, run, wg>> /\ Before /\ ~Before'
        /\ stage' = "start" /\ at' = 1
    BY <1>3 DEF App!Matched, Before
  <2>2. \A i \in DOMAIN runMods : Fresh(runMods[i])
    BY <2>1 DEF Places
  <2> QED
    BY <2>1, <2>2 DEF Places, Fresh
<1>4. ASSUME App!InitModule PROVE Places'
  <2> DEFINE t == runMods[at]
  <2>1. /\ stage = "start" /\ stage' = "start" /\ ~Before' /\ at \in DOMAIN runMods
        /\ server' = [server EXCEPT ![t] = "open"] /\ UNCHANGED <<at, runMods, run, wg>>
        /\ t \in Types
    BY <1>4 DEF App!InitModule, Places, Before
  <2>2. \A i \in DOMAIN runMods : i # at => server'[runMods[i]] = server[runMods[i]]
    BY <2>1 DEF Matches
  <2>3. server'[t] = "open"
    BY <2>1
  <2> QED
    BY <2>1, <2>2, <2>3 DEF Places, Up, Fresh
<1>5. ASSUME App!StartModule PROVE Places'
  <2> DEFINE t == runMods[at]
  <2>1. /\ stage = "start" /\ stage' = "start" /\ ~Before' /\ at \in DOMAIN runMods
        /\ server[t] = "open" /\ run[t] = "none" /\ t \in Types
        /\ wg' = [wg EXCEPT ![t] = wg[t] + 1] /\ run' = [run EXCEPT ![t] = "running"]
        /\ at' = at + 1 /\ UNCHANGED <<runMods, server>>
    BY <1>5 DEF App!StartModule, Places, Before
  <2>2. \A i \in DOMAIN runMods : i # at => run'[runMods[i]] = run[runMods[i]]
    BY <2>1 DEF Matches
  <2>3. run'[t] = "running" /\ wg'[t] = 1
    BY <2>1 DEF Places
  <2>4. \A m \in Types : m # t => run'[m] = run[m] /\ wg'[m] = wg[m]
    BY <2>1
  <2>5. ASSUME NEW i \in DOMAIN runMods
        PROVE  /\ i < at' => Up(runMods[i])'
               /\ i >= at' => i > at /\ Fresh(runMods[i])'
    <3>1. CASE i = at
      BY <2>1, <2>3, <3>1 DEF Up
    <3>2. CASE i # at
      BY <2>1, <2>2, <3>2 DEF Places, Up, Fresh
    <3> QED
      BY <3>1, <3>2
  <2>6. \A m \in Types : run'[m] # "none" => \E i \in DOMAIN runMods : m = runMods[i]
    BY <2>1, <2>4 DEF Places
  <2>7. \A m \in Types : wg'[m] = IF run'[m] \in {"running", "panicked"} THEN 1 ELSE 0
    BY <2>3, <2>4 DEF Places
  <2>8. at' > 0
    BY <2>1
  <2>9. \A i \in DOMAIN runMods :
           /\ i < at' => Up(runMods[i])'
           /\ i = at' => server'[runMods[i]] # "done" /\ run'[runMods[i]] = "none"
           /\ i > at' => Fresh(runMods[i])'
    BY <2>1, <2>5 DEF Fresh
  <2> QED
    BY <2>1, <2>6, <2>7, <2>8, <2>9 DEF Places, Up, Fresh
<1>6. ASSUME App!Started PROVE Places'
  BY <1>6 DEF App!Started, Places, Before, Up
<1>7. ASSUME App!Interrupt PROVE Places'
  BY <1>7 DEF App!Interrupt, Places, Before, Up
<1>8. ASSUME App!Signal PROVE Places'
  BY <1>8 DEF App!Signal, Places, Before, Up, Down
<1>9. ASSUME App!DestroyModule PROVE Places'
  <2> DEFINE t == runMods[at]
  <2>1. /\ stage = "wait" /\ stage' = "signal" /\ ~Before' /\ at \in DOMAIN runMods
        /\ server' = [server EXCEPT ![t] = "done"] /\ wg[t] = 0 /\ t \in Types
        /\ at' = at - 1 /\ UNCHANGED <<runMods, run, wg>>
    BY <1>9 DEF App!DestroyModule, App!OnDestroy, Places, Before
  <2>2. run[t] = "returned"
    BY <2>1 DEF Places, Up
  <2>3. \A i \in DOMAIN runMods : i # at => server'[runMods[i]] = server[runMods[i]]
    BY <2>1 DEF Matches
  <2>4. server'[t] = "done"
    BY <2>1
  <2>5. ASSUME NEW i \in DOMAIN runMods
        PROVE  /\ i <= at' => Up(runMods[i])'
               /\ i > at' => Down(runMods[i])'
    <3>1. CASE i = at
      BY <2>1, <2>2, <2>4, <3>1 DEF Down
    <3>2. CASE i # at
      BY <2>1, <2>3, <3>2 DEF Places, Up, Down
    <3> QED
      BY <3>1, <3>2
  <2>6. at' <= Len(runMods)
    BY <2>1
  <2> QED
    BY <2>1, <2>5, <2>6 DEF Places, Up, Down
<1>10. ASSUME App!CloseClients PROVE Places'
  BY <1>10 DEF App!CloseClients, Places, Before, Up, Down
<1>11. ASSUME NEW t \in Types, App!RunReturns(t) \/ App!RunPanics(t) PROVE Places'
  <2>1. /\ UNCHANGED <<stage, at, runMods, server>> /\ run[t] = "running"
        /\ \/ run' = [run EXCEPT ![t] = "returned"] /\ wg' = [wg EXCEPT ![t] = wg[t] - 1]
           \/ run' = [run EXCEPT ![t] = "panicked"] /\ wg' = wg
    BY <1>11 DEF App!RunReturns, App!RunPanics
  <2>2. \A m \in Types : m # t => run'[m] = run[m] /\ wg'[m] = wg[m]
    BY <2>1
  <2>3. \/ run'[t] = "returned" /\ wg'[t] = 0
        \/ run'[t] = "panicked" /\ wg'[t] = 1
    <3>1. wg[t] = 1 /\ wg[t] - 1 = 0
      BY <2>1 DEF Places
    <3> QED
      BY <2>1, <3>1
  <2>4. \A m \in Types : wg'[m] = IF run'[m] \in {"running", "panicked"} THEN 1 ELSE 0
    BY <2>2, <2>3 DEF Places
  <2>5. \A m \in Types : run'[m] # "none" <=> run[m] # "none"
    BY <2>1, <2>2, <2>3
  <2>6. \A m \in Types : run[m] = "returned" \/ run[m] = "none" => run'[m] = run[m]
    BY <2>1, <2>2
  <2>7. Before' = Before
    BY <2>1 DEF Before
  <2>8. \A i \in DOMAIN runMods : runMods[i] \in Types
    OBVIOUS
  <2>9. \A m \in Types : /\ Up(m) => Up(m)'
                         /\ Down(m) => Down(m)'
                         /\ Fresh(m) => Fresh(m)'
    BY <2>1, <2>5, <2>6 DEF Up, Down, Fresh
  <2> QED
    BY <2>1, <2>4, <2>5, <2>6, <2>7, <2>8, <2>9 DEF Places
<1>12. ASSUME NEW t \in Types, NEW id \in Ids, App!RpcCall(t, id) PROVE Places'
  BY <1>12 DEF App!RpcCall, Places, Before, Up, Down, Fresh
<1>13. CASE UNCHANGED App!vars
  BY <1>13 DEF App!vars, Places, Before, Up, Down, Fresh
<1> QED
  BY <1>1, <1>2, <1>3, <1>4, <1>5, <1>6, <1>7, <1>8, <1>9, <1>10, <1>11, <1>12, <1>13
  DEF App!Next, App!StartNext, App!DestroyNext

-----------------------------------------------------------------------------
(* The behaviours of all of them.                                          *)

IInv ==
    /\ part \in {"app", "tcp", "ws", "client"}
    /\ part = "app" => AppInv
    /\ part = "tcp" => TcpInv
    /\ part = "ws" => WsInv
    /\ part = "client" => ClientInv

LEMMA EmptyTable ==
    ASSUME conns = {} PROVE conns # Nil /\ TableInv
  BY FS_EmptySet, LifecycleAssumption DEF TableInv

LEMMA TcpStarts ==
    ASSUME Tcp!Init PROVE TcpInv
<1>1. conns # Nil /\ TableInv
  BY EmptyTable DEF Tcp!Init
<1>2. TcpServed = {}
  BY DEF Tcp!Init, TcpServed
<1>3. TcpCount
  BY <1>2, FS_EmptySet DEF Tcp!Init, TcpCount
<1>4. TcpControl
  BY <1>1 DEF Tcp!Init, TcpControl, Closings
<1> QED
  BY <1>1, <1>3, <1>4 DEF TcpInv

LEMMA WsStarts ==
    ASSUME Ws!Init PROVE WsInv
<1>1. conns # Nil /\ TableInv
  BY EmptyTable DEF Ws!Init
<1>2. WsServed = {}
  BY DEF Ws!Init, WsServed
<1>3. WsCount
  BY <1>2, FS_EmptySet DEF Ws!Init, WsCount
<1>4. WsControl
  BY <1>1 DEF Ws!Init, WsControl, Closings
<1> QED
  BY <1>1, <1>3, <1>4 DEF WsInv

LEMMA ClientStarts ==
    ASSUME Client!Init PROVE ClientInv
<1>1. conns # Nil
  BY EmptyTable DEF Client!Init
<1>2. Undone = Dialers
  BY DEF Client!Init, Undone
<1>3. ClientCount
  BY <1>2, LifecycleAssumption, SameCardinality DEF Client!Init, ClientCount
<1>4. ClientControl
  BY <1>1 DEF Client!Init, ClientControl
<1> QED
  BY <1>3, <1>4 DEF ClientInv

LEMMA Starts ==
    ASSUME Init PROVE IInv
  BY AppStarts, TcpStarts, WsStarts, ClientStarts DEF Init, IInv

LEMMA Steps ==
    ASSUME IInv, [Next]_vars PROVE IInv'
<1>1. CASE part = "app"
  <2>1. part' = "app" /\ [App!Next]_App!vars
    BY <1>1 DEF Next, vars, appVars, App!vars, AppFrame, TcpFrame, WsFrame, ClientFrame
  <2> QED
    BY <1>1, <2>1, AppTyped, AppMatched, AppReaches, AppPlaced DEF IInv, AppInv
<1>2. CASE part = "tcp"
  <2>1. part' = "tcp" /\ [Tcp!Next]_Tcp!vars
    BY <1>2 DEF Next, vars, serverVars, tcpVars, tableVars, Tcp!vars, AppFrame, TcpFrame,
       WsFrame, ClientFrame
  <2> QED
    BY <1>2, <2>1, TcpTable, TcpControls, TcpCounts DEF IInv, TcpInv
<1>3. CASE part = "ws"
  <2>1. part' = "ws" /\ [Ws!Next]_Ws!vars
    BY <1>3 DEF Next, vars, serverVars, wsVars, tableVars, Ws!vars, AppFrame, TcpFrame,
       WsFrame, ClientFrame
  <2> QED
    BY <1>3, <2>1, WsTable, WsControls, WsCounts DEF IInv, WsInv
<1>4. CASE part = "client"
  <2>1. part' = "client" /\ [Client!Next]_Client!vars
    BY <1>4 DEF Next, vars, clientVars, tableVars, Client!vars, AppFrame, TcpFrame,
       WsFrame, ClientFrame
  <2> QED
    BY <1>4, <2>1, ClientControls, ClientCounts DEF IInv, ClientInv
<1> QED
  BY <1>1, <1>2, <1>3, <1>4 DEF IInv

THEOREM Invariant == Spec => []IInv
<1>1. ASSUME Init PROVE IInv
  BY <1>1, Starts
<1>2. ASSUME IInv, [Next]_vars PROVE IInv'
  BY <1>2, Steps
<1> QED
  BY <1>1, <1>2, PTL DEF Spec

\* With any number of connections and dialers, every agent that runs is in its table, a
\* server's table stays within MaxConnNum, and the wait groups never fall below zero.
THEOREM AgentsTabled == Spec => []Bounded
<1>1. ASSUME IInv PROVE Bounded
  <2>1. CASE part = "tcp"
    <3>1. TcpInv /\ wgConns \in Nat /\ wgLn \in Nat
      BY <1>1, <2>1, FS_CardinalityType DEF IInv, TcpInv, TcpCount
    <3> QED
      BY <2>1, <3>1, SameCardinality DEF Bounded, Tcp!Bounded, TcpInv, TcpControl, TableInv
  <2>2. CASE part = "ws"
    <3>1. WsInv /\ wgServe \in Nat
      BY <1>1, <2>2, FS_CardinalityType DEF IInv, WsInv, WsCount
    <3> QED
      BY <2>2, <3>1, SameCardinality DEF Bounded, Ws!Bounded, WsInv, WsControl, TableInv
  <2>3. CASE part = "client"
    <3>1. ClientControl /\ wgDial = Client!Cardinality({d \in Dialers : dialer[d] # "ended"})
      BY <1>1, <2>3, SameCardinality DEF IInv, ClientInv, ClientCount, Undone
    <3> QED
      BY <2>3, <3>1 DEF Bounded, Client!Bounded, ClientControl
  <2>4. CASE part = "app"
    BY <2>4 DEF Bounded
  <2> QED
    BY <1>1, <2>1, <2>2, <2>3, <2>4 DEF IInv
<1> QED
  BY <1>1, Invariant, PTL

\* When Close has returned nothing is served or begun any more, however it was interleaved
\* with accepting, upgrading, dialling and the agents' returns; and nothing is open but what
\* the WebSocket server is upgrading or has yet to reject.
THEOREM NothingAfterClose == Spec => []ClosedMeansGone
<1>1. ASSUME IInv PROVE ClosedMeansGone
  <2>1. CASE part = "tcp"
    BY <1>1, <2>1 DEF IInv, TcpInv, TcpControl, ClosedMeansGone, Tcp!ClosedMeansGone
  <2>2. CASE part = "ws"
    BY <1>1, <2>2 DEF IInv, WsInv, WsControl, ClosedMeansGone, Ws!ClosedMeansGone
  <2>3. CASE part = "client"
    BY <1>1, <2>3 DEF IInv, ClientInv, ClientControl, ClosedMeansGone,
       Client!ClosedMeansGone
  <2>4. CASE part = "app"
    BY <2>4 DEF ClosedMeansGone
  <2> QED
    BY <1>1, <2>1, <2>2, <2>3, <2>4 DEF IInv
<1> QED
  BY <1>1, Invariant, PTL

\* For every configuration the process accepts, of any size, the clients reach the modules
\* of this process in-process and those of others remotely, from the start to the
\* interrupt, and no module is given twice.
THEOREM RightlyReached == Spec => []ReachedRightly
<1>1. ASSUME IInv PROVE ReachedRightly
  BY <1>1 DEF IInv, AppInv, Matches, Reaches, ReachedRightly, App!ReachedRightly
<1> QED
  BY <1>1, Invariant, PTL

\* For any number of modules, manager.Destroy closes a module's server only after its Run
\* has returned and after those of the later modules, and app.OnDestroy the clients only
\* after all of them: no call of a running module meets a closed client.
THEOREM DestroyedInOrder == Spec => []DestroyOrder
<1>1. ASSUME IInv PROVE DestroyOrder
  <2>1. CASE part = "app"
    <3>1. AppInv
      BY <1>1, <2>1 DEF IInv
    <3>2. ASSUME NEW i \in DOMAIN runMods, server[runMods[i]] = "done"
          PROVE  /\ run[runMods[i]] = "returned"
                 /\ \A j \in DOMAIN runMods : j > i => server[runMods[j]] = "done"
      <4>1. runMods[i] \in Types /\ at \in Nat
        BY <3>1 DEF AppInv, AppTypes
      <4>2. ~Up(runMods[i]) /\ ~Fresh(runMods[i]) /\ server[runMods[i]] = "done"
        BY <3>2 DEF Up, Fresh
      <4>3. \/ stage = "exited"
            \/ stage \in {"signal", "wait"} /\ i > at
        BY <3>1, <4>1, <4>2 DEF AppInv, AppTypes, Places, Before
      <4> QED
        BY <3>1, <4>1, <4>3 DEF AppInv, AppTypes, Places, Down
    <3>3. stage = "exited" => \A i \in DOMAIN runMods : server[runMods[i]] = "done"
      BY <3>1 DEF AppInv, Places, Down
    <3>4. reached # Nil => reached.how # "closed"
      BY <3>1 DEF AppInv, Reaches
    <3> QED
      BY <3>2, <3>3, <3>4 DEF DestroyOrder, App!DestroyOrder
  <2>2. CASE part # "app"
    BY <2>2 DEF DestroyOrder
  <2> QED
    BY <2>1, <2>2
<1> QED
  BY <1>1, Invariant, PTL
=============================================================================
