---------------------------- MODULE RemoteRpc_proofs ----------------------------
(***************************************************************************)
(* What holds of RemoteRpc for every set of calls, on either transport:    *)
(* the type invariant, SettledOnce and ExecutedOnce.                       *)
(***************************************************************************)
EXTENDS TLAPS, RemoteRpc

-----------------------------------------------------------------------------
(* The inductive invariant.                                                *)

\* Where a caller is before its call is in the table.
Early == {"idle", "checked", "resolved"}

\* A call in the table, or not there yet, is unsettled.
UnsettledInv ==
    /\ panicked # "call_chan"
    /\ \A c \in Calls :
          /\ c \in callInfos => call_chan[c] = "empty"
          /\ caller[c] \in Early => c \notin callInfos /\ call_chan[c] = "empty"

\* A request that can still be delivered has not been executed: it is fetched once while
\* the consumer lives, and what is queued again is queued for a consumer that is dead.
DeliveryInv ==
    \A c \in Calls :
        /\ caller[c] \in Early \cup {"registered"} =>
              request[c] = "none" /\ c \notin fetched /\ executed[c] = 0
        /\ request[c] = "queued" /\ request_consumer = "live" =>
              c \notin fetched /\ executed[c] = 0
        /\ c \in fetched => executed[c] = 0
        /\ executed[c] <= 1

\* The entries that the scan and Done hold copies of are still in the table, and only one
\* of the two holds any.
CopiesInv ==
    panicked = "no" =>
        /\ scan \subseteq callInfos /\ sweep \subseteq callInfos
        /\ done \in {"joined", "sweeping", "finished"} => scan = {} /\ ~timing
        /\ done # "sweeping" => sweep = {}

\* What an agent knows of a connection.
LinkState == [conn: {"up", "lost", "nil", "closed"}, chan: {"none", "open", "dead"},
              watcher: {"waiting", "retrying", "gone"}, reused: BOOLEAN]

AmqpInv == Amqp!TypeOK /\ UnsettledInv /\ DeliveryInv
RedisInv == Redis!TypeOK /\ UnsettledInv /\ CopiesInv

IInv ==
    /\ Transport \in {"rabbitmq", "redis", "none"}
    /\ Transport = "rabbitmq" => AmqpInv
    /\ Transport = "redis" => RedisInv
    /\ Transport = "none" => panicked = "no"
    /\ Transport # "rabbitmq" => ExecutedOnce

\* The links keep their types when a channel is opened, when one side is shut and when a
\* connection is dialled again.
LEMMA LinksOpened ==
    ASSUME link \in [Amqp!Links -> LinkState], NEW l \in Amqp!Links
    PROVE  Amqp!Opened(l) \in [Amqp!Links -> LinkState]
<1>1. [link[l] EXCEPT !.chan = IF Amqp!CanOpen(l) THEN "open" ELSE @] \in LinkState
  BY DEF LinkState
<1> QED
  BY <1>1 DEF Amqp!Opened

LEMMA LinksShut ==
    ASSUME link \in [Amqp!Links -> LinkState], NEW side, Amqp!Shut(side)
    PROVE  link' \in [Amqp!Links -> LinkState]
<1>1. \A l \in Amqp!Links :
        [link[l] EXCEPT !.conn = IF @ = "up" THEN "closed" ELSE @,
                        !.chan = IF @ = "open" THEN "dead" ELSE @] \in LinkState
  BY DEF LinkState
<1> QED
  BY <1>1 DEF Amqp!Shut

LEMMA LinksRedialled ==
    ASSUME link \in [Amqp!Links -> LinkState], NEW l \in Amqp!Links, Amqp!Redial(l)
    PROVE  link' \in [Amqp!Links -> LinkState]
<1>1. link[l] \in LinkState
  OBVIOUS
<1>2. [link[l] EXCEPT !.conn = "up", !.watcher = "waiting", !.reused = TRUE] \in LinkState
  BY <1>1 DEF LinkState
<1>3. [link[l] EXCEPT !.conn = "nil", !.watcher = "gone"] \in LinkState
  BY <1>1 DEF LinkState
<1>4. \/ link' = [link EXCEPT ![l] =
                    [link[l] EXCEPT !.conn = "up", !.watcher = "waiting", !.reused = TRUE]]
      \/ link' = [link EXCEPT ![l] = [link[l] EXCEPT !.conn = "nil", !.watcher = "gone"]]
  BY DEF Amqp!Redial
<1> QED
  BY <1>2, <1>3, <1>4

\* Over RabbitMQ: every action of the client, the agents, the broker and the server.
LEMMA AmqpPreserves ==
    ASSUME AmqpInv, [Amqp!Next]_Amqp!vars PROVE AmqpInv'
<1> USE DEF AmqpInv, Amqp!TypeOK, Amqp!CallerState, Amqp!Returned, UnsettledInv,
        DeliveryInv, Early, Amqp!Alive, Amqp!vars, Amqp!clientVars, Amqp!agentVars, Amqp!serverVars
<1>1. ASSUME NEW c \in Calls, Amqp!Refuse(c) PROVE AmqpInv'
  BY <1>1 DEF Amqp!Refuse, Amqp!Move
<1>2. ASSUME NEW c \in Calls, Amqp!Check(c) PROVE AmqpInv'
  BY <1>2 DEF Amqp!Check, Amqp!Move
<1>3. ASSUME NEW c \in Calls, Amqp!Resolve(c) PROVE AmqpInv'
  BY <1>3 DEF Amqp!Resolve, Amqp!Move, Amqp!CallbackQueue
<1>4. ASSUME NEW c \in Calls, Amqp!Register(c) PROVE AmqpInv'
  BY <1>4 DEF Amqp!Register, Amqp!Move
<1>5. ASSUME NEW c \in Calls, Amqp!Publish(c) PROVE AmqpInv'
  <2>1. link' \in [Amqp!Links -> LinkState]
    BY <1>5, LinksOpened DEF Amqp!Publish, LinkState, Amqp!Links
  <2> QED
    BY <1>5, <2>1 DEF Amqp!Publish, Amqp!Move, Amqp!CallbackQueue, LinkState
<1>6. ASSUME NEW c \in Calls, Amqp!Receive(c) PROVE AmqpInv'
  BY <1>6 DEF Amqp!Receive, Amqp!Move
<1>7. ASSUME NEW c \in Calls, Amqp!Expire(c) PROVE AmqpInv'
  BY <1>7 DEF Amqp!Expire
<1>8. ASSUME NEW c \in Calls, Amqp!TakeAnswer(c) PROVE AmqpInv'
  BY <1>8 DEF Amqp!TakeAnswer, Amqp!Settle
<1>9. ASSUME NEW c \in Calls, Amqp!Fetch(c) PROVE AmqpInv'
  BY <1>9 DEF Amqp!Fetch
<1>10. ASSUME NEW c \in Calls, Amqp!TakeRequest(c) PROVE AmqpInv'
  BY <1>10 DEF Amqp!TakeRequest
<1>11. ASSUME NEW c \in Calls, Amqp!DropRequest(c) PROVE AmqpInv'
  BY <1>11 DEF Amqp!DropRequest
<1>12. ASSUME NEW c \in Calls, Amqp!Callback(c) PROVE AmqpInv'
  <2>1. link' \in [Amqp!Links -> LinkState]
    BY <1>12, LinksOpened DEF Amqp!Callback, LinkState, Amqp!Links
  <2> QED
    BY <1>12, <2>1 DEF Amqp!Callback, LinkState
<1>13. ASSUME NEW c \in Calls, Amqp!CallbackPanics(c) PROVE AmqpInv'
  <2>1. link' \in [Amqp!Links -> LinkState]
    BY <1>13, LinksShut DEF Amqp!CallbackPanics, LinkState
  <2>2. shutdown' \subseteq {"client", "server"}
    BY <1>13 DEF Amqp!CallbackPanics, Amqp!Shut
  <2> QED
    BY <1>13, <2>1, <2>2 DEF Amqp!CallbackPanics, Amqp!Requeued, LinkState
<1>14. ASSUME NEW c \in Calls, Amqp!FetchAnswer(c) PROVE AmqpInv'
  BY <1>14 DEF Amqp!FetchAnswer
<1>15. ASSUME Amqp!Scan PROVE AmqpInv'
  BY <1>15 DEF Amqp!Scan, Amqp!Settle
<1>16. ASSUME Amqp!DoneMark PROVE AmqpInv'
  BY <1>16 DEF Amqp!DoneMark
<1>17. ASSUME Amqp!DoneShutdown PROVE AmqpInv'
  <2>1. link' \in [Amqp!Links -> LinkState]
    BY <1>17, LinksShut DEF Amqp!DoneShutdown, LinkState
  <2>2. shutdown' \subseteq {"client", "server"}
    BY <1>17 DEF Amqp!DoneShutdown, Amqp!Shut
  <2> QED
    BY <1>17, <2>1, <2>2 DEF Amqp!DoneShutdown, LinkState
<1>18. ASSUME Amqp!DoneJoin PROVE AmqpInv'
  BY <1>18 DEF Amqp!DoneJoin
<1>19. ASSUME Amqp!DoneSweep PROVE AmqpInv'
  BY <1>19 DEF Amqp!DoneSweep, Amqp!Settle
<1>20. ASSUME Amqp!DoneNil PROVE AmqpInv'
  BY <1>20 DEF Amqp!DoneNil
<1>21. ASSUME Amqp!ServerShutdown PROVE AmqpInv'
  <2>1. link' \in [Amqp!Links -> LinkState]
    BY <1>21, LinksShut DEF Amqp!ServerShutdown, LinkState
  <2>2. shutdown' \subseteq {"client", "server"}
    BY <1>21 DEF Amqp!ServerShutdown, Amqp!Shut
  <2> QED
    BY <1>21, <2>1, <2>2 DEF Amqp!ServerShutdown, Amqp!Requeued, LinkState
<1>22. ASSUME NEW l \in Amqp!Links, Amqp!Lose(l) PROVE AmqpInv'
  <2>1. [link[l] EXCEPT !.conn = "lost", !.chan = IF @ = "open" THEN "dead" ELSE @]
          \in LinkState
    <3>1. link[l] \in LinkState
      BY DEF LinkState
    <3> QED
      BY <3>1 DEF LinkState
  <2>2. link' \in [Amqp!Links -> LinkState]
    BY <1>22, <2>1 DEF Amqp!Lose, LinkState
  <2> QED
    BY <1>22, <2>2 DEF Amqp!Lose, Amqp!Requeued, LinkState
<1>23. ASSUME NEW l \in Amqp!Links, Amqp!Noticed(l) PROVE AmqpInv'
  <2>1. \A w \in {"gone", "retrying"} : [link[l] EXCEPT !.watcher = w] \in LinkState
    BY DEF LinkState
  <2>2. link' \in [Amqp!Links -> LinkState]
    BY <1>23, <2>1 DEF Amqp!Noticed, LinkState
  <2> QED
    BY <1>23, <2>2 DEF Amqp!Noticed, LinkState
<1>24. ASSUME NEW l \in Amqp!Links, Amqp!Redial(l) PROVE AmqpInv'
  <2>1. link' \in [Amqp!Links -> LinkState]
    BY <1>24, LinksRedialled DEF LinkState
  <2> QED
    BY <1>24, <2>1 DEF Amqp!Redial, LinkState
<1>25. CASE UNCHANGED Amqp!vars
  BY <1>25
<1> QED
  BY <1>1, <1>2, <1>3, <1>4, <1>5, <1>6, <1>7, <1>8, <1>9, <1>10, <1>11, <1>12, <1>13,
     <1>14, <1>15, <1>16, <1>17, <1>18, <1>19, <1>20, <1>21, <1>22, <1>23, <1>24, <1>25
  DEF Amqp!Next, Amqp!CallerNext, Amqp!ServerNext, Amqp!DoneNext

\* Over Redis.
LEMMA RedisPreserves ==
    ASSUME RedisInv, [Redis!Next]_Redis!vars PROVE RedisInv'
<1> USE DEF RedisInv, Redis!TypeOK, Redis!Returned, UnsettledInv, CopiesInv, Early,
        Redis!Alive, Redis!vars, Redis!clientVars, Redis!serverVars
<1>1. ASSUME NEW c \in Calls, Redis!Refuse(c) PROVE RedisInv'
  BY <1>1 DEF Redis!Refuse, Redis!Move
<1>2. ASSUME NEW c \in Calls, Redis!Check(c) PROVE RedisInv'
  BY <1>2 DEF Redis!Check, Redis!Move
<1>3. ASSUME NEW c \in Calls, Redis!Register(c) PROVE RedisInv'
  BY <1>3 DEF Redis!Register, Redis!Move
<1>4. ASSUME NEW c \in Calls, Redis!Push(c) PROVE RedisInv'
  BY <1>4 DEF Redis!Push, Redis!Move
<1>5. ASSUME NEW c \in Calls, Redis!Receive(c) PROVE RedisInv'
  BY <1>5 DEF Redis!Receive, Redis!Move
<1>6. ASSUME NEW c \in Calls, Redis!Expire(c) PROVE RedisInv'
  BY <1>6 DEF Redis!Expire
<1>7. ASSUME NEW c \in Calls, Redis!ScanOne(c) PROVE RedisInv'
  BY <1>7 DEF Redis!ScanOne, Redis!Settle
<1>8. ASSUME NEW c \in Calls, Redis!PopAnswer(c) PROVE RedisInv'
  BY <1>8 DEF Redis!PopAnswer
<1>9. ASSUME NEW c \in Calls, Redis!AssertMatched(c) PROVE RedisInv'
  BY <1>9 DEF Redis!AssertMatched
<1>10. ASSUME NEW c \in Calls, Redis!TakeRequest(c) PROVE RedisInv'
  BY <1>10 DEF Redis!TakeRequest
<1>11. ASSUME NEW c \in Calls, Redis!Callback(c) PROVE RedisInv'
  BY <1>11 DEF Redis!Callback
<1>12. ASSUME Redis!Copy PROVE RedisInv'
  BY <1>12 DEF Redis!Copy
<1>13. ASSUME Redis!DoneDelete PROVE RedisInv'
  BY <1>13 DEF Redis!DoneDelete
<1>14. ASSUME Redis!DoneMark PROVE RedisInv'
  BY <1>14 DEF Redis!DoneMark
<1>15. ASSUME Redis!DoneJoin PROVE RedisInv'
  BY <1>15 DEF Redis!DoneJoin
<1>16. ASSUME Redis!DoneCopy PROVE RedisInv'
  BY <1>16 DEF Redis!DoneCopy
<1>17. ASSUME NEW c \in Calls, Redis!DoneOne(c) PROVE RedisInv'
  BY <1>17 DEF Redis!DoneOne, Redis!Settle
<1>18. ASSUME Redis!DoneReturn PROVE RedisInv'
  BY <1>18 DEF Redis!DoneReturn
<1>19. ASSUME Redis!StopConsume PROVE RedisInv'
  BY <1>19 DEF Redis!StopConsume
<1>20. ASSUME Redis!PopFails PROVE RedisInv'
  BY <1>20 DEF Redis!PopFails
<1>21. CASE UNCHANGED Redis!vars
  BY <1>21
<1> QED
  BY <1>1, <1>2, <1>3, <1>4, <1>5, <1>6, <1>7, <1>8, <1>9, <1>10, <1>11, <1>12, <1>13,
     <1>14, <1>15, <1>16, <1>17, <1>18, <1>19, <1>20, <1>21
  DEF Redis!Next, Redis!CallerNext, Redis!DoneNext

-----------------------------------------------------------------------------
LEMMA Initially == Init => IInv
<1>1. Init => Transport \in {"rabbitmq", "redis", "none"} /\ panicked = "no"
  BY DEF Init, Transport, Amqp!Init
<1>2. ASSUME Init PROVE AmqpInv
  <2>1. link \in [Amqp!Links -> LinkState]
    BY <1>2 DEF Init, Amqp!Init, LinkState
  <2>2. callback_queue \in {"none", "live", "dead"} /\ request_consumer = "live"
    BY <1>2 DEF Init, Amqp!Init
  <2>3. /\ executed = [c \in Calls |-> 0] /\ request = [c \in Calls |-> "none"]
        /\ answer = [c \in Calls |-> "none"] /\ fetched = {} /\ shutdown = {}
    BY <1>2 DEF Init, Amqp!Init
  <2>4. /\ caller = [c \in Calls |-> "idle"] /\ call_chan = [c \in Calls |-> "empty"]
        /\ callInfos = {} /\ expired = {} /\ isClose = FALSE /\ responding = TRUE
        /\ done = "idle" /\ panicked = "no"
    BY <1>2 DEF Init, Amqp!Init
  <2>5. Amqp!TypeOK
    <3>1. /\ executed \in [Calls -> 0..2]
          /\ request \in [Calls -> {"none", "queued", "unacked", "gone"}]
          /\ answer \in [Calls -> {"none", "due", "queued", "fetched", "gone"}]
      BY <2>3
    <3>2. /\ caller \in [Calls -> Amqp!CallerState]
          /\ call_chan \in [Calls -> {"empty", "reply", "timeout", "closed"}]
      BY <2>4 DEF Amqp!CallerState
    <3> QED
      BY <2>1, <2>2, <2>3, <2>4, <3>1, <3>2 DEF Amqp!TypeOK, LinkState
  <2>6. UnsettledInv
    BY <2>4 DEF UnsettledInv
  <2>7. DeliveryInv
    BY <2>3 DEF DeliveryInv
  <2> QED
    BY <2>5, <2>6, <2>7 DEF AmqpInv
<1>3. Init => RedisInv
  BY DEF Init, Redis!Init, RedisInv, Redis!TypeOK, Redis!Returned, UnsettledInv, CopiesInv,
         Early
<1>4. AmqpInv => ExecutedOnce
  BY DEF AmqpInv, DeliveryInv, ExecutedOnce, Amqp!ExecutedOnce
<1> QED
  BY <1>1, <1>2, <1>3, <1>4 DEF IInv

\* One transport carries all calls: a step is one of that transport.
LEMMA Preserved == IInv /\ [Next]_vars => IInv'
<1> SUFFICES ASSUME IInv, [Next]_vars PROVE IInv'
  OBVIOUS
<1>1. Transport' = Transport
  BY DEF Next, AmqpStep, RedisStep, NoService, vars, Transport
<1>2. ASSUME Transport = "rabbitmq" PROVE AmqpInv'
  <2>1. [Amqp!Next]_Amqp!vars
    BY <1>2 DEF Next, AmqpStep, RedisStep, NoService, vars, amqpVars, Amqp!vars,
                Amqp!clientVars, Amqp!agentVars, Amqp!serverVars
  <2> QED
    BY <1>2, <2>1, AmqpPreserves DEF IInv
<1>3. ASSUME Transport = "redis" PROVE RedisInv'
  <2>1. [Redis!Next]_Redis!vars
    BY <1>3 DEF Next, AmqpStep, RedisStep, NoService, vars, redisVars, Redis!vars,
                Redis!clientVars, Redis!serverVars
  <2> QED
    BY <1>3, <2>1, RedisPreserves DEF IInv
<1>4. ASSUME Transport = "none" PROVE panicked' = "no"
  BY <1>4 DEF IInv, Next, AmqpStep, RedisStep, NoService, vars
<1>5. ASSUME Transport # "rabbitmq" PROVE executed' = executed
  BY <1>5 DEF Next, AmqpStep, RedisStep, NoService, vars, amqpVars
<1>6. ASSUME Transport # "rabbitmq" PROVE ExecutedOnce'
  BY <1>5, <1>6 DEF IInv, ExecutedOnce, Amqp!ExecutedOnce
<1> QED
  BY <1>1, <1>2, <1>3, <1>4, <1>6 DEF IInv

LEMMA Inductive == Spec => []IInv
  BY Initially, Preserved, PTL DEF Spec

-----------------------------------------------------------------------------
\* The variables keep their types on either transport; over RabbitMQ that includes that no
\* call is entered into the table that Done has set to nil.
THEOREM TypeCorrect == Spec => []TypeOK
<1>1. IInv => TypeOK
  BY DEF IInv, AmqpInv, RedisInv, TypeOK
<1> QED
  BY <1>1, Inductive, PTL

\* No channel of a call is sent to or closed twice, by an answer, the scan and Done.
THEOREM NeverSettledTwice == Spec => []SettledOnce
<1>1. IInv => SettledOnce
  BY DEF IInv, AmqpInv, RedisInv, UnsettledInv, SettledOnce, Amqp!SettledOnce,
         Redis!SettledOnce
<1> QED
  BY <1>1, Inductive, PTL

\* No request carried by RabbitMQ is executed twice, however often the broker queues it
\* again.
THEOREM NeverExecutedTwice == Spec => []ExecutedOnce
<1>1. IInv => ExecutedOnce
  BY DEF IInv, AmqpInv, DeliveryInv, ExecutedOnce, Amqp!ExecutedOnce
<1> QED
  BY <1>1, Inductive, PTL
=============================================================================
