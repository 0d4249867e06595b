------------------------------ MODULE RemoteRpc ------------------------------
(***************************************************************************)
(* rpcClient in front of a server of another process: it carries every     *)
(* call of a server on the first transport it was given, RabbitMQ before   *)
(* Redis, and closes each of them when the application stops.              *)
(***************************************************************************)
EXTENDS Naturals

CONSTANTS Calls, NoReply, MaxLosses

VARIABLES
    configured,   \* the transports app.OnInit or the router gave the client
    \* of the client that carries the calls
    caller, callInfos, call_chan, expired, isClose, done, panicked,
    \* of RabbitMQ
    callback_queue, responding, link, shutdown, losses, request, fetched, executed, answer,
    request_consumer,
    \* of Redis
    matched, scan, timing, popping, sweep, missed, call_queue, callback_list, server, running

Amqp == INSTANCE AmqpRpc
Redis == INSTANCE RedisRpc

amqpVars == <<callback_queue, responding, link, shutdown, losses, request, fetched, executed,
              answer, request_consumer>>
redisVars == <<matched, scan, timing, popping, sweep, missed, call_queue, callback_list,
               server, running>>
vars == <<configured, caller, callInfos, call_chan, expired, isClose, done, panicked,
          amqpVars, redisVars>>

Transport == IF "rabbitmq" \in configured THEN "rabbitmq"
             ELSE IF "redis" \in configured THEN "redis" ELSE "none"

Init ==
    /\ configured \in {{}, {"redis"}, {"rabbitmq", "redis"}}
    /\ Amqp!Init
    /\ Redis!Init

AmqpStep == Transport = "rabbitmq" /\ Amqp!Next /\ UNCHANGED <<configured, redisVars>>

RedisStep == Transport = "redis" /\ Redis!Next /\ UNCHANGED <<configured, amqpVars>>

\* CallArgs, SyncCallArgs and CallArgsNR without a transport.
NoService(c) ==
    /\ Transport = "none"
    /\ caller[c] = "idle"
    /\ caller' = [caller EXCEPT ![c] = "error"]
    /\ UNCHANGED <<configured, callInfos, call_chan, expired, isClose, done, panicked,
                   amqpVars, redisVars>>

Next == AmqpStep \/ RedisStep \/ \E c \in Calls : NoService(c)

Spec == Init /\ [][Next]_vars

\* The goroutine of a started call, the goroutines of the client and Done go on when they
\* can, and time passes. The select of Redis's on_timeout_handle does not pass over Done
\* for ever. Nothing is assumed of the broker, of Redis and of the server.
Fairly(amqp, redis) ==
    \/ Transport = "rabbitmq" /\ amqp /\ UNCHANGED <<configured, redisVars>>
    \/ Transport = "redis" /\ redis /\ UNCHANGED <<configured, amqpVars>>

Fairness ==
    /\ \A c \in Calls :
          /\ WF_vars(Fairly(Amqp!CallerNext(c), Redis!CallerNext(c)))
          /\ WF_vars(Fairly(Amqp!Expire(c), Redis!Expire(c)))
          /\ WF_vars(Fairly(FALSE, Redis!ScanOne(c)))
    /\ WF_vars(Fairly(Amqp!Scan, Redis!Copy))
    /\ WF_vars(Fairly(Amqp!DoneNext, Redis!DoneNext))
    /\ SF_vars(Fairly(FALSE, Redis!DoneJoin))

FairSpec == Spec /\ Fairness

-----------------------------------------------------------------------------
\* The variables keep their types.
TypeOK == /\ Transport = "rabbitmq" => Amqp!TypeOK
          /\ Transport = "redis" => Redis!TypeOK

\* Whichever transport carries them, no call is settled twice: no channel of a caller
\* is sent to or closed again by an answer, a deadline or Done.
SettledOnce == Amqp!SettledOnce /\ Redis!SettledOnce

\* Over RabbitMQ, a request is executed at most once, however connections are lost
\* between its delivery and its acknowledgement.
ExecutedOnce == Amqp!ExecutedOnce

\* A call that passed the client's check returns and leaves the table. Over RabbitMQ
\* nothing but the death of the process is excepted; over Redis also a call that
\* passed the check before Done and registered when Done had taken its copy of the table.
CallEnds ==
    \A c \in Calls :
        caller[c] = "checked" ~> \/ Amqp!Ended(c)
                                 \/ Transport = "redis" /\ Redis!Ended(c)
=============================================================================
