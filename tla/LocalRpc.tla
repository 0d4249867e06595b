------------------------------- MODULE LocalRpc -------------------------------
(***************************************************************************)
(* An RPC client and an RPC server of one process, as the application      *)
(* wires them (app.RegisterLocalClient): the caller's goroutine writes its *)
(* request to the server's mq_chan, and the server's callback goroutine    *)
(* writes the answer to the client's result_chan.  Each step is a step of  *)
(* LocalClient, of RpcServer, or of both where they meet.                  *)
(*                                                                         *)
(* On the interrupt app.Run destroys the modules, each of which closes its *)
(* RPC server, and closes the RPC clients after that.                      *)
(***************************************************************************)
EXTENDS Naturals, Sequences, FiniteSets

CONSTANTS Calls, NoReply, MaxCoroutine, CallbackCap, ResultCap, MayPanic, None,
          MayStop  \* whether the process may be interrupted

ASSUME LocalRpcAssumption ==
    /\ NoReply \subseteq Calls
    /\ MaxCoroutine \in Nat \ {0}
    /\ CallbackCap \in Nat \ {0}
    /\ ResultCap \in Nat \ {0}
    /\ MayPanic \in BOOLEAN
    /\ None \notin Calls
    /\ MayStop \in BOOLEAN

VARIABLES
    \* of the client
    caller, callInfos, call_chan, clientClosed, on_response, clientDone, sweep,
    \* of the server
    task, fn, ch, wg, callback_chan, serverClosed, on_call, on_callback,
    serverDone, counted, answers,
    \* of both
    result_chan, expired, panicked

\* The requests the server has taken and not answered.
inflight ==
    {c \in Calls : task[c] \notin {"idle", "sending", "refused", "dropped"} /\ answers[c] = 0}

Client == INSTANCE LocalClient
          WITH isClose <- clientClosed, done <- clientDone

Server == INSTANCE RpcServer
          WITH Reqs <- Calls, ReplyCap <- ResultCap,
               isClose <- serverClosed, done <- serverDone

clientVars == <<caller, callInfos, call_chan, clientClosed, on_response, clientDone,
                sweep>>
serverVars == <<task, fn, ch, wg, callback_chan, serverClosed, on_call, on_callback,
                serverDone, counted, answers>>
vars == <<clientVars, serverVars, result_chan, expired, panicked>>

Init == Server!Init /\ Client!Init

Alive == panicked = "no"

-----------------------------------------------------------------------------
(* The client on its own.  Each of its steps that takes from result_chan   *)
(* or closes it is a step of the server's environment.                     *)

CallerStep(c) ==
    /\ UNCHANGED serverVars
    /\ Client!Refuse(c) \/ Client!Check(c) \/ Client!Register(c)
       \/ Client!Receive(c) \/ Client!ReceiveClosed(c)

ResponseStep == UNCHANGED serverVars /\ Client!ResponseNext

\* A mutated form: the client is closed whatever the server does.
StopClientAnytime == UNCHANGED serverVars /\ Client!DoneStop

\* app.OnDestroy: the client is closed once the module's server is.
StopClient ==
    /\ serverDone = "finished"
    /\ UNCHANGED serverVars
    /\ Client!DoneStop

ClientDoneStep ==
    /\ UNCHANGED serverVars
    /\ \/ Client!DoneJoin \/ Client!DoneCloseResults \/ Client!DoneItems
       \/ Client!DoneReturn \/ \E c \in Calls : Client!DoneSweep(c)

\* The server on its own.
RunStep(c) == UNCHANGED clientVars /\ (Server!RunNext(c) \/ Server!FnNext(c))

CallbackStep == UNCHANGED clientVars /\ Server!CallbackNext

\* manager.Destroy, on the interrupt.
StopServer == MayStop /\ UNCHANGED clientVars /\ Server!DoneStop

ServerDoneStep ==
    /\ UNCHANGED clientVars
    /\ Server!DoneWait \/ Server!DoneDeafen \/ Server!DoneMute \/ Server!DoneClose

-----------------------------------------------------------------------------
(* Where they meet: WriteToRpcServer in the caller's goroutine.            *)

\* A mutated form: the request is written to a server that is closed.
SubmitUnchecked(c) ==
    /\ caller[c] = "writing"
    /\ Alive
    /\ task[c] = "idle"
    /\ task' = [task EXCEPT ![c] = "sending"]
    /\ UNCHANGED <<clientVars, fn, ch, wg, callback_chan, serverClosed, on_call,
                   on_callback, serverDone, counted, answers, result_chan, expired,
                   panicked>>

Submit(c) ==
    /\ caller[c] = "writing"
    /\ UNCHANGED clientVars
    /\ Server!Send(c)

SubmitRefused(c) == Server!Refuse(c) /\ Client!Ignored(c)

Take(c) == Server!Spawn(c) /\ Client!Accepted(c)

TakeExpired(c) == Server!Drop(c) /\ Client!Ignored(c)

Expire(c) == Server!Expire(c) /\ Client!Expire(c)

Next ==
    \/ \E c \in Calls : \/ CallerStep(c) \/ RunStep(c) \/ Expire(c)
                        \/ Submit(c) \/ SubmitRefused(c) \/ Take(c) \/ TakeExpired(c)
    \/ ResponseStep \/ CallbackStep
    \/ StopServer \/ ServerDoneStep
    \/ StopClient \/ ClientDoneStep

Spec == Init /\ [][Next]_vars

\* As in the components: a goroutine that can run does, time passes, and the select
\* of on_response_handle does not pass over Done for ever.  Nobody has to call, or to
\* interrupt the process; an interrupted one goes through its shutdown.
CallFairness ==
    /\ \A c \in Calls :
          /\ WF_vars(caller[c] # "idle" /\ CallerStep(c))
          /\ WF_vars(Expire(c))
          /\ WF_vars(Submit(c) \/ SubmitRefused(c) \/ Take(c) \/ TakeExpired(c))
          /\ WF_vars(UNCHANGED clientVars /\ Server!RunNext(c))
    /\ WF_vars(ResponseStep)
    /\ WF_vars(CallbackStep)

Fairness ==
    /\ CallFairness
    /\ WF_vars(ServerDoneStep)
    /\ WF_vars(StopClient \/ ClientDoneStep)
    /\ SF_vars(UNCHANGED serverVars /\ Client!DoneJoin)

\* While nobody stops the process the goroutines of its calls are all it needs.
CallSpec == Spec /\ CallFairness
FairSpec == Spec /\ Fairness

-----------------------------------------------------------------------------
\* The composition only does what each component does on its own: what is proved
\* of a component holds of it in here.
ImplementsClient == Client!Spec
ImplementsServer == Server!Spec

\* In the order in which the application shuts down, no answer meets a closed
\* result_chan, and no channel of a caller is closed twice.
NoAnswerToClosedClient == panicked \notin {"result_chan", "call_chan"}

\* A call that started comes to an end, answered or not: the deadline of a call
\* bounds how long its caller waits, whatever the function does and however the
\* answer, the deadline and the server's own timer race.
CallReturns ==
    \A c \in Calls :
        caller[c] = "checked" ~> caller[c] \in Client!Returned \/ ~Alive

\* As long as nobody stops the process every call that started comes to an end.
CallReturnsWhileUp ==
    \A c \in Calls :
        caller[c] = "checked" ~> \/ caller[c] \in Client!Returned
                                \/ ~Alive
                                \/ serverDone # "idle"
=============================================================================
