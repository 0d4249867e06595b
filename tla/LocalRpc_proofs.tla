---------------------------- MODULE LocalRpc_proofs ----------------------------
(***************************************************************************)
(* Proofs about LocalRpc, for any number of calls and any capacities: the  *)
(* composition implements each of its two components, and the order of the *)
(* shutdown keeps the answers away from a closed client.  What the modules *)
(* RpcServer_proofs and LocalClient_proofs prove is used here under the    *)
(* substitutions of the composition (ServerP, ClientP).                    *)
(***************************************************************************)
EXTENDS TLAPS, LocalRpc

ServerP == INSTANCE RpcServer_proofs
           WITH Reqs <- Calls, ReplyCap <- ResultCap,
                isClose <- serverClosed, done <- serverDone

ClientP == INSTANCE LocalClient_proofs
           WITH isClose <- clientClosed, done <- clientDone

\* result_chan is open until the client's Done closes it.
ResultInv ==
    /\ result_chan \in [buf : Seq(Calls), open : BOOLEAN]
    /\ clientDone \in {"idle", "stop", "joined"} => result_chan.open

\* The client's Done begins after the server's has ended, and that one ended the
\* goroutine that sends the answers.
ShutdownInv ==
    /\ clientDone # "idle" => serverDone = "finished"
    /\ serverDone \in {"mute", "finished"} => on_callback.at = "exit"
    /\ panicked # "result_chan"

-----------------------------------------------------------------------------
(* Server and ServerP, and Client and ClientP, are the same modules: the   *)
(* second of each adds only definitions and proofs.                        *)

LEMMA SameServer == Server!Spec => ServerP!Spec
<1>1. Server!Init => ServerP!Init
  BY DEF Server!Init, ServerP!Init, Server!Selecting, ServerP!Selecting
<1>2. [Server!Next]_(Server!vars) => [ServerP!Next]_(ServerP!vars)
  BY DEF Server!engineVars, ServerP!engineVars, Server!serverVars, ServerP!serverVars,
       Server!vars, ServerP!vars, Server!Selecting, ServerP!Selecting, Server!Alive,
       ServerP!Alive, Server!Moves, ServerP!Moves, Server!Counted, ServerP!Counted,
       Server!Refuse, ServerP!Refuse, Server!Send, ServerP!Send, Server!Expire,
       ServerP!Expire, Server!CallNext, ServerP!CallNext, Server!Drop, ServerP!Drop,
       Server!Spawn, ServerP!Spawn, Server!RunNext, ServerP!RunNext, Server!Reject,
       ServerP!Reject, Server!Admit, ServerP!Admit, Server!Wait, ServerP!Wait,
       Server!Enter, ServerP!Enter, Server!FailEarly, ServerP!FailEarly, Server!StartFn,
       ServerP!StartFn, Server!TakeOut, ServerP!TakeOut, Server!TimeOut,
       ServerP!TimeOut, Server!PutOutcome, ServerP!PutOutcome, Server!PutResult,
       ServerP!PutResult, Server!PutPanics, ServerP!PutPanics, Server!Leave,
       ServerP!Leave, Server!Finish, ServerP!Finish, Server!FnNext, ServerP!FnNext,
       Server!FnReturns, ServerP!FnReturns, Server!FnPanics, ServerP!FnPanics,
       Server!CallbackNext, ServerP!CallbackNext, Server!TakeCallback,
       ServerP!TakeCallback, Server!CallbackPanics, ServerP!CallbackPanics,
       Server!Callback, ServerP!Callback, Server!DoneNext, ServerP!DoneNext,
       Server!DoneStop, ServerP!DoneStop, Server!DoneWait, ServerP!DoneWait,
       Server!DoneDeafen, ServerP!DoneDeafen, Server!DoneMute, ServerP!DoneMute,
       Server!DoneClose, ServerP!DoneClose, Server!ClientTakes, ServerP!ClientTakes,
       Server!ClientCloses, ServerP!ClientCloses, Server!ClientDies, ServerP!ClientDies,
       Server!Next, ServerP!Next
<1>3. QED
  BY <1>1, <1>2, PTL DEF Server!Spec, ServerP!Spec

LEMMA SameClient == Client!Spec => ClientP!Spec
<1>1. Client!Init => ClientP!Init
  BY DEF Client!Init, ClientP!Init, Client!Selecting, ClientP!Selecting
<1>2. [Client!Next]_(Client!vars) => [ClientP!Next]_(ClientP!vars)
  BY DEF Client!clientVars, ClientP!clientVars, Client!vars, ClientP!vars,
       Client!Selecting, ClientP!Selecting, Client!Alive, ClientP!Alive,
       Client!Returned, ClientP!Returned, Client!CallerNext, ClientP!CallerNext,
       Client!Refuse, ClientP!Refuse, Client!Check, ClientP!Check, Client!Register,
       ClientP!Register, Client!Accepted, ClientP!Accepted, Client!Ignored,
       ClientP!Ignored, Client!WriteReturns, ClientP!WriteReturns, Client!AfterWrite,
       ClientP!AfterWrite, Client!Receive, ClientP!Receive, Client!ReceiveClosed,
       ClientP!ReceiveClosed, Client!Expire, ClientP!Expire, Client!ResponseNext,
       ClientP!ResponseNext, Client!TakeResult, ClientP!TakeResult, Client!Lookup,
       ClientP!Lookup, Client!TimerFires, ClientP!TimerFires, Client!Scan, ClientP!Scan,
       Client!Proceed, ClientP!Proceed, Client!Deliver, ClientP!Deliver,
       Client!CloseDelivered, ClientP!CloseDelivered, Client!CloseChan,
       ClientP!CloseChan, Client!DoneNext, ClientP!DoneNext, Client!DoneStop,
       ClientP!DoneStop, Client!DoneJoin, ClientP!DoneJoin, Client!DoneCloseResults,
       ClientP!DoneCloseResults, Client!DoneItems, ClientP!DoneItems, Client!DoneReturn,
       ClientP!DoneReturn, Client!DoneSweep, ClientP!DoneSweep, Client!ServerNext,
       ClientP!ServerNext, Client!ServerReplies, ClientP!ServerReplies,
       Client!ServerPanics, ClientP!ServerPanics, Client!ServerForgets,
       ClientP!ServerForgets, Client!ServerDies, ClientP!ServerDies, Client!Next,
       ClientP!Next
<1>3. QED
  BY <1>1, <1>2, PTL DEF Client!Spec, ClientP!Spec

-----------------------------------------------------------------------------
(* The server.                                                             *)

LEMMA InitResult == Init => ResultInv
<1> SUFFICES ASSUME Init PROVE ResultInv
    OBVIOUS
<1>1. result_chan = [buf |-> <<>>, open |-> TRUE]
    BY DEF Init, Server!Init
<1>2. QED
    BY <1>1 DEF ResultInv

LEMMA StepResult == ResultInv /\ [Next]_vars => ResultInv'
<1> SUFFICES ASSUME ResultInv, [Next]_vars PROVE ResultInv'
    OBVIOUS
<1> USE DEF ResultInv
<1>1. CASE UNCHANGED <<result_chan, clientDone>>
  BY <1>1
<1>2. CASE Client!TakeResult
  <2>1. /\ result_chan.buf # <<>> /\ result_chan' = [result_chan EXCEPT !.buf = Tail(@)]
        /\ clientDone' = clientDone
    BY <1>2 DEF Client!TakeResult
  <2>2. Tail(result_chan.buf) \in Seq(Calls)
    BY <2>1
  <2>3. QED
    BY <2>1, <2>2
<1>3. ASSUME NEW c \in Calls, Server!Callback(c), UNCHANGED clientVars PROVE ResultInv'
  <2>1. /\ result_chan' = [result_chan EXCEPT !.buf = Append(@, c)]
        /\ clientDone' = clientDone
    BY <1>3 DEF Server!Callback, clientVars
  <2>2. Append(result_chan.buf, c) \in Seq(Calls)
    OBVIOUS
  <2>3. QED
    BY <2>1, <2>2
<1>4. CASE Client!DoneCloseResults
  BY <1>4 DEF Client!DoneCloseResults
<1>5. CASE ClientDoneStep /\ ~Client!DoneCloseResults
  BY <1>5 DEF ClientDoneStep, Client!DoneJoin, Client!DoneItems, Client!DoneReturn,
         Client!DoneSweep
<1>6. CASE StopClient
  BY <1>6 DEF StopClient, Client!DoneStop
<1>7. CASE CallbackStep
  <2>1. CASE Server!TakeCallback \/ Server!CallbackPanics
    BY <1>1, <1>7, <2>1 DEF CallbackStep, clientVars, Server!TakeCallback,
           Server!CallbackPanics
  <2>2. QED
    BY <1>3, <1>7, <2>1 DEF CallbackStep, Server!CallbackNext
<1>8. CASE ResponseStep /\ ~Client!TakeResult
  BY <1>1, <1>8 DEF ResponseStep, Client!ResponseNext, Client!Lookup, Client!TimerFires,
         Client!Scan, Client!Deliver, Client!CloseDelivered
<1>9. CASE StopServer \/ ServerDoneStep
  BY <1>1, <1>9 DEF StopServer, ServerDoneStep, clientVars, Server!DoneStop,
         Server!DoneWait, Server!DoneDeafen, Server!DoneMute, Server!DoneClose
<1>10. ASSUME NEW c \in Calls, CallerStep(c) PROVE ResultInv'
  BY <1>1, <1>10 DEF CallerStep, Client!Refuse, Client!Check, Client!Register,
         Client!Receive, Client!ReceiveClosed
<1>11. ASSUME NEW c \in Calls, RunStep(c) PROVE ResultInv'
  <2>1. UNCHANGED result_chan
    BY <1>11 DEF RunStep, Server!RunNext, Server!FnNext, Server!Reject, Server!Admit,
           Server!Wait, Server!Enter, Server!FailEarly, Server!StartFn, Server!TakeOut,
           Server!TimeOut, Server!PutOutcome, Server!PutResult, Server!PutPanics,
           Server!Leave, Server!Finish, Server!FnReturns, Server!FnPanics
  <2>2. QED
    BY <1>1, <1>11, <2>1 DEF RunStep, clientVars
<1>12. ASSUME NEW c \in Calls,
              Submit(c) \/ SubmitRefused(c) \/ Take(c) \/ TakeExpired(c) \/ Expire(c)
       PROVE  ResultInv'
  BY <1>1, <1>12 DEF Submit, SubmitRefused, Take, TakeExpired, Expire, clientVars,
         Server!Send, Client!Ignored, Client!Accepted, Client!WriteReturns,
         Client!Expire, Client!clientVars
<1>13. CASE UNCHANGED vars
  BY <1>1, <1>13 DEF vars, clientVars
<1>14. QED
  BY <1>2, <1>4, <1>5, <1>6, <1>7, <1>8, <1>9, <1>10, <1>11, <1>12, <1>13 DEF Next

LEMMA StepServer == ResultInv /\ [Next]_vars => [Server!Next]_(Server!vars)
<1> SUFFICES ASSUME ResultInv, [Next]_vars PROVE [Server!Next]_(Server!vars)
    OBVIOUS
<1> DEFINE Stutter == UNCHANGED <<serverVars, result_chan, expired, panicked>>
<1>1. CASE Stutter
  BY <1>1 DEF serverVars, Server!vars, Server!serverVars, Server!engineVars
<1>2. ASSUME NEW c \in Calls, CallerStep(c) PROVE Stutter
  BY <1>2 DEF CallerStep, Client!Refuse, Client!Check, Client!Register,
         Client!Receive, Client!ReceiveClosed
<1>3. CASE ResponseStep
  <2>1. CASE Client!TakeResult
    <3>1. Server!ClientTakes
      BY <1>3, <2>1 DEF ResponseStep, Client!TakeResult, Server!ClientTakes, serverVars,
             Server!serverVars, Server!engineVars, Client!Alive, Server!Alive
    <3>2. QED
      BY <3>1 DEF Server!Next
  <2>2. CASE Client!Lookup \/ Client!TimerFires \/ \E c \in Calls : Client!Scan(c)
    BY <1>1, <1>3, <2>2 DEF ResponseStep, Client!Lookup, Client!TimerFires, Client!Scan
  <2>3. ASSUME NEW c \in Calls, Client!Deliver(c) \/ Client!CloseDelivered(c)
        PROVE  Server!ClientDies \/ Stutter
    BY <1>3, <2>3 DEF ResponseStep, Client!Deliver, Client!CloseDelivered,
           Client!CloseChan, Server!ClientDies, serverVars, Server!serverVars,
           Server!engineVars, Client!Alive, Server!Alive
  <2>4. QED
    BY <1>1, <1>3, <2>1, <2>2, <2>3 DEF ResponseStep, Client!ResponseNext, Server!Next
<1>4. CASE StopClient
  BY <1>1, <1>4 DEF StopClient, Client!DoneStop
<1>5. CASE ClientDoneStep
  <2>1. CASE Client!DoneCloseResults
    <3>1. Server!ClientCloses
      BY <1>5, <2>1 DEF ClientDoneStep, Client!DoneCloseResults, Server!ClientCloses,
             serverVars, Server!serverVars, Server!engineVars, Client!Alive,
             Server!Alive, ResultInv
    <3>2. QED
      BY <3>1 DEF Server!Next
  <2>2. ASSUME NEW c \in Calls, Client!DoneSweep(c) PROVE Server!ClientDies \/ Stutter
    BY <1>5, <2>2 DEF ClientDoneStep, Client!DoneSweep, Client!CloseChan,
           Server!ClientDies, serverVars, Server!serverVars, Server!engineVars,
           Client!Alive, Server!Alive
  <2>3. CASE Client!DoneJoin \/ Client!DoneItems \/ Client!DoneReturn
    BY <1>1, <1>5, <2>3 DEF ClientDoneStep, Client!DoneJoin, Client!DoneItems,
           Client!DoneReturn
  <2>4. QED
    BY <1>1, <1>5, <2>1, <2>2, <2>3 DEF ClientDoneStep, Server!Next
<1>6. ASSUME NEW c \in Calls,
             \/ RunStep(c) \/ Submit(c) \/ SubmitRefused(c)
             \/ Take(c) \/ TakeExpired(c) \/ Expire(c)
      PROVE  Server!Next
  BY <1>6 DEF RunStep, Submit, SubmitRefused, Take, TakeExpired, Expire, Server!Next,
         Server!CallNext
<1>7. CASE CallbackStep \/ StopServer \/ ServerDoneStep
  BY <1>7 DEF CallbackStep, StopServer, ServerDoneStep, Server!Next, Server!DoneNext
<1>8. CASE UNCHANGED vars
  BY <1>1, <1>8 DEF vars
<1>9. QED
  BY <1>1, <1>2, <1>3, <1>4, <1>5, <1>6, <1>7, <1>8 DEF Next

\* Every step of the composition is a step of the server as it is on its own: what the
\* client does to result_chan is what the server's environment may do.
THEOREM RefinesServer == Spec => ImplementsServer
<1>1. Init => Server!Init
  BY DEF Init
<1>2. QED
  BY <1>1, InitResult, StepResult, StepServer, PTL DEF Spec, ImplementsServer, Server!Spec

\* What RpcServer_proofs says of the server holds of it in the composition.
LEMMA ServerInvariant == Spec => []ServerP!IInv
<1>1. ServerP!Spec => []ServerP!IInv
  BY ServerP!InvariantHolds, LocalRpcAssumption
<1>2. QED
  BY <1>1, SameServer, RefinesServer, PTL DEF ImplementsServer

-----------------------------------------------------------------------------
(* The client.                                                             *)

LEMMA SameInflight ==
    ASSUME task' = task, answers' = answers
    PROVE  inflight' = inflight
BY DEF inflight

\* A request that moves between two stages inside the server stays in flight, and so
\* does one that moves between two outside it.
LEMMA MovesInflight ==
    ASSUME ServerP!TypeOK, NEW c \in Calls, NEW from, NEW to, Server!Moves(c, from, to),
           from \in {"idle", "sending", "refused", "dropped"} <=>
               to \in {"idle", "sending", "refused", "dropped"},
           answers' = answers
    PROVE  inflight' = inflight
<1>1. \A q \in Calls : task'[q] \in {"idle", "sending", "refused", "dropped"} <=>
                       task[q] \in {"idle", "sending", "refused", "dropped"}
  BY DEF ServerP!TypeOK, Server!Moves
<1>2. QED
  BY <1>1 DEF inflight

LEMMA RunIsIdle ==
    ASSUME ServerP!TypeOK, NEW c \in Calls, RunStep(c)
    PROVE  Client!ServerDies \/ UNCHANGED Client!vars
<1> DEFINE Rest == UNCHANGED <<answers, result_chan, expired, panicked>>
<1>1. UNCHANGED clientVars
  BY DEF RunStep
<1>2. CASE Server!PutPanics(c) \/ Server!FnPanics(c)
  <2>1. /\ task' = task /\ answers' = answers
        /\ UNCHANGED <<result_chan, expired>>
        /\ panicked = "no" /\ panicked' \in {"callback_chan", "function"}
    BY <1>2 DEF Server!PutPanics, Server!FnPanics, Server!serverVars, Server!engineVars,
           Server!Alive
  <2>2. QED
    BY <1>1, <2>1, SameInflight DEF Client!ServerDies, Client!Alive, Client!clientVars,
           clientVars
<1>3. CASE Server!FnReturns(c)
  <2>1. task' = task /\ Rest
    BY <1>3 DEF Server!FnReturns
  <2>2. QED
    BY <1>1, <2>1, SameInflight DEF Client!vars, Client!clientVars, clientVars
<1>4. ASSUME \/ Server!Reject(c) \/ Server!Admit(c) \/ Server!Wait(c) \/ Server!Enter(c)
             \/ Server!FailEarly(c) \/ Server!StartFn(c) \/ Server!TakeOut(c)
             \/ Server!TimeOut(c) \/ Server!PutOutcome(c) \/ Server!Leave(c)
             \/ Server!Finish(c)
      PROVE  UNCHANGED Client!vars
  <2> DEFINE Inside == {"spawned", "rejecting", "waiting", "slot", "counted", "running",
                        "result", "deferred", "releasing", "ended"}
  <2>1. Rest /\ \E from, to \in Inside : Server!Moves(c, from, to)
    BY <1>4 DEF Server!Reject, Server!Admit, Server!Wait, Server!Enter,
           Server!FailEarly, Server!StartFn, Server!TakeOut, Server!TimeOut,
           Server!PutOutcome, Server!PutResult, Server!Leave, Server!Finish
  <2>2. inflight' = inflight
    BY <2>1, MovesInflight
  <2>3. QED
    BY <1>1, <2>1, <2>2 DEF Client!vars, Client!clientVars, clientVars
<1>5. QED
  BY <1>2, <1>3, <1>4 DEF RunStep, Server!RunNext, Server!FnNext

LEMMA CallbackIsReply ==
    ASSUME ServerP!IInv, CallbackStep
    PROVE  Client!Next \/ UNCHANGED Client!vars
<1>1. UNCHANGED clientVars
  BY DEF CallbackStep
<1>2. CASE Server!TakeCallback
  <2>1. task' = task /\ answers' = answers /\ UNCHANGED <<result_chan, expired, panicked>>
    BY <1>2 DEF Server!TakeCallback
  <2>2. QED
    BY <1>1, <2>1, SameInflight DEF Client!vars, Client!clientVars, clientVars
<1>3. ASSUME on_callback.at = "callback" PROVE on_callback.req \in inflight \ NoReply
  BY <1>3 DEF ServerP!IInv, ServerP!QueueInv, ServerP!Answered, inflight
<1>4. CASE Server!CallbackPanics
  <2>1. /\ task' = task /\ answers' = answers /\ UNCHANGED <<result_chan, expired>>
        /\ panicked = "no" /\ ~result_chan.open /\ panicked' = "result_chan"
        /\ on_callback.at = "callback"
    BY <1>4 DEF Server!CallbackPanics, Server!serverVars, Server!engineVars,
           Server!Alive
  <2>2. Client!ServerPanics(on_callback.req)
    BY <1>1, <1>3, <2>1, SameInflight DEF Client!ServerPanics, Client!Alive,
           Client!clientVars, clientVars
  <2>3. on_callback.req \in Calls
    BY <1>3, <2>1 DEF inflight
  <2>4. QED
    BY <2>2, <2>3 DEF Client!Next, Client!ServerNext
<1>5. ASSUME NEW c \in Calls, Server!Callback(c) PROVE Client!Next
  <2>1. /\ on_callback.at = "callback" /\ on_callback.req = c
        /\ panicked = "no" /\ result_chan.open /\ Len(result_chan.buf) < ResultCap
        /\ result_chan' = [result_chan EXCEPT !.buf = Append(@, c)]
        /\ answers' = [answers EXCEPT ![c] = @ + 1] /\ task' = task
        /\ UNCHANGED <<expired, panicked>>
    BY <1>5 DEF Server!Callback, Server!engineVars, Server!Alive
  <2>2. c \in inflight \ NoReply
    BY <1>3, <2>1
  <2>3. /\ answers \in [Calls -> Nat]
        /\ answers[c] = 0
    BY <2>2 DEF ServerP!IInv, ServerP!TypeOK, inflight
  <2>4. /\ answers'[c] # 0
        /\ \A q \in Calls : q # c => answers'[q] = answers[q]
    BY <2>1, <2>3
  <2>5. inflight' = inflight \ {c}
    BY <2>1, <2>4 DEF inflight
  <2>6. Client!ServerReplies(c)
    BY <1>1, <2>1, <2>2, <2>5 DEF Client!ServerReplies, Client!Alive, Client!clientVars,
           clientVars
  <2>7. QED
    BY <2>6 DEF Client!Next, Client!ServerNext
<1>6. QED
  BY <1>2, <1>4, <1>5 DEF CallbackStep, Server!CallbackNext

LEMMA StepClient == ServerP!IInv /\ [Next]_vars => [Client!Next]_(Client!vars)
<1> SUFFICES ASSUME ServerP!IInv, [Next]_vars PROVE [Client!Next]_(Client!vars)
    OBVIOUS
<1>1. ASSUME NEW c \in Calls, CallerStep(c) PROVE Client!Next
  BY <1>1 DEF CallerStep, Client!Next, Client!CallerNext
<1>2. CASE ResponseStep
  BY <1>2 DEF ResponseStep, Client!Next
<1>3. CASE StopClient
  BY <1>3 DEF StopClient, Client!Next, Client!DoneNext
<1>4. CASE ClientDoneStep
  BY <1>4 DEF ClientDoneStep, Client!Next, Client!DoneNext
<1>5. ASSUME NEW c \in Calls, SubmitRefused(c) \/ Take(c) \/ TakeExpired(c) \/ Expire(c)
      PROVE  Client!Next
  BY <1>5 DEF SubmitRefused, Take, TakeExpired, Expire, Client!Next, Client!CallerNext
<1>6. ASSUME NEW c \in Calls, Submit(c) PROVE UNCHANGED Client!vars
  <2>1. /\ Server!Moves(c, "idle", "sending") /\ answers' = answers
        /\ UNCHANGED <<clientVars, result_chan, expired, panicked>>
    BY <1>6 DEF Submit, Server!Send
  <2>2. inflight' = inflight
    BY <2>1, MovesInflight DEF ServerP!IInv
  <2>3. QED
    BY <2>1, <2>2 DEF Client!vars, Client!clientVars, clientVars
<1>7. ASSUME NEW c \in Calls, RunStep(c) PROVE [Client!Next]_(Client!vars)
  BY <1>7, RunIsIdle DEF ServerP!IInv, Client!Next
<1>8. CASE CallbackStep
  BY <1>8, CallbackIsReply
<1>9. CASE StopServer \/ ServerDoneStep
  <2>1. task' = task /\ answers' = answers
        /\ UNCHANGED <<clientVars, result_chan, expired, panicked>>
    BY <1>9 DEF StopServer, ServerDoneStep, Server!DoneStop, Server!DoneWait,
           Server!DoneDeafen, Server!DoneMute, Server!DoneClose, Server!engineVars
  <2>2. QED
    BY <2>1, SameInflight DEF Client!vars, Client!clientVars, clientVars
<1>10. CASE UNCHANGED vars
  BY <1>10, SameInflight DEF vars, clientVars, serverVars, Client!vars, Client!clientVars
<1>11. QED
  BY <1>1, <1>2, <1>3, <1>4, <1>5, <1>6, <1>7, <1>8, <1>9, <1>10 DEF Next

\* Every step of the composition is a step of the client as it is on its own: the
\* server answers a request at most once, only after it took it off mq_chan, and only
\* when the caller wants an answer.
THEOREM RefinesClient == Spec => ImplementsClient
<1>1. Init => Client!Init
  BY DEF Init
<1>2. QED
  BY <1>1, ServerInvariant, StepClient, PTL DEF Spec, ImplementsClient, Client!Spec

-----------------------------------------------------------------------------
(* The order of the shutdown.                                              *)

LEMMA InitShutdown == Init => ShutdownInv
<1> SUFFICES ASSUME Init PROVE ShutdownInv
    OBVIOUS
<1>1. clientDone = "idle" /\ serverDone = "idle" /\ panicked = "no"
  BY DEF Init, Server!Init, Client!Init
<1>2. QED
  BY <1>1 DEF ShutdownInv

LEMMA StepShutdown ==
    ServerP!TypeOK /\ ResultInv /\ ShutdownInv /\ [Next]_vars => ShutdownInv'
<1> SUFFICES ASSUME ServerP!TypeOK, ResultInv, ShutdownInv, [Next]_vars
             PROVE  ShutdownInv'
    OBVIOUS
<1> USE DEF ShutdownInv
<1> DEFINE Same == UNCHANGED <<clientDone, serverDone, on_callback>>
<1>1. ASSUME Same, panicked' # "result_chan" PROVE ShutdownInv'
  BY <1>1
<1>2. ASSUME NEW c \in Calls, CallerStep(c) PROVE ShutdownInv'
  BY <1>1, <1>2 DEF CallerStep, serverVars, Client!Refuse, Client!Check,
         Client!Register, Client!Receive, Client!ReceiveClosed
<1>3. CASE ResponseStep
  BY <1>1, <1>3 DEF ResponseStep, serverVars, Client!ResponseNext, Client!TakeResult,
         Client!Lookup, Client!TimerFires, Client!Scan, Client!Deliver,
         Client!CloseDelivered, Client!CloseChan
<1>4. CASE StopClient
  BY <1>4 DEF StopClient, serverVars, Client!DoneStop
<1>5. CASE ClientDoneStep
  <2>1. clientDone # "idle" /\ panicked' # "result_chan"
    BY <1>5 DEF ClientDoneStep, Client!DoneJoin, Client!DoneCloseResults,
           Client!DoneItems, Client!DoneReturn, Client!DoneSweep, Client!CloseChan
  <2>2. QED
    BY <1>5, <2>1 DEF ClientDoneStep, serverVars
<1>6. ASSUME NEW c \in Calls, RunStep(c) PROVE ShutdownInv'
  <2>1. CASE Server!PutPanics(c) \/ Server!FnPanics(c)
    BY <1>1, <1>6, <2>1 DEF RunStep, clientVars, Server!PutPanics, Server!FnPanics,
           Server!serverVars
  <2>2. CASE Server!Leave(c)
    <3>1. /\ UNCHANGED <<on_callback, panicked>>
          /\ serverDone' = IF serverDone = "waiting" /\ wg' = 0 THEN "drained" ELSE serverDone
      BY <2>2 DEF Server!Leave
    <3>2. UNCHANGED clientDone
      BY <1>6 DEF RunStep, clientVars
    <3>3. CASE serverDone = "waiting" /\ wg' = 0
      BY <3>1, <3>2, <3>3
    <3>4. CASE ~(serverDone = "waiting" /\ wg' = 0)
      BY <3>1, <3>2, <3>4
    <3>5. QED
      BY <3>3, <3>4
  <2>3. QED
    BY <1>1, <1>6, <2>1, <2>2 DEF RunStep, clientVars, Server!RunNext, Server!FnNext,
           Server!Reject, Server!Admit, Server!Wait, Server!Enter, Server!FailEarly,
           Server!StartFn, Server!TakeOut, Server!TimeOut, Server!PutOutcome,
           Server!PutResult, Server!Finish, Server!FnReturns
<1>7. CASE CallbackStep
  <2>1. on_callback.at # "exit"
    BY <1>7 DEF CallbackStep, Server!CallbackNext, Server!TakeCallback,
           Server!Callback, Server!CallbackPanics
  <2>2. clientDone = "idle" /\ result_chan.open
    BY <2>1 DEF ResultInv
  <2>3. UNCHANGED <<clientDone, serverDone>> /\ panicked' # "result_chan"
    BY <1>7, <2>2 DEF CallbackStep, clientVars, Server!CallbackNext,
           Server!TakeCallback, Server!Callback, Server!CallbackPanics,
           Server!serverVars
  <2>4. QED
    BY <2>1, <2>3
<1>8. CASE StopServer
  BY <1>8 DEF StopServer, clientVars, Server!DoneStop
<1>9. CASE ServerDoneStep
  <2>1. CASE Server!DoneWait \/ Server!DoneDeafen
    BY <1>9, <2>1 DEF ServerDoneStep, clientVars, Server!DoneWait, Server!DoneDeafen
  <2>2. CASE Server!DoneMute
    BY <1>9, <2>2 DEF ServerDoneStep, clientVars, Server!DoneMute, ServerP!TypeOK
  <2>3. CASE Server!DoneClose
    BY <1>9, <2>3 DEF ServerDoneStep, clientVars, Server!DoneClose
  <2>4. QED
    BY <1>9, <2>1, <2>2, <2>3 DEF ServerDoneStep
<1>10. ASSUME NEW c \in Calls,
              Submit(c) \/ SubmitRefused(c) \/ Take(c) \/ TakeExpired(c) \/ Expire(c)
       PROVE  ShutdownInv'
  BY <1>1, <1>10 DEF Submit, SubmitRefused, Take, TakeExpired, Expire, clientVars,
         Server!Send, Server!Refuse, Server!Spawn, Server!Drop, Server!Expire,
         Server!serverVars, Client!Ignored, Client!Accepted, Client!WriteReturns,
         Client!Expire, Client!clientVars
<1>11. CASE UNCHANGED vars
  BY <1>1, <1>11 DEF vars, clientVars, serverVars
<1>12. QED
  BY <1>2, <1>3, <1>4, <1>5, <1>6, <1>7, <1>8, <1>9, <1>10, <1>11 DEF Next

\* In the order in which the application shuts down, the server sends no answer to the
\* client's closed result_chan; and no channel of a caller is closed twice, which the
\* composition has from the client.
THEOREM ShutdownIsSafe == Spec => []NoAnswerToClosedClient
<1>1. Spec => []ResultInv
  BY InitResult, StepResult, PTL DEF Spec
<1>2. ServerP!IInv => ServerP!TypeOK
  BY DEF ServerP!IInv
<1>3. Spec => []ShutdownInv
  BY <1>1, <1>2, ServerInvariant, InitShutdown, StepShutdown, PTL DEF Spec
<1>4. ClientP!Spec => []ClientP!IInv
  BY ClientP!InvariantHolds, LocalRpcAssumption
<1>5. ClientP!IInv /\ ShutdownInv => NoAnswerToClosedClient
  BY DEF ClientP!IInv, ShutdownInv, NoAnswerToClosedClient
<1>6. QED
  BY <1>3, <1>4, <1>5, RefinesClient, SameClient, PTL DEF ImplementsClient

==============================================================================
