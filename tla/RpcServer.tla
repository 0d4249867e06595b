------------------------------ MODULE RpcServer ------------------------------
(***************************************************************************)
(* rpc/base/rpc_server.go and rpc/base/local_server.go: the engine that    *)
(* runs the requests of one module.  on_call_handle takes requests from    *)
(* mq_chan and starts runFunc in a goroutine each; runFunc waits for one   *)
(* of the slots of ch, runs the registered function in a goroutine of its  *)
(* own against the request's deadline, and puts the result on              *)
(* callback_chan; on_callback_handle sends the results back.  Done stops   *)
(* it all.  The counter `executing`, which the server never reads, is left *)
(* out.                                                                    *)
(*                                                                         *)
(* A function registered with RegisterGo runs _runFunc in yet another      *)
(* goroutine; runFunc has nothing left to do by then, so both kinds take   *)
(* the same steps.  A function may panic only when MayPanic is TRUE.       *)
(***************************************************************************)
EXTENDS Naturals, Sequences, FiniteSets

CONSTANTS Reqs,          \* the requests sent to this server
          NoReply,       \* those that want no answer (RpcInfo.Reply is false)
          MaxCoroutine,  \* capacity of ch (at least 100 in the code)
          CallbackCap,   \* capacity of callback_chan (1 in the code)
          ReplyCap,      \* capacity of the channel the answers go to
          MayPanic,      \* whether a registered function may panic
          None           \* no request

ASSUME RpcServerAssumption ==
    /\ NoReply \subseteq Reqs
    /\ MaxCoroutine \in Nat \ {0}
    /\ CallbackCap \in Nat \ {0}
    /\ ReplyCap \in Nat \ {0}
    /\ MayPanic \in BOOLEAN
    /\ None \notin Reqs

VARIABLES
    task,          \* where each request is on its way through the server
    fn,            \* the goroutine that runs the registered function
    ch,            \* how many slots are taken
    wg,            \* the counter of the WaitGroup
    callback_chan, \* results waiting to be sent back
    isClose,       \* localServer refuses new requests
    on_call,       \* control state of on_call_handle
    on_callback,   \* control state of on_callback_handle
    done,          \* control state of Done
    counted,       \* history: the requests wg counted when Done began to wait
    answers,       \* history: how often each request was answered
    result_chan,   \* the reply_to channel of the client
    expired,       \* requests whose deadline has passed
    panicked       \* what killed the process, if anything

engineVars == <<task, fn, ch, wg, callback_chan>>
serverVars == <<engineVars, isClose, on_call, on_callback, done, counted, answers>>
vars == <<serverVars, result_chan, expired, panicked>>

\* What can kill the process: a send on or a close of a closed channel, or a
\* registered function that panics.
Causes == {"no", "call_chan", "result_chan", "callback_chan", "function"}

Early    == {"idle", "sending", "refused", "dropped"}
Accepted == {"spawned", "rejecting", "waiting", "slot", "counted", "running",
             "result", "deferred", "releasing", "ended"}

\* The requests that hold a slot, and those wg counts.
HoldsSlot == {"slot", "counted", "running", "result", "deferred", "releasing"}
Counted   == {"counted", "running", "result", "deferred"}

\* The requests whose result is on callback_chan already, or has left it.
Answered == {"deferred", "releasing", "ended"}

Channel == [buf : Seq(Reqs), open : BOOLEAN]

TypeOK ==
    /\ task \in [Reqs -> Early \cup Accepted]
    /\ fn \in [Reqs -> {"none", "executing", "returning", "ended"}]
    /\ ch \in 0..MaxCoroutine
    /\ wg \in Nat
    /\ callback_chan \in Channel
    /\ Len(callback_chan.buf) <= CallbackCap
    /\ isClose \in BOOLEAN
    /\ on_call \in {"select", "exit"}
    /\ on_callback \in [at : {"select", "callback", "exit"}, req : Reqs \cup {None}]
    /\ done \in {"idle", "stopped", "waiting", "drained", "deaf", "mute", "finished"}
    /\ counted \subseteq Reqs
    /\ answers \in [Reqs -> Nat]
    /\ result_chan \in Channel
    /\ Len(result_chan.buf) <= ReplyCap
    /\ expired \subseteq Reqs
    /\ panicked \in Causes

Selecting == [at |-> "select", req |-> None]

Init ==
    /\ task = [r \in Reqs |-> "idle"]
    /\ fn = [r \in Reqs |-> "none"]
    /\ ch = 0
    /\ wg = 0
    /\ callback_chan = [buf |-> <<>>, open |-> TRUE]
    /\ isClose = FALSE
    /\ on_call = "select"
    /\ on_callback = Selecting
    /\ done = "idle"
    /\ counted = {}
    /\ answers = [r \in Reqs |-> 0]
    /\ result_chan = [buf |-> <<>>, open |-> TRUE]
    /\ expired = {}
    /\ panicked = "no"

Alive == panicked = "no"

\* Request r goes from one stage to the next.
Moves(r, from, to) ==
    /\ Alive
    /\ task[r] = from
    /\ task' = [task EXCEPT ![r] = to]

-----------------------------------------------------------------------------
(* localServer.WriteToRpcServer, in the goroutine of the caller, and the   *)
(* goroutine on_call_handle at the other end of the unbuffered mq_chan.    *)

Refuse(r) ==
    /\ isClose
    /\ Moves(r, "idle", "refused")
    /\ UNCHANGED <<fn, ch, wg, callback_chan, isClose, on_call, on_callback, done,
                   counted, answers, result_chan, expired, panicked>>

Send(r) ==
    /\ ~isClose
    /\ Moves(r, "idle", "sending")
    /\ UNCHANGED <<fn, ch, wg, callback_chan, isClose, on_call, on_callback, done,
                   counted, answers, result_chan, expired, panicked>>

\* A request past its deadline is dropped without an answer.
Drop(r) ==
    /\ on_call = "select"
    /\ r \in expired
    /\ Moves(r, "sending", "dropped")
    /\ UNCHANGED <<fn, ch, wg, callback_chan, isClose, on_call, on_callback, done,
                   counted, answers, result_chan, expired, panicked>>

Spawn(r) ==
    /\ on_call = "select"
    /\ r \notin expired
    /\ Moves(r, "sending", "spawned")
    /\ UNCHANGED <<fn, ch, wg, callback_chan, isClose, on_call, on_callback, done,
                   counted, answers, result_chan, expired, panicked>>

Expire(r) ==
    /\ Alive
    /\ r \notin expired
    /\ expired' = expired \cup {r}
    /\ UNCHANGED <<serverVars, result_chan, panicked>>

-----------------------------------------------------------------------------
(* runFunc.                                                                *)

\* The function is not registered, or the number of arguments is wrong: an error
\* result, before any slot is taken.
Reject(r) ==
    /\ Moves(r, "spawned", "rejecting")
    /\ UNCHANGED <<fn, ch, wg, callback_chan, isClose, on_call, on_callback, done,
                   counted, answers, result_chan, expired, panicked>>

Admit(r) ==
    /\ Moves(r, "spawned", "waiting")
    /\ UNCHANGED <<fn, ch, wg, callback_chan, isClose, on_call, on_callback, done,
                   counted, answers, result_chan, expired, panicked>>

\* control.Wait: this.ch <- 1.
Wait(r) ==
    /\ ch < MaxCoroutine
    /\ Moves(r, "waiting", "slot")
    /\ ch' = ch + 1
    /\ UNCHANGED <<fn, wg, callback_chan, isClose, on_call, on_callback, done,
                   counted, answers, result_chan, expired, panicked>>

\* _runFunc begins with s.wg.Add(1).
Enter(r) ==
    /\ Moves(r, "slot", "counted")
    /\ wg' = wg + 1
    /\ UNCHANGED <<fn, ch, callback_chan, isClose, on_call, on_callback, done,
                   counted, answers, result_chan, expired, panicked>>

\* The arguments cannot be decoded, or the deadline is over already.
FailEarly(r) ==
    /\ Moves(r, "counted", "result")
    /\ UNCHANGED <<fn, ch, wg, callback_chan, isClose, on_call, on_callback, done,
                   counted, answers, result_chan, expired, panicked>>

\* go _rpcCallFunc(), unless the deadline is over.
StartFn(r) ==
    /\ r \notin expired
    /\ Moves(r, "counted", "running")
    /\ fn' = [fn EXCEPT ![r] = "executing"]
    /\ UNCHANGED <<ch, wg, callback_chan, isClose, on_call, on_callback, done,
                   counted, answers, result_chan, expired, panicked>>

\* f.Call(in) returns; its goroutine is now at the send on the unbuffered out_chan.
FnReturns(r) ==
    /\ Alive
    /\ fn[r] = "executing"
    /\ fn' = [fn EXCEPT ![r] = "returning"]
    /\ UNCHANGED <<task, ch, wg, callback_chan, isClose, on_call, on_callback, done,
                   counted, answers, result_chan, expired, panicked>>

\* f.Call(in) panics, in a goroutine that has no recover.
FnPanics(r) ==
    /\ MayPanic
    /\ Alive
    /\ fn[r] = "executing"
    /\ panicked' = "function"
    /\ UNCHANGED <<serverVars, result_chan, expired>>

\* The select of _runFunc: the function's values, or the timer.  After the timer
\* nobody receives from out_chan any more.
TakeOut(r) ==
    /\ fn[r] = "returning"
    /\ Moves(r, "running", "result")
    /\ fn' = [fn EXCEPT ![r] = "ended"]
    /\ UNCHANGED <<ch, wg, callback_chan, isClose, on_call, on_callback, done,
                   counted, answers, result_chan, expired, panicked>>

\* A mutated form: the timed-out request returns past the deferred function.
TimeOutReturns(r) ==
    /\ r \in expired
    /\ Moves(r, "running", "ended")
    /\ UNCHANGED <<fn, ch, wg, callback_chan, isClose, on_call, on_callback, done,
                   counted, answers, result_chan, expired, panicked>>

TimeOut(r) ==
    /\ r \in expired
    /\ Moves(r, "running", "result")
    /\ UNCHANGED <<fn, ch, wg, callback_chan, isClose, on_call, on_callback, done,
                   counted, answers, result_chan, expired, panicked>>

\* A mutated form: the result does not wait for room in the queue.
PutResultNoWait(r, from, to) ==
    /\ callback_chan.open
    /\ Moves(r, from, to)
    /\ callback_chan' = [callback_chan EXCEPT !.buf = Append(@, r)]
    /\ UNCHANGED <<fn, ch, wg, isClose, on_call, on_callback, done,
                   counted, answers, result_chan, expired, panicked>>

\* callback_chan <- callInfo.  On a closed channel the send panics; the deferred
\* functions send on it again, so the panic is not recovered.
PutResult(r, from, to) ==
    /\ callback_chan.open
    /\ Len(callback_chan.buf) < CallbackCap
    /\ Moves(r, from, to)
    /\ callback_chan' = [callback_chan EXCEPT !.buf = Append(@, r)]
    /\ UNCHANGED <<fn, ch, wg, isClose, on_call, on_callback, done,
                   counted, answers, result_chan, expired, panicked>>

PutPanics(r) ==
    /\ Alive
    /\ task[r] \in {"rejecting", "result"}
    /\ ~callback_chan.open
    /\ panicked' = "callback_chan"
    /\ UNCHANGED <<serverVars, result_chan, expired>>

\* A mutated form: the result is queued and the error path does not return.
PutOutcomeAgain(r) ==
    \/ PutResult(r, "rejecting", "waiting")
    \/ PutResult(r, "result", "deferred")

PutOutcome(r) ==
    \/ PutResult(r, "rejecting", "ended")
    \/ PutResult(r, "result", "deferred")

\* A mutated form: the deferred function forgets s.wg.Done().
LeaveWithoutDone(r) ==
    /\ Moves(r, "deferred", "releasing")
    /\ UNCHANGED <<fn, ch, wg, callback_chan, isClose, on_call, on_callback, done,
                   counted, answers, result_chan, expired, panicked>>

\* The deferred function: s.wg.Done(), which wakes Done when it was the last one,
Leave(r) ==
    /\ Moves(r, "deferred", "releasing")
    /\ wg' = wg - 1
    /\ done' = IF done = "waiting" /\ wg' = 0 THEN "drained" ELSE done
    /\ UNCHANGED <<fn, ch, callback_chan, isClose, on_call, on_callback,
                   counted, answers, result_chan, expired, panicked>>

\* and then control.Finish: <-this.ch.
Finish(r) ==
    /\ ch > 0
    /\ Moves(r, "releasing", "ended")
    /\ ch' = ch - 1
    /\ UNCHANGED <<fn, wg, callback_chan, isClose, on_call, on_callback, done,
                   counted, answers, result_chan, expired, panicked>>

-----------------------------------------------------------------------------
(* on_callback_handle and localServer.Callback.                            *)

\* A mutated form: every result is sent back, wanted or not.
TakeCallbackAlways ==
    /\ Alive
    /\ on_callback.at = "select"
    /\ callback_chan.buf # <<>>
    /\ callback_chan' = [callback_chan EXCEPT !.buf = Tail(@)]
    /\ on_callback' = [at |-> "callback", req |-> Head(callback_chan.buf)]
    /\ UNCHANGED <<task, fn, ch, wg, isClose, on_call, done, counted, answers,
                   result_chan, expired, panicked>>

TakeCallback ==
    /\ Alive
    /\ on_callback.at = "select"
    /\ callback_chan.buf # <<>>
    /\ callback_chan' = [callback_chan EXCEPT !.buf = Tail(@)]
    /\ LET r == Head(callback_chan.buf)
       IN  on_callback' = IF r \in NoReply
                          THEN Selecting
                          ELSE [at |-> "callback", req |-> r]
    /\ UNCHANGED <<task, fn, ch, wg, isClose, on_call, done, counted, answers,
                   result_chan, expired, panicked>>

\* replyTo <- callInfo.Result: blocks on a full channel, panics on a closed one.
Callback(r) ==
    /\ Alive
    /\ on_callback = [at |-> "callback", req |-> r]
    /\ result_chan.open
    /\ Len(result_chan.buf) < ReplyCap
    /\ result_chan' = [result_chan EXCEPT !.buf = Append(@, r)]
    /\ answers' = [answers EXCEPT ![r] = @ + 1]
    /\ on_callback' = Selecting
    /\ UNCHANGED <<engineVars, isClose, on_call, done, counted, expired, panicked>>

CallbackPanics ==
    /\ Alive
    /\ on_callback.at = "callback"
    /\ ~result_chan.open
    /\ panicked' = "result_chan"
    /\ UNCHANGED <<serverVars, result_chan, expired>>

-----------------------------------------------------------------------------
(* Done.                                                                   *)

DoneStop ==
    /\ Alive
    /\ done = "idle"
    /\ isClose' = TRUE
    /\ done' = "stopped"
    /\ UNCHANGED <<engineVars, on_call, on_callback, counted, answers, result_chan,
                   expired, panicked>>

\* A mutated form: Done does not wait.
DoneWaitNot ==
    /\ Alive
    /\ done = "stopped"
    /\ done' = "drained"
    /\ counted' = {r \in Reqs : task[r] \in Counted}
    /\ UNCHANGED <<engineVars, isClose, on_call, on_callback, answers, result_chan,
                   expired, panicked>>

\* s.wg.Wait() returns at once when the counter is 0.
DoneWait ==
    /\ Alive
    /\ done = "stopped"
    /\ done' = IF wg = 0 THEN "drained" ELSE "waiting"
    /\ counted' = {r \in Reqs : task[r] \in Counted}
    /\ UNCHANGED <<engineVars, isClose, on_call, on_callback, answers, result_chan,
                   expired, panicked>>

\* s.mq_chan_done <- nil, taken by on_call_handle at its select.
DoneDeafen ==
    /\ Alive
    /\ done = "drained"
    /\ on_call = "select"
    /\ on_call' = "exit"
    /\ done' = "deaf"
    /\ UNCHANGED <<engineVars, isClose, on_callback, counted, answers, result_chan,
                   expired, panicked>>

\* A mutated form: the goroutine is stopped in the middle of a callback, too.
DoneMuteMidway ==
    /\ Alive
    /\ done = "deaf"
    /\ on_callback' = [at |-> "exit", req |-> None]
    /\ done' = "mute"
    /\ UNCHANGED <<engineVars, isClose, on_call, counted, answers, result_chan,
                   expired, panicked>>

\* s.callback_chan_done <- nil, taken by on_callback_handle at its select, whether
\* or not results are waiting.
DoneMute ==
    /\ Alive
    /\ done = "deaf"
    /\ on_callback.at = "select"
    /\ on_callback' = [on_callback EXCEPT !.at = "exit"]
    /\ done' = "mute"
    /\ UNCHANGED <<engineVars, isClose, on_call, counted, answers, result_chan,
                   expired, panicked>>

DoneClose ==
    /\ Alive
    /\ done = "mute"
    /\ callback_chan' = [callback_chan EXCEPT !.open = FALSE]
    /\ done' = "finished"
    /\ UNCHANGED <<task, fn, ch, wg, isClose, on_call, on_callback, counted, answers,
                   result_chan, expired, panicked>>

-----------------------------------------------------------------------------
(* The client at the other end of result_chan.                             *)

ClientTakes ==
    /\ Alive
    /\ result_chan.buf # <<>>
    /\ result_chan' = [result_chan EXCEPT !.buf = Tail(@)]
    /\ UNCHANGED <<serverVars, expired, panicked>>

ClientCloses ==
    /\ Alive
    /\ result_chan.open
    /\ result_chan' = [result_chan EXCEPT !.open = FALSE]
    /\ UNCHANGED <<serverVars, expired, panicked>>

\* The client dies, and the process with it.
ClientDies ==
    /\ Alive
    /\ panicked' = "call_chan"
    /\ UNCHANGED <<serverVars, result_chan, expired>>

-----------------------------------------------------------------------------
CallNext(r) == Drop(r) \/ Spawn(r)

RunNext(r) ==
    \/ Reject(r) \/ Admit(r) \/ Wait(r) \/ Enter(r) \/ FailEarly(r) \/ StartFn(r)
    \/ TakeOut(r) \/ TimeOut(r) \/ PutOutcome(r) \/ PutPanics(r)
    \/ Leave(r) \/ Finish(r)

FnNext(r) == FnReturns(r) \/ FnPanics(r)

CallbackNext ==
    \/ TakeCallback \/ CallbackPanics
    \/ \E r \in Reqs : Callback(r)

DoneNext == DoneStop \/ DoneWait \/ DoneDeafen \/ DoneMute \/ DoneClose

Next ==
    \/ \E r \in Reqs : \/ Refuse(r) \/ Send(r) \/ Expire(r)
                       \/ CallNext(r) \/ RunNext(r) \/ FnNext(r)
    \/ CallbackNext
    \/ DoneNext
    \/ ClientTakes \/ ClientCloses \/ ClientDies

Spec == Init /\ [][Next]_vars

\* Goroutines that can run do run, time passes, and the client drains its channel.
\* A registered function may run for ever, and nobody has to call Done.  Weak fairness
\* is enough: a request waits for mq_chan, a slot or callback_chan once each, and
\* what it waits behind are finitely many others.
Fairness ==
    /\ \A r \in Reqs : WF_vars(CallNext(r)) /\ WF_vars(RunNext(r)) /\ WF_vars(Expire(r))
    /\ WF_vars(CallbackNext)
    /\ WF_vars(ClientTakes)
    /\ WF_vars(DoneNext /\ done # "idle")

FairSpec == Spec /\ Fairness

-----------------------------------------------------------------------------
(* What the module promises.                                               *)

\* The slots of ch and the counter of wg are exactly the requests that are inside
\* the region they guard: no path through runFunc takes one without giving it back.
Accounting ==
    /\ ch = Cardinality({r \in Reqs : task[r] \in HoldsSlot})
    /\ wg = Cardinality({r \in Reqs : task[r] \in Counted})

\* Whichever way a request fails or races with its deadline, it is answered at most
\* once, and only when it wants an answer.
AnsweredOnce ==
    \A r \in Reqs : /\ answers[r] <= 1
                    /\ answers[r] = 1 => task[r] \in Answered /\ r \notin NoReply

\* What wg counted when Done began to wait has queued its result before Done goes
\* on to stop the two goroutines and to close callback_chan under the senders.
DrainedBeforeClose ==
    done \in {"drained", "deaf", "mute", "finished"} =>
        \A r \in counted : task[r] \in Answered

\* Of those results, the shutdown leaves at most one buffer of callback_chan
\* unsent.
FewAnswersLost ==
    on_callback.at = "exit" =>
        Cardinality({r \in counted \ NoReply : answers[r] = 0}) <= CallbackCap

\* A request that was taken off mq_chan in time is answered, however long its
\* function runs, unless the server is shut down or the process dies.
AcceptedIsAnswered ==
    \A r \in Reqs \ NoReply :
        task[r] = "spawned" ~> answers[r] = 1 \/ done # "idle" \/ ~Alive

\* Done gets through: nothing that runs keeps it waiting for ever.
DoneTerminates == done = "stopped" ~> done = "finished" \/ ~Alive

\* No more functions run than there are slots.
RunningWithinSlots ==
    Cardinality({r \in Reqs : fn[r] = "executing"}) <= MaxCoroutine

\* Done waits for every request that on_call_handle has taken.
DoneWaitsForTasks ==
    done \in {"drained", "deaf", "mute", "finished"} =>
        \A r \in Reqs : task[r] \in Early \cup Answered
=============================================================================
