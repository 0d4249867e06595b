----------------------------- MODULE LocalClient -----------------------------
(***************************************************************************)
(* rpc/base/local_client.go: the in-process RPC client.  It correlates the *)
(* requests of many caller goroutines with the results that one server     *)
(* goroutine puts on result_chan.  One goroutine, on_response_handle,      *)
(* hands out results and expires old requests; Done shuts it down.         *)
(*                                                                         *)
(* The server is the environment here: inflight holds the requests it has  *)
(* taken and may still answer, each at most once, at any time or never.    *)
(* A correlation id is a fresh uuid per call, so a call is its own id.     *)
(***************************************************************************)
EXTENDS Naturals, Sequences, FiniteSets

CONSTANTS Calls,      \* the calls made through this client
          NoReply,    \* those made by CallNR: they want no answer
          ResultCap,  \* capacity of result_chan (1 in the code)
          None        \* no call

ASSUME LocalClientAssumption ==
    /\ NoReply \subseteq Calls
    /\ ResultCap \in Nat \ {0}
    /\ None \notin Calls

VARIABLES
    caller,       \* where each calling goroutine is, or what its call returned
    callInfos,    \* the ids in the correlation table
    call_chan,    \* the callback channel of each call: buffered value, open
    result_chan,  \* results on their way from the server
    isClose,      \* the client refuses new calls
    on_response,  \* control state of the goroutine on_response_handle
    done,         \* control state of Done
    sweep,        \* ids Done still has to close
    expired,      \* calls whose deadline has passed
    inflight,     \* requests the server may still answer
    panicked      \* which send or close killed the process, if any

clientVars == <<caller, callInfos, call_chan, isClose, on_response, done, sweep>>
vars == <<clientVars, result_chan, expired, inflight, panicked>>

Returned == {"reply", "timeout", "closed", "refused", "sent"}

\* What can kill the process: a send on or a close of a closed channel, or a
\* registered function that panics.
Causes == {"no", "call_chan", "result_chan", "callback_chan", "function"}

CallerState == {"idle", "checked", "writing", "awaiting"} \cup Returned

Channel == [buf : {"empty", "reply", "timeout"}, open : BOOLEAN]

TypeOK ==
    /\ caller \in [Calls -> CallerState]
    /\ callInfos \subseteq Calls
    /\ call_chan \in [Calls -> Channel]
    /\ result_chan \in [buf : Seq(Calls), open : BOOLEAN]
    /\ Len(result_chan.buf) <= ResultCap
    /\ isClose \in BOOLEAN
    /\ on_response \in [at   : {"select", "lookup", "reply", "scan", "timeout", "close", "exit"},
                        cid  : Calls \cup {None},
                        todo : SUBSET Calls]
    /\ done \in {"idle", "stop", "joined", "items", "sweep", "finished"}
    /\ sweep \subseteq Calls
    /\ expired \subseteq Calls
    /\ inflight \subseteq Calls
    /\ panicked \in Causes

Selecting == [at |-> "select", cid |-> None, todo |-> {}]

Init ==
    /\ caller = [c \in Calls |-> "idle"]
    /\ callInfos = {}
    /\ call_chan = [c \in Calls |-> [buf |-> "empty", open |-> TRUE]]
    /\ result_chan = [buf |-> <<>>, open |-> TRUE]
    /\ isClose = FALSE
    /\ on_response = Selecting
    /\ done = "idle"
    /\ sweep = {}
    /\ expired = {}
    /\ inflight = {}
    /\ panicked = "no"

Alive == panicked = "no"

-----------------------------------------------------------------------------
(* The callers: Call, CallNR, and the wait of CallArgs or                  *)
(* ResolveCallbackChan on the call's own channel.                          *)

\* Call and CallNR start with the check of isClose.
Refuse(c) ==
    /\ Alive
    /\ caller[c] = "idle"
    /\ isClose
    /\ caller' = [caller EXCEPT ![c] = "refused"]
    /\ UNCHANGED <<callInfos, call_chan, result_chan, isClose, on_response, done,
                   sweep, expired, inflight, panicked>>

Check(c) ==
    /\ Alive
    /\ caller[c] = "idle"
    /\ ~isClose
    /\ caller' = [caller EXCEPT ![c] = IF c \in NoReply THEN "writing" ELSE "checked"]
    /\ UNCHANGED <<callInfos, call_chan, result_chan, isClose, on_response, done,
                   sweep, expired, inflight, panicked>>

\* Call does not look at isClose again before it enters the table.
Register(c) ==
    /\ Alive
    /\ caller[c] = "checked"
    /\ callInfos' = callInfos \cup {c}
    /\ caller' = [caller EXCEPT ![c] = "writing"]
    /\ UNCHANGED <<call_chan, result_chan, isClose, on_response, done, sweep,
                   expired, inflight, panicked>>

\* WriteToRpcServer returned.  Call ignores whether it delivered the request,
\* so the caller goes on to wait in both cases.
AfterWrite(c) == IF c \in NoReply THEN "sent" ELSE "awaiting"

WriteReturns(c) ==
    /\ Alive
    /\ caller[c] = "writing"
    /\ caller' = [caller EXCEPT ![c] = AfterWrite(c)]
    /\ UNCHANGED <<callInfos, call_chan, result_chan, isClose, on_response, done,
                   sweep, expired, panicked>>

Accepted(c) == WriteReturns(c) /\ inflight' = inflight \cup {c}

Ignored(c) == WriteReturns(c) /\ UNCHANGED inflight

\* The caller receives from its channel: a value, or the news that it is closed.
Receive(c) ==
    /\ Alive
    /\ caller[c] = "awaiting"
    /\ call_chan[c].buf # "empty"
    /\ caller' = [caller EXCEPT ![c] = call_chan[c].buf]
    /\ call_chan' = [call_chan EXCEPT ![c].buf = "empty"]
    /\ UNCHANGED <<callInfos, result_chan, isClose, on_response, done, sweep,
                   expired, inflight, panicked>>

\* A mutated form: the caller is told of the close before it drained the buffer.
ReceiveClosedFirst(c) ==
    /\ Alive
    /\ caller[c] = "awaiting"
    /\ ~call_chan[c].open
    /\ caller' = [caller EXCEPT ![c] = "closed"]
    /\ UNCHANGED <<callInfos, call_chan, result_chan, isClose, on_response, done,
                   sweep, expired, inflight, panicked>>

ReceiveClosed(c) ==
    /\ Alive
    /\ caller[c] = "awaiting"
    /\ call_chan[c] = [buf |-> "empty", open |-> FALSE]
    /\ caller' = [caller EXCEPT ![c] = "closed"]
    /\ UNCHANGED <<callInfos, call_chan, result_chan, isClose, on_response, done,
                   sweep, expired, inflight, panicked>>

\* The deadline of a call that has started passes.
Expire(c) ==
    /\ Alive
    /\ c \notin expired
    /\ caller[c] # "idle"
    /\ expired' = expired \cup {c}
    /\ UNCHANGED <<clientVars, result_chan, inflight, panicked>>

-----------------------------------------------------------------------------
(* The goroutine on_response_handle.                                       *)

TakeResult ==
    /\ Alive
    /\ on_response.at = "select"
    /\ result_chan.buf # <<>>
    /\ on_response' = [at |-> "lookup", cid |-> Head(result_chan.buf), todo |-> {}]
    /\ result_chan' = [result_chan EXCEPT !.buf = Tail(@)]
    /\ UNCHANGED <<caller, callInfos, call_chan, isClose, done, sweep, expired,
                   inflight, panicked>>

\* A mutated form: the entry stays in the table when its result is handed out.
LookupKeepsEntry ==
    /\ Alive
    /\ on_response.at = "lookup"
    /\ on_response' = IF on_response.cid \in callInfos
                      THEN [on_response EXCEPT !.at = "reply"]
                      ELSE Selecting
    /\ UNCHANGED <<caller, callInfos, call_chan, result_chan, isClose, done, sweep,
                   expired, inflight, panicked>>

\* Get, then Delete when the id is in the table; otherwise only a warning.
Lookup ==
    /\ Alive
    /\ on_response.at = "lookup"
    /\ callInfos' = callInfos \ {on_response.cid}
    /\ on_response' = IF on_response.cid \in callInfos
                      THEN [on_response EXCEPT !.at = "reply"]
                      ELSE Selecting
    /\ UNCHANGED <<caller, call_chan, result_chan, isClose, done, sweep, expired,
                   inflight, panicked>>

\* The one-second timer fires: on_timeout_handle takes a copy of the table.
TimerFires ==
    /\ Alive
    /\ on_response.at = "select"
    /\ callInfos # {}
    /\ on_response' = [at |-> "scan", cid |-> None, todo |-> callInfos]
    /\ UNCHANGED <<caller, callInfos, call_chan, result_chan, isClose, done, sweep,
                   expired, inflight, panicked>>

\* Where the goroutine goes when it is through with the entry it was at.
Proceed(todo) ==
    IF todo = {} THEN Selecting ELSE [at |-> "scan", cid |-> None, todo |-> todo]

\* A mutated form: the scan leaves the expired entries to the server's answer.
ScanNeverExpires(c) ==
    /\ Alive
    /\ on_response.at = "scan"
    /\ c \in on_response.todo
    /\ on_response' = Proceed(on_response.todo \ {c})
    /\ UNCHANGED <<caller, callInfos, call_chan, result_chan, isClose, done, sweep,
                   expired, inflight, panicked>>

Scan(c) ==
    /\ Alive
    /\ on_response.at = "scan"
    /\ c \in on_response.todo
    /\ IF c \in expired
       THEN /\ callInfos' = callInfos \ {c}
            /\ on_response' = [at |-> "timeout", cid |-> c, todo |-> on_response.todo \ {c}]
       ELSE /\ on_response' = Proceed(on_response.todo \ {c})
            /\ UNCHANGED callInfos
    /\ UNCHANGED <<caller, call_chan, result_chan, isClose, done, sweep, expired,
                   inflight, panicked>>

\* A mutated form: the result is dropped and only the close is left of it.
DeliverNothing(c) ==
    /\ Alive
    /\ on_response.at \in {"reply", "timeout"}
    /\ on_response.cid = c
    /\ on_response' = [on_response EXCEPT !.at = "close"]
    /\ UNCHANGED <<caller, callInfos, call_chan, result_chan, isClose, done, sweep,
                   expired, inflight, panicked>>

\* A send on a closed channel panics, and nothing recovers it in this goroutine;
\* a send on a full one blocks.
Deliver(c) ==
    /\ Alive
    /\ on_response.at \in {"reply", "timeout"}
    /\ on_response.cid = c
    /\ IF call_chan[c].open
       THEN /\ call_chan[c].buf = "empty"
            /\ call_chan' = [call_chan EXCEPT ![c].buf = on_response.at]
            /\ on_response' = [on_response EXCEPT !.at = "close"]
            /\ UNCHANGED panicked
       ELSE /\ panicked' = "call_chan"
            /\ UNCHANGED <<call_chan, on_response>>
    /\ UNCHANGED <<caller, callInfos, result_chan, isClose, done, sweep, expired, inflight>>

CloseChan(c) ==
    IF call_chan[c].open
    THEN /\ call_chan' = [call_chan EXCEPT ![c].open = FALSE]
         /\ UNCHANGED panicked
    ELSE /\ panicked' = "call_chan"
         /\ UNCHANGED call_chan

CloseDelivered(c) ==
    /\ Alive
    /\ on_response.at = "close"
    /\ on_response.cid = c
    /\ CloseChan(c)
    /\ on_response' = Proceed(on_response.todo)
    /\ UNCHANGED <<caller, callInfos, result_chan, isClose, done, sweep, expired, inflight>>

-----------------------------------------------------------------------------
(* Done.                                                                   *)

DoneStop ==
    /\ Alive
    /\ done = "idle"
    /\ isClose' = TRUE
    /\ done' = "stop"
    /\ UNCHANGED <<caller, callInfos, call_chan, result_chan, on_response, sweep,
                   expired, inflight, panicked>>

\* c.done <- nil: both sides meet at the handler's select, which then ends.
DoneJoin ==
    /\ Alive
    /\ done = "stop"
    /\ on_response.at = "select"
    /\ on_response' = [on_response EXCEPT !.at = "exit"]
    /\ done' = "joined"
    /\ UNCHANGED <<caller, callInfos, call_chan, result_chan, isClose, sweep,
                   expired, inflight, panicked>>

DoneCloseResults ==
    /\ Alive
    /\ done = "joined"
    /\ result_chan' = [result_chan EXCEPT !.open = FALSE]
    /\ done' = "items"
    /\ UNCHANGED <<caller, callInfos, call_chan, isClose, on_response, sweep,
                   expired, inflight, panicked>>

DoneItems ==
    /\ Alive
    /\ done = "items"
    /\ sweep' = callInfos
    /\ done' = "sweep"
    /\ UNCHANGED <<caller, callInfos, call_chan, result_chan, isClose, on_response,
                   expired, inflight, panicked>>

\* A mutated form: the table is cleaned up and no channel is closed.
DoneSweepNoClose(c) ==
    /\ Alive
    /\ done = "sweep"
    /\ c \in sweep
    /\ callInfos' = callInfos \ {c}
    /\ sweep' = sweep \ {c}
    /\ UNCHANGED <<caller, call_chan, result_chan, isClose, on_response, done,
                   expired, inflight, panicked>>

DoneSweep(c) ==
    /\ Alive
    /\ done = "sweep"
    /\ c \in sweep
    /\ CloseChan(c)
    /\ callInfos' = callInfos \ {c}
    /\ sweep' = sweep \ {c}
    /\ UNCHANGED <<caller, result_chan, isClose, on_response, done, expired, inflight>>

DoneReturn ==
    /\ Alive
    /\ done = "sweep"
    /\ sweep = {}
    /\ done' = "finished"
    /\ UNCHANGED <<caller, callInfos, call_chan, result_chan, isClose, on_response,
                   sweep, expired, inflight, panicked>>

-----------------------------------------------------------------------------
(* The server's side of result_chan (localServer.Callback).                *)

\* A mutated form: the send does not wait for room.
ServerRepliesNoWait(c) ==
    /\ Alive
    /\ c \in inflight \ NoReply
    /\ result_chan.open
    /\ result_chan' = [result_chan EXCEPT !.buf = Append(@, c)]
    /\ inflight' = inflight \ {c}
    /\ UNCHANGED <<clientVars, expired, panicked>>

\* A blocking send; on a closed channel it panics in the server's callback
\* goroutine, which recovers nothing.
ServerReplies(c) ==
    /\ Alive
    /\ c \in inflight \ NoReply
    /\ result_chan.open
    /\ Len(result_chan.buf) < ResultCap
    /\ result_chan' = [result_chan EXCEPT !.buf = Append(@, c)]
    /\ inflight' = inflight \ {c}
    /\ UNCHANGED <<clientVars, expired, panicked>>

ServerPanics(c) ==
    /\ Alive
    /\ c \in inflight \ NoReply
    /\ ~result_chan.open
    /\ panicked' = "result_chan"
    /\ UNCHANGED <<clientVars, result_chan, expired, inflight>>

\* The server dies, and the process with it.
ServerDies ==
    /\ Alive
    /\ panicked' \in {"callback_chan", "function"}
    /\ UNCHANGED <<clientVars, result_chan, expired, inflight>>

\* The server is through with a request without answering it.
ServerForgets(c) ==
    /\ Alive
    /\ c \in inflight
    /\ inflight' = inflight \ {c}
    /\ UNCHANGED <<clientVars, result_chan, expired, panicked>>

-----------------------------------------------------------------------------
CallerNext(c) ==
    \/ Refuse(c) \/ Check(c) \/ Register(c) \/ Accepted(c) \/ Ignored(c)
    \/ Receive(c) \/ ReceiveClosed(c)

ResponseNext ==
    \/ TakeResult \/ Lookup \/ TimerFires
    \/ \E c \in Calls : Scan(c) \/ Deliver(c) \/ CloseDelivered(c)

DoneNext ==
    \/ DoneStop \/ DoneJoin \/ DoneCloseResults \/ DoneItems \/ DoneReturn
    \/ \E c \in Calls : DoneSweep(c)

ServerNext(c) == ServerReplies(c) \/ ServerPanics(c) \/ ServerForgets(c)

Next ==
    \/ \E c \in Calls : CallerNext(c) \/ Expire(c) \/ ServerNext(c)
    \/ ResponseNext
    \/ DoneNext
    \/ ServerDies

Spec == Init /\ [][Next]_vars

\* Every goroutine that can run does run, and time passes.  Nothing obliges a
\* caller to call, the server to answer, or anybody to call Done.  The timer case of
\* the select is ready again and again, and the choice is random: it does not pass
\* over Done for ever.
Fairness ==
    /\ \A c \in Calls :
          /\ WF_vars(Register(c) \/ Receive(c) \/ ReceiveClosed(c))
          /\ WF_vars(Expire(c))
    /\ WF_vars(ResponseNext)
    /\ WF_vars(DoneNext /\ done # "idle")
    /\ SF_vars(DoneJoin)

FairSpec == Spec /\ Fairness

-----------------------------------------------------------------------------
(* What the module promises.                                               *)

\* A call's channel is never sent to after it was closed, never closed twice,
\* and the dispatching goroutine never blocks on it: late results, the timeout
\* scan and Done never both settle the same call.
SettledOnce ==
    /\ panicked # "call_chan"
    /\ on_response.at \in {"reply", "timeout"} =>
          call_chan[on_response.cid] = [buf |-> "empty", open |-> TRUE]

\* "rpc client closed" is only ever the answer of a client that was shut down:
\* a caller never sees its channel closed before the value that settled it.
ClosedOnlyByDone ==
    \A c \in Calls : caller[c] = "closed" => done \in {"sweep", "finished"}

\* A call that entered the table before the shutdown began is settled: by its
\* result, by the timeout scan, or by Done, even when the server never answers.
TimelySettlement ==
    \A c \in Calls :
        (c \in callInfos /\ ~isClose) ~> (~call_chan[c].open \/ ~Alive)

\* The outcome of each call, as the callers see it.
outcomeOf ==
    [c \in Calls \ NoReply |->
        IF caller[c] \in Returned THEN caller[c]
        ELSE IF caller[c] \in {"idle", "checked"} THEN "none"
        ELSE IF call_chan[c].buf # "empty" THEN call_chan[c].buf
        ELSE IF call_chan[c].open THEN "open" ELSE "closed"]

Contract == INSTANCE CallContract WITH Calls <- Calls \ NoReply, outcome <- outcomeOf

\* The client implements the contract: an opened call is settled once, and its
\* outcome never changes.
ImplementsContract == Contract!Spec
=============================================================================
