------------------------------- MODULE AmqpRpc -------------------------------
(***************************************************************************)
(* RPC through RabbitMQ: amqpClient (calls, callInfos, the goroutine that  *)
(* takes answers and expires calls, Done), amqpServer, and the RabbitAgent *)
(* each of them owns, with a connection for writing and one for reading.   *)
(*                                                                         *)
(* The broker is external: it queues a request until the server's consumer *)
(* acknowledges it and requeues it when the consumer's connection is lost; *)
(* the client's callback queue is exclusive and goes with its connection.  *)
(* So is the AMQP library: a lost connection is announced once on the      *)
(* registered channel, which is then closed, and publishing on a channel   *)
(* whose connection is gone is an error.                                   *)
(***************************************************************************)
EXTENDS Naturals

CONSTANTS Calls, NoReply, MaxLosses

VARIABLES
    \* of the client
    caller, callInfos, call_chan, expired, isClose, done, panicked,
    callback_queue,    \* "none", or whether its consumer is "live" or "dead"
    responding,        \* whether on_response_handle runs
    \* of the agents: one record per connection
    link, shutdown, losses,
    \* of the broker and the server
    request, fetched, executed, answer,
    request_consumer   \* of on_handle on the server's side

clientVars == <<caller, callInfos, call_chan, expired, isClose, done, responding>>
agentVars == <<callback_queue, link, shutdown, losses>>
serverVars == <<request, fetched, executed, answer, request_consumer>>
vars == <<clientVars, agentVars, serverVars, panicked>>

Returned == {"error", "sent", "reply", "timeout", "closed"}
CallerState == {"idle", "checked", "resolved", "registered", "waiting"} \cup Returned

Links == {"cw", "cr", "sw", "sr"}
Side(l) == IF l \in {"cw", "cr"} THEN "client" ELSE "server"

TypeOK ==
    /\ caller \in [Calls -> CallerState]
    /\ callInfos \subseteq Calls
    /\ call_chan \in [Calls -> {"empty", "reply", "timeout", "closed"}]
    /\ expired \subseteq Calls
    /\ isClose \in BOOLEAN /\ responding \in BOOLEAN
    /\ done \in {"idle", "closing", "shut", "joined", "swept", "finished"}
    /\ callback_queue \in {"none", "live", "dead"}
    /\ link \in [Links -> [conn: {"up", "lost", "nil", "closed"}, chan: {"none", "open", "dead"},
                           watcher: {"waiting", "retrying", "gone"}, reused: BOOLEAN]]
    /\ shutdown \subseteq {"client", "server"}
    /\ request \in [Calls -> {"none", "queued", "unacked", "gone"}]
    /\ answer \in [Calls -> {"none", "due", "queued", "fetched", "gone"}]
    /\ done = "finished" => callInfos = {}   \* nil
    /\ fetched \subseteq Calls
    /\ executed \in [Calls -> 0..2]

\* NewRabbitAgent on both sides. RConnect ignores a failing CallbackQueue.
Init ==
    /\ caller = [c \in Calls |-> "idle"]
    /\ callInfos = {}
    /\ call_chan = [c \in Calls |-> "empty"]
    /\ expired = {}
    /\ isClose = FALSE
    /\ done = "idle"
    /\ responding = TRUE
    /\ callback_queue \in {"none", "live"}
    /\ link = [l \in Links |-> [conn |-> "up", watcher |-> "waiting", reused |-> FALSE,
                                chan |-> IF l \in {"cr", "sr"} THEN "open" ELSE "none"]]
    /\ shutdown = {}
    /\ losses = 0
    /\ request = [c \in Calls |-> "none"]
    /\ fetched = {}
    /\ executed = [c \in Calls |-> 0]
    /\ answer = [c \in Calls |-> "none"]
    /\ request_consumer = "live"
    /\ panicked = "no"

Alive == panicked = "no"

Move(c, from, to) ==
    /\ Alive
    /\ caller[c] = from
    /\ caller' = [caller EXCEPT ![c] = to]

-----------------------------------------------------------------------------
(* RabbitAgent: WChannel opens the channel on first use and keeps it.      *)

CanOpen(l) == link[l].chan = "none" /\ link[l].conn = "up"

Usable(l) == Side(l) \notin shutdown /\ (link[l].chan = "open" \/ CanOpen(l))

\* The connection field is nil once a redial has failed: asking it for a channel panics.
Derefs(l) == Side(l) \notin shutdown /\ link[l].chan = "none" /\ link[l].conn = "nil"

Opened(l) == [link EXCEPT ![l].chan = IF CanOpen(l) THEN "open" ELSE @]

Requeued == [c \in Calls |-> IF request[c] = "unacked" THEN "queued" ELSE request[c]]

\* The library finds the connection gone, and announces it. Announcing it on a channel
\* that was closed for an earlier connection would panic: MaxLosses is one.
Lose(l) ==
    /\ Alive
    /\ losses < MaxLosses
    /\ link[l].conn = "up" /\ Side(l) \notin shutdown
    /\ losses' = losses + 1
    /\ link' = [link EXCEPT ![l].conn = "lost",
                            ![l].chan = IF @ = "open" THEN "dead" ELSE @]
    /\ callback_queue' = IF l = "cr" /\ callback_queue = "live" THEN "dead" ELSE callback_queue
    /\ request_consumer' = IF l = "sr" THEN "dead" ELSE request_consumer
    /\ request' = IF l = "sr" THEN Requeued ELSE request
    /\ answer' = [c \in Calls |-> IF l = "cr" /\ answer[c] = "queued" THEN "gone"
                                  ELSE answer[c]]
    /\ UNCHANGED <<clientVars, shutdown, fetched, executed, panicked>>

\* on_w_disconnect, on_r_disconnect: told of the loss, or receiving at once from the
\* channel that an earlier connection closed.
Noticed(l) ==
    /\ Alive
    /\ link[l].watcher = "waiting"
    /\ link[l].conn \in {"lost", "closed"} \/ link[l].reused
    /\ link' = [link EXCEPT ![l].watcher = IF Side(l) \in shutdown THEN "gone" ELSE "retrying"]
    /\ UNCHANGED <<clientVars, callback_queue, shutdown, losses, serverVars, panicked>>

\* A mutated form: reconnecting forgets the channel of the lost connection, so that
\* Queue consumes on the new one.
RedialAnew(l) ==
    /\ Alive
    /\ link[l].watcher = "retrying"
    /\ link' = [link EXCEPT ![l] = [conn |-> "up", watcher |-> "waiting", reused |-> FALSE,
                                    chan |-> "open"]]
    /\ request_consumer' = IF l = "sr" THEN "live" ELSE request_consumer
    /\ UNCHANGED <<clientVars, callback_queue, shutdown, losses, request, fetched, executed,
                   answer, panicked>>

\* WConnect, RConnect after one second: a new connection, with the channel and the
\* callback queue of the old one still in their fields. Queue fails on a dead channel.
Redial(l) ==
    /\ Alive
    /\ link[l].watcher = "retrying"
    /\ \/ link' = [link EXCEPT ![l].conn = "up", ![l].watcher = "waiting", ![l].reused = TRUE]
       \/ link' = [link EXCEPT ![l].conn = "nil", ![l].watcher = "gone"]
    /\ UNCHANGED <<clientVars, callback_queue, shutdown, losses, serverVars, panicked>>

\* Shutdown: what is open is closed.
Shut(side) ==
    /\ shutdown' = shutdown \cup {side}
    /\ link' = [l \in Links |->
                  IF Side(l) # side THEN link[l]
                  ELSE [link[l] EXCEPT !.conn = IF @ = "up" THEN "closed" ELSE @,
                                       !.chan = IF @ = "open" THEN "dead" ELSE @]]

\* Closing a redialled connection closes its notification channel a second time.
ClosesTwice(side) ==
    \E l \in Links : Side(l) = side /\ link[l].conn = "up" /\ link[l].reused

-----------------------------------------------------------------------------
(* amqpClient.Call and CallNR, in the goroutine of the caller.             *)

Refuse(c) ==
    /\ isClose
    /\ Move(c, "idle", IF c \in NoReply THEN "sent" ELSE "error")
    /\ UNCHANGED <<callInfos, call_chan, expired, isClose, done, responding, agentVars,
                   serverVars, panicked>>

Check(c) ==
    /\ ~isClose
    /\ Move(c, "idle", IF c \in NoReply THEN "registered" ELSE "checked")
    /\ UNCHANGED <<callInfos, call_chan, expired, isClose, done, responding, agentVars,
                   serverVars, panicked>>

\* CallbackQueue: the cached name, whatever became of its consumer, or a new queue.
HasQueue == callback_queue # "none" \/ (link["cr"].chan = "open" /\ "client" \notin shutdown)

CallbackQueue(asked) ==
    callback_queue' = IF asked /\ callback_queue = "none" /\ HasQueue THEN "live"
                      ELSE callback_queue

Resolve(c) ==
    /\ Move(c, "checked", IF HasQueue THEN "resolved" ELSE "error")
    /\ CallbackQueue(TRUE)
    /\ UNCHANGED <<callInfos, call_chan, expired, isClose, done, responding, link, shutdown,
                   losses, serverVars, panicked>>

\* A mutated form: Done leaves an empty table where it sets nil.
RegisterAlways(c) ==
    /\ Move(c, "resolved", "registered")
    /\ callInfos' = callInfos \cup {c}
    /\ UNCHANGED <<call_chan, expired, isClose, done, responding, agentVars, serverVars,
                   panicked>>

\* callInfos.Set, on a table that Done may have set to nil.
Register(c) ==
    /\ Move(c, "resolved", "registered")
    /\ callInfos' = IF done = "finished" THEN callInfos ELSE callInfos \cup {c}
    /\ panicked' = IF done = "finished" THEN "callInfos" ELSE "no"
    /\ UNCHANGED <<call_chan, expired, isClose, done, responding, agentVars, serverVars>>

\* ClientPublish: a channel first, then the callback queue, which CallNR needs as well.
\* The entry stays in callInfos when the caller is given the error.
HasChannel(l) == Side(l) \notin shutdown /\ (link[l].chan # "none" \/ CanOpen(l))

Publish(c) ==
    /\ \/ /\ Usable("cw") /\ HasQueue
          /\ Move(c, "registered", IF c \in NoReply THEN "sent" ELSE "waiting")
          /\ \E to \in {"queued", "gone"} : request' = [request EXCEPT ![c] = to]
          /\ UNCHANGED panicked
       \/ /\ ~(Usable("cw") /\ HasQueue) /\ ~Derefs("cw")
          /\ Move(c, "registered", IF c \in NoReply THEN "sent" ELSE "error")
          /\ UNCHANGED <<request, panicked>>
       \/ /\ Derefs("cw")
          /\ Move(c, "registered", "error")
          /\ panicked' = "wconn"
          /\ UNCHANGED request
    /\ link' = IF HasChannel("cw") THEN Opened("cw") ELSE link
    /\ CallbackQueue(HasChannel("cw"))
    /\ UNCHANGED <<callInfos, call_chan, expired, isClose, done, responding, shutdown, losses,
                   fetched, executed, answer, request_consumer>>

\* CallArgs, or ResolveCallbackChan for a SyncCall.
Receive(c) ==
    /\ call_chan[c] # "empty"
    /\ Move(c, "waiting", call_chan[c])
    /\ UNCHANGED <<callInfos, call_chan, expired, isClose, done, responding, agentVars,
                   serverVars, panicked>>

\* The deadline that CallArgs set passes.
Expire(c) ==
    /\ Alive
    /\ c \in callInfos \ expired
    /\ expired' = expired \cup {c}
    /\ UNCHANGED <<caller, callInfos, call_chan, isClose, done, responding, agentVars,
                   serverVars, panicked>>

-----------------------------------------------------------------------------
(* on_response_handle: one goroutine takes answers and expires calls.      *)

\* Send to the channels of S and close them; each has room for one message.
Settle(S, how) ==
    /\ call_chan' = [c \in Calls |-> IF c \in S THEN how ELSE call_chan[c]]
    /\ panicked' = IF \E c \in S : call_chan[c] # "empty" THEN "call_chan" ELSE "no"

\* An answer that finds no entry comes after the deadline.
TakeAnswer(c) ==
    /\ Alive /\ responding
    /\ answer[c] = "fetched"
    /\ answer' = [answer EXCEPT ![c] = "gone"]
    /\ Settle(callInfos \cap {c}, "reply")
    /\ callInfos' = callInfos \ {c}
    /\ UNCHANGED <<caller, expired, isClose, done, responding, agentVars, request, fetched,
                   executed, request_consumer>>

\* A mutated form: the scan leaves the calls whose publishing failed.
ScanSkipsFailed ==
    LET S == {c \in callInfos \cap expired : caller[c] # "error"} IN
    /\ Alive /\ responding
    /\ S # {}
    /\ Settle(S, "timeout")
    /\ callInfos' = callInfos \ S
    /\ UNCHANGED <<caller, expired, isClose, done, responding, agentVars, serverVars>>

\* on_timeout_handle, once a second.
Scan ==
    LET S == callInfos \cap expired IN
    /\ Alive /\ responding
    /\ S # {}
    /\ Settle(S, "timeout")
    /\ callInfos' = callInfos \ S
    /\ UNCHANGED <<caller, expired, isClose, done, responding, agentVars, serverVars>>

\* Done. Its goroutine is told to end over an unbuffered channel, between two messages.
DoneMark ==
    /\ Alive
    /\ done = "idle"
    /\ done' = "closing"
    /\ isClose' = TRUE
    /\ UNCHANGED <<caller, callInfos, call_chan, expired, responding, agentVars, serverVars,
                   panicked>>

DoneShutdown ==
    /\ Alive
    /\ done = "closing"
    /\ done' = "shut"
    /\ Shut("client")
    /\ panicked' = IF ClosesTwice("client") THEN "notify" ELSE "no"
    /\ callback_queue' = IF callback_queue = "live" THEN "dead" ELSE callback_queue
    /\ answer' = [c \in Calls |-> IF answer[c] = "queued" THEN "gone" ELSE answer[c]]
    /\ UNCHANGED <<caller, callInfos, call_chan, expired, isClose, responding, losses,
                   request, fetched, executed, request_consumer>>

DoneJoin ==
    /\ Alive
    /\ done = "shut"
    /\ done' = "joined"
    /\ responding' = FALSE
    /\ UNCHANGED <<caller, callInfos, call_chan, expired, isClose, agentVars, serverVars,
                   panicked>>

\* The entries of Items() are closed and deleted; what is set after it stays.
DoneSweep ==
    /\ Alive
    /\ done = "joined"
    /\ done' = "swept"
    /\ Settle(callInfos, "closed")
    /\ callInfos' = {}
    /\ UNCHANGED <<caller, expired, isClose, responding, agentVars, serverVars>>

DoneNil ==
    /\ Alive
    /\ done = "swept"
    /\ done' = "finished"
    /\ callInfos' = {}
    /\ UNCHANGED <<caller, call_chan, expired, isClose, responding, agentVars, serverVars,
                   panicked>>

-----------------------------------------------------------------------------
(* The broker and amqpServer. RPCServer is the environment: it runs the    *)
(* function and calls Callback when the caller wants an answer.            *)

\* on_handle forwards a delivery to readMsg.
Fetch(c) ==
    /\ Alive
    /\ request[c] = "queued" /\ request_consumer = "live"
    /\ request' = [request EXCEPT ![c] = "unacked"]
    /\ fetched' = fetched \cup {c}
    /\ UNCHANGED <<clientVars, agentVars, executed, answer, request_consumer, panicked>>

\* on_requese_handle acknowledges first, which is in vain after a loss, and passes the
\* request on; a body that is no RPCInfo is dropped.
TakeRequest(c) ==
    /\ Alive
    /\ c \in fetched
    /\ fetched' = fetched \ {c}
    /\ request' = [request EXCEPT ![c] = IF @ = "unacked" THEN "gone" ELSE @]
    /\ executed' = [executed EXCEPT ![c] = @ + 1]
    /\ answer' = [answer EXCEPT ![c] = IF c \in NoReply \/ @ # "none" THEN @ ELSE "due"]
    /\ UNCHANGED <<clientVars, agentVars, request_consumer, panicked>>

\* After RPCServer.Done nobody takes from call_chan.
DropRequest(c) ==
    /\ Alive
    /\ c \in fetched /\ "server" \in shutdown
    /\ fetched' = fetched \ {c}
    /\ UNCHANGED <<clientVars, agentVars, request, executed, answer, request_consumer,
                   panicked>>

\* Callback: ServerPublish to the callback queue, which may be gone.
Callback(c) ==
    /\ Alive
    /\ answer[c] = "due"
    /\ ~Derefs("sw")
    /\ link' = IF HasChannel("sw") THEN Opened("sw") ELSE link
    /\ answer' = [answer EXCEPT ![c] =
                     IF Usable("sw") /\ callback_queue = "live" THEN "queued" ELSE "gone"]
    /\ UNCHANGED <<clientVars, callback_queue, shutdown, losses, request, fetched, executed,
                   request_consumer, panicked>>

\* The server's process dies: it asks a connection for a channel that is nil.
CallbackPanics(c) ==
    /\ Alive
    /\ answer[c] = "due"
    /\ Derefs("sw")
    /\ Shut("server")
    /\ request_consumer' = "dead"
    /\ request' = Requeued
    /\ fetched' = {}
    /\ answer' = [d \in Calls |-> IF answer[d] = "due" THEN "gone" ELSE answer[d]]
    /\ UNCHANGED <<clientVars, callback_queue, losses, executed, panicked>>

FetchAnswer(c) ==
    /\ Alive
    /\ answer[c] = "queued" /\ callback_queue = "live"
    /\ answer' = [answer EXCEPT ![c] = "fetched"]
    /\ UNCHANGED <<clientVars, agentVars, request, fetched, executed, request_consumer,
                   panicked>>

\* amqpServer.Shutdown; it counts as one of the losses.
ServerShutdown ==
    /\ Alive
    /\ losses < MaxLosses
    /\ losses' = losses + 1
    /\ Shut("server")
    /\ request_consumer' = "dead"
    /\ request' = Requeued
    /\ UNCHANGED <<clientVars, callback_queue, fetched, executed, answer, panicked>>

-----------------------------------------------------------------------------
CallerNext(c) == Resolve(c) \/ Register(c) \/ Publish(c) \/ Receive(c)
ServerNext(c) == Fetch(c) \/ TakeRequest(c) \/ DropRequest(c) \/ Callback(c)
                 \/ CallbackPanics(c) \/ FetchAnswer(c)
DoneNext == DoneShutdown \/ DoneJoin \/ DoneSweep \/ DoneNil

Next ==
    \/ \E c \in Calls : Refuse(c) \/ Check(c) \/ CallerNext(c) \/ Expire(c)
                        \/ TakeAnswer(c) \/ ServerNext(c)
    \/ Scan \/ DoneMark \/ DoneNext \/ ServerShutdown
    \/ \E l \in Links : Lose(l) \/ Noticed(l) \/ Redial(l)

Spec == Init /\ [][Next]_vars

-----------------------------------------------------------------------------
\* No channel of a call is sent to or closed a second time: answers, the scan and Done
\* share the table, one goroutine makes the first two and Done waits for it to end.
SettledOnce == panicked # "call_chan"

\* A request is executed at most once, though the broker delivers it again when the
\* connection is lost before the acknowledgement: the agent that reconnects never
\* consumes again, because RChannel returns the channel of the lost connection.
ExecutedOnce == \A c \in Calls : executed[c] <= 1

\* How a call that passed the check ends: it returns, and its entry leaves the table
\* even when its publishing failed, whichever connections are lost and whenever the
\* client is closed: a failed publish is an error, a lost answer meets the deadline, and
\* nothing can be published once Done may have swept the table.
Ended(c) == (caller[c] \in Returned /\ c \notin callInfos) \/ ~Alive
=============================================================================
