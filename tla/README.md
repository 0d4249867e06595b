# A verification of lodos

lodos is a Go framework for game servers: an application starts *modules*, modules call each
other by RPC (in process, over RabbitMQ, over Redis), and a *gate* module terminates the MQTT
connections of players and routes their messages to modules. This directory holds TLA+ models of
it (RPC over all three transports, the gate with its sessions and its MQTT connections, the
network, start and stop of a process, the codecs, the logger), the TLC configurations that check
them on small instances, and TLAPS proofs of all their safety properties, for every value of the
constants.

Paths below are relative to `src/`. `PROJECT.json` lists for every definition the lines it models.

## 1. Inventory

| component | state | operations | interacts with | hard behaviour | what makes it correct |
|---|---|---|---|---|---|
| RPC server engine `rpc/base/rpc_server.go`, `local_server.go` | `mq_chan`, `callback_chan`, slots `ch`, wait group `wg`, `isClose` | accept, run, time out, answer, `Done` | clients through a transport; registered functions | a deadline races the function; slots and wait group on a dozen exits; shutdown under load | resources balance, one answer per request, shutdown drains |
| local RPC client `local_client.go` | table `callInfos`, channel per call, `result_chan`, `isClose` | `Call`, `CallNR`, result, timeout scan, `Done` | the engine; callers' goroutines | three parties settle the same call | each call is settled once, and in time |
| client facade `rpc_client.go`, wiring `app/app.go` | the clients of a remote module | `CallArgs`, `Done` | the three clients | order of shutdown | no answer meets a closed client |
| RabbitMQ client, server, agent `amqp_*.go`, `rpc_rabbitmq.go` | table, connections, cached channels, callback queue | call, publish, redial, close | broker | lost connection, stale channel, failed publish, redelivery | as the local client; a request is executed at most once |
| Redis client, server `redis_*.go` | table, lists in Redis | call, push, pop, timeout | Redis | two goroutines settle calls | as the local client |
| argument codec `rpc/argsutil`, `utils/params_bytes.go` | none | encode, decode | all RPC | type tags, map and nil cases | round trip |
| MQTT session `gate/base/mqtt/mqtt_client_server.go`, `pack_queue.go` | `readChan`, `writeChan`, `noticeFin`, `writeError`, `isStop` | `Listen_loop`, `waitPack`, `WriteMsg`, read and write loops | connection, agent, pushing RPC functions | who closes which channel, when a read or a write fails | order of answers; failures end the session; nobody is left waiting |
| MQTT agent, gate `mqtt_agent.go`, `mqtt_gate.go` | session, counters | `Run`, `OnRecover`, `OnClose` | MQTT session, gate handler, RPC | session visible before CONNACK | CONNACK first |
| gate handler, sessions, storage `gate_handler.go`, `session.go` | table of agents, settings | `Bind`, `Update`, `Push`, `Send`, `Close` | agents, other nodes, storage | look-up then use; merge with stored settings; the storage reads the session without a lock | table agrees with live agents; what is stored follows the session |
| network `network/*.go` | connection tables, wait groups | accept, close, read, write, reconnect | agents | accept, upgrade, dial versus `Close` | `Close` returns, nothing is served after it, every connection is closed in the end |
| module manager, modules `app/module_manager.go`, `module/base` | module list, wait groups | start, run, destroy | application | a `Run` that panics or does not stop | reverse order, shutdown ends |
| routing, application `app/app.go` | a client per configured id | `OnInit`, `Run`, `RegisterLocalClient`, `OnDestroy` | module manager, RPC | clients exist before their modules do | an id reaches its module, on the right transport |
| concurrent maps `utils/*map*.go` | shards and locks | set, get, delete, iterate | all tables | iteration under change | an iteration yields each shard as it was at one moment |
| MQTT codec `gate/base/mqtt/mqtt.go` | none | `ReadPack`, `WritePack` | the session | lengths computed apart from the bytes | reader and writer stay in step |
| logging `log/`, `log/beego` | `msgChan`, `signalChan`, `wg`; the files | log, `Flush`, `Reset`, `Close`; write, rotate, delete | every goroutine | a flush under load; rotation by several writers and timers | no line is lost or kept twice |
| goroutine helper, ids `utils/safego.go`, `utils/uuid` | a counter | | | | |
| exchange verification `addon/ver`, sequence service `addon/seq` | | | | unfinished in the source | |
| configuration, database factories, other log adapters | | | | | sequential or third-party |

`hazards` in `PROJECT.json` gives the line of every hard behaviour, with the properties that cover
it or the reason why none does.

### How the parts interact

A player's packet is read by `ReadPackInLoop`, handed through `readChan` to `Listen_loop`, which
answers it and calls `OnRecover`; that makes an RPC call (`CallArgs`), so the goroutine of the
connection waits at the call's channel. `localClient.Call` registers the call in `callInfos` and
sends the request to the server's `mq_chan`; `on_call_handle` starts a goroutine per request,
which takes a slot, counts itself in `wg`, and starts a second goroutine for the registered
function. The result goes through `callback_chan` to `on_callback_handle`, from there to the
client's `result_chan`, from there to the call's channel. The function may in turn push messages
to sessions, which enter `writeChan` of the connection from yet another goroutine. On an interrupt
`app.Run` destroys the modules (`app.go:194`), each of which calls `Done` of its RPC server, and
then the clients (`app.go:195`).

A module of another process is called the same way over RabbitMQ, or over Redis if no RabbitMQ is
configured for it; the client facade takes the first transport it was given. What another module
asks of a player's session (`Bind`, `Push`, `Set`, `Close`, ...) is an RPC to the gate, served by
`gateHandler` in a goroutine per request on the session of the agent it finds in its table; the
asking module holds a copy and takes over the one in the answer. The gate's `Run` starts a TCP and
a WebSocket server whose goroutines run the agents, and closes both before it returns.

## 2. The modules

| module | models | role |
|---|---|---|
| `CallContract` | what `CallArgs` promises its caller | abstract specification of an RPC client |
| `LocalClient` | `local_client.go` | detailed; implements `CallContract` |
| `RpcServer` | `rpc_server.go`, `local_server.go` | the engine with the in-process transport |
| `LocalRpc` | `app.go`, `rpc_client.go`, the two above | their composition; implements both |
| `AmqpRpc` | `amqp_client.go`, `amqp_server.go`, `rpc_rabbitmq.go` | calls over RabbitMQ, with the broker as environment |
| `RedisRpc` | `redis_client.go`, `redis_server.go` | calls over Redis, with Redis as environment |
| `RemoteRpc` | `rpc_client.go` and the two above | the facade in front of either |
| `MqttAgent` | `mqtt_agent.go`, `mqtt_client_server.go`, `pack_queue.go` | one MQTT connection and its pushers |
| `GateSessions` | `gate_handler.go`, `session.go`, `mqtt_gate.go` | the sessions of a gate and the RPCs on them |
| `AppLifecycle` | `app.go`, `module_manager.go`, `module/base` | one process, from configuration to exit |
| `TcpServer`, `WsServer` | `tcp_server.go`; `ws_server.go`, `ws_conn.go` | the two servers of a gate |
| `ConnClient` | `tcp_client.go`, `ws_client.go` | connections that are dialled |
| `Lifecycle` | | what starts and stops: the four above, one at a time |
| `MqttCodec` | `mqtt.go` | packets as bytes |
| `ArgsCodec` | `argsutil`, `params_bytes.go`, `rpc_client.go`, `rpc_server.go`, `mqtt_gate.go` | RPC values as bytes, along a call |
| `BeeLogger`, `LogFile` | `log.go`, `beego/log.go`; `beego/file.go` | the logger; its files and their rotation |
| `ConcurrentMap` | `concurrent-map.go` | the sharded map under iteration |
| `Library` | | what the others build on: the five above, one at a time |
| `LocalClient_proofs`, `RpcServer_proofs`, `LocalRpc_proofs`, `RemoteRpc_proofs`, `MqttAgent_proofs`, `GateSessions_proofs`, `Lifecycle_proofs`, `Library_proofs` | | theorems |
| `MC*` | | constants for TLC |

`Lifecycle` and `Library` put together components that do not touch each other's state: a
behaviour is one of one component, chosen by `part` in the initial state.

All modules share some conventions. A variable that holds the place of a goroutine has the
goroutine's name (`on_response`, `on_call`, `writer`, ...); a record with a field `at` carries
what it holds in its hands. A channel that is closed is a record `[buf, open]`. One action is
what a goroutine does between two operations that another goroutine can observe. A panic
outside any `recover` sets `panicked` and disables everything: the process is dead. Definitions named as mutated forms ("A mutated form: ...")
stand next to the action they change; they are not part of the specification and serve to show
that a property does depend on the code.

### LocalClient

`caller[c]` is the goroutine of call `c`: `idle`, `checked` (past the look at `isClose`, line 66),
`writing` (in the table, in `WriteToRpcServer`), `awaiting`, and how it ended. `callInfos` is the
table of outstanding calls, `call_chan[c]` the call's channel of capacity one. `on_response` is
the dispatching goroutine: at its select, looking up a result, at the timeout scan (`todo` is the
copy `Items` made), sending, closing. `done` is the place of `Done`, `sweep` what it still has to
close. The table operations hold the map's lock, and `Items` copies under it, so each is one step.
`NoReply` are the calls made with `CallNR`. The server is the environment: it accepts, ignores, answers or forgets a request,
and may die.

The unsynchronised read of `isClose` may return a stale value; that is the same as reading
earlier, which the interleaving of `Check` and `DoneStop` covers. A timer of the select is a
choice: `TimerFires` may happen at every select. Identifiers of calls (random UUIDs) do not
collide.

### RpcServer

`task[r]` is the goroutine of `runFunc` for request `r`, `fn[r]` the second goroutine with the
registered function. `ch` and `wg` are kept as the *code's* counters, and the property
`Accounting` relates them to where the goroutines are. `counted` is a history variable: the
requests in the wait group when `Done` began to wait. `answers[r]` is another: how often `r` was
answered. `expired` is the set of requests whose deadline has passed; time may pass whenever it
likes. `on_call`, `on_callback` are the two dispatching goroutines, `done` the place of `Done`.
The client is the environment: it takes answers, or closes `result_chan`.

`executing` is left out: it is incremented without a lock, but only reported. `Register` and
`RegisterGo` fill a table before requests arrive, and `_runFunc` makes the same steps for either.
The panic of a `WaitGroup` that is reused while `Wait` runs is not modelled.

### LocalRpc

`INSTANCE`s of both, sharing `result_chan`, `expired` and `panicked`. A step is a step of one
component, or of both where they meet: a caller that writes its request *is* the goroutine that
sends to `mq_chan`, so `Take` is `Spawn` of the server and `Accepted` of the client. `StopClient`
waits for the server's `Done` as in `app.Run`.

### MqttAgent

`run` is the goroutine of the connection from `agent.Run` to `OnClose`, `reader` and `writer` are
the two loops of the queue, `pusher[p]` a goroutine of an RPC function in `gateHandler.Send`.
Packets are kept by what `waitPack` does with them (`Kinds`). `wire` is a history of what was
written. `noticeFin` counts the one-byte notices of a failed write. Reads and writes may fail at
any moment, `CloseConn` closes the connection at any moment (an RPC `Close`, or the network
server's). A second CONNECT, which the code answers through the queue, is one of the answered kinds.
Left out: `errorChan` (its only message fits its buffer and nobody reads it), `closeChan`
(nobody sends on it), `WriteDelayPack` and `Flush` (nobody calls them), the read deadline `SetAlive` moves, and
message ids (not sent at QoS 0).

### AmqpRpc, RedisRpc, RemoteRpc

`caller[c]`, `callInfos`, `call_chan`, `expired`, `isClose` and `done` are those of `LocalClient`.
The difference is who settles.

Over RabbitMQ one goroutine (`responding`) takes answers and scans the deadlines. `link` is what a
`RabbitAgent` knows of its four connections, client and server, writing and reading: the
connection, the channel it *cached*, and the watcher that redials. A redial replaces the
connection and not the channel (`rpc_rabbitmq.go:156`), nor the callback queue (`:220`); a failed
redial ends the watcher and leaves a nil connection (`:318`). `request[c]` is where the broker has
the request, requeued when its consumer's connection is lost before the acknowledgement, and
`executed[c]` counts executions. The fatal events of the code end in `panicked`: the entry written into
a nil table after `Done`, a channel asked of a nil connection.

Over Redis there are two goroutines, `popping` and `timing`; the scan and `Done` work on copies
(`scan`, `sweep`) of the sharded map. `AssertMatched` is the panic of a value assertion on a stored
pointer (`redis_client.go:196`): the first answer whose entry is found kills the process. That is why
only calls that time out, fail or are closed come back over Redis. `missed` is a history variable:
calls that registered after `Done` had taken its copy, which nothing settles any more.

`RemoteRpc` starts from every set of transports the facade may have been given and takes the first.

### GateSessions

`sessions` is the handler's table, `agent[s]` the connection behind it, `userid` and `settings` the
session of the agent, `store` what the user-supplied storage holds. `copy[c]` is the copy of the
session in a calling module, `op[c]` its call and the goroutine that serves it, with one
action for each access to shared state: look-up, change, decision to store, query, merge, store,
answer. Storing is three steps: the user is looked up (`StoreFor`; `Bind` stores for the user it
was given), the storage, which is handed the live session, reads it (`StorageReads`, into `image`)
and writes what it read (`StorageWrites`), or fails. Nothing orders the writes of two
goroutines. An RPC is answered with the session as it is then. `binders`, `own`, `raced`, and
`older`, `late` and `overtaken` are history: the last three record the order of the readings of a
session and whether an older one was written last.

### AppLifecycle, TcpServer, WsServer, ConnClient

`stage` is where `app.Run` is and `at` the index it works at; `client[id]` is how the client of a
configured id reaches its module. `run[t]`, `closeSig[t]` and `wg[t]` are the goroutine of a module and what
`Destroy` tells it and waits for. A module may return early or panic.

In the servers `conn[c]` is a socket, `agent[c]` the goroutine that runs its agent, `conns` the
table with `MaxConnNum`, and the wait groups are kept as the code's counters. The accepting goroutine of TCP and
the goroutine of `ServeHTTP` are modelled step by step, so that `Close` comes between any two.
`WsServer` has a second goroutine per connection that hands on what it reads. `ConnClient` is one
module for both clients, which differ only in the way they dial.

### MqttCodec, ArgsCodec

Pure operators, driven by a few actions so that packets and calls follow each other. `MqttCodec`
writes and reads sequences of bytes; the digit of a remaining length has `Base` values, so that one to
four length bytes occur in short packets. `Crosses(p)` says which packets survive, each conjunct for
one reason in the code. `WritablePacks` and `ClientPacks` are the packets that the two ends can be
given at all: strings and ids that two bytes tell, a CONNECT with the strings its flags announce.
The loop over the filters of a SUBSCRIBE is a recursive function, and the optional strings of a
CONNECT are read one after the other by `ReadIf`. `ArgsCodec` sends a list of values from a caller through the engine and
back; a machine word has `WordSize` values, so that truncation and sign are visible with small
numbers. `Arguments` are the values Go has, by type and width; `Crosses(x)` again says what the
conversions can carry.

### BeeLogger, LogFile, ConcurrentMap

`BeeLogger`: `worker` is the goroutine of `startLogger`, `logger[l]` one that logs, `owner[o]` one
that calls `Flush`, `Reset` or `Close`; `msgChan`, `signalChan` and `wg` are the code's. `overlap` is a
history variable: two such calls at a time, or one after `Close`. `LogFile`: `current` and
`archives` are the files with the lines in them, `writing[w]` a goroutine in `WriteMsg`,
`timers` and `deleters` the goroutines of `dailyRotate` and `deleteOldLog`; a rename or an open may
fail, and the process may restart. `crammed` is a history variable: lines of writers that found the
file due and every name of their day taken. `ConcurrentMap`: `items` is the map, `sized` and `chans` the channels of an
iteration, `during` a history of what each shard held since it began.

## 3. The runs

| run | instance | what it shows |
|---|---|---|
| `local_client` | two calls, one `CallNR`, `result_chan` of one | `SettledOnce`: no send on or close of a closed channel, and no second send on one, by result, scan and `Done` together. `ClosedOnlyByDone`: a caller that learns "closed" learns the truth. `ImplementsContract`: the refinement. `TimelySettlement`: what was registered before the shutdown is settled, whatever the server does. |
| `rpc_server` | two requests, two slots, queues of one, functions that may panic | `Accounting`: slots and wait group are exactly the requests inside the code they guard. `AnsweredOnce`. `DrainedBeforeClose`: `Done` does not go on before what it waits for has queued its result. `FewAnswersLost`: of those at most the capacity of `callback_chan` is not sent. `AcceptedIsAnswered`, `DoneTerminates`. |
| `local_rpc` | two calls, one slot, with the shutdown | `ImplementsClient`, `ImplementsServer`: the composition does nothing the components do not do alone, so what is proved of them holds here. `NoAnswerToClosedClient`: the order of shutdown keeps the server from sending on the closed `result_chan`, although nothing in the server checks. `CallReturnsWhileUp`: until somebody shuts down, every call comes back, also when its function never does and holds the only slot. |
| `remote_rpc` | one answered call and one `CallNR`, RabbitMQ with one lost connection, or Redis | `SettledOnce` on either transport. `ExecutedOnce`: a request the broker delivers again is not executed twice. `CallEnds`: whatever is lost, stale, refused or redialled, a call the client took returns and leaves the table, unless the process dies or, over Redis, it registers after `Done` has copied the table. |
| `mqtt_agent` | two packets, two pushed messages, channels of one | `ConnAckFirst`, `AnswersInOrder`: what the peer sees. `ClosedOnlyByFailure`: the queue is never closed under its users unless a write failed. `FailureEndsSession`: a failed write gets all three goroutines out and the session out of the table. `PushReturns`: no push waits for ever, unless the session ended before its writer was started. |
| `gate` | one session, two modules that call, two users, three calls, one storage failure | `BindKeepsOwn`: a `Bind` that has the session for itself loses none of the session's settings to the stored ones. `WriteThrough`: when all calls are answered the storage holds what the session holds, however they overlapped (but for `Bind`), unless what was read of it first was written last. `TypeOK`: the table holds only agents that run. |
| `lifecycle` | every configuration of up to three modules; three connections for two places; two dialers | `ReachedRightly`: an id reaches its module on the right transport, and nothing that was not given to the process. `DestroyOrder`. `Bounded`, `ClosedMeansGone`: `Close` at any moment of an accept or a dial leaves nothing behind; `Close` of the WebSocket server leaves no agent, and only upgrades under way open. `Stops`: those end too, and the shutdown, unless a `Run` panicked. |
| `library` | see the bounds | `InSync`: packets are read as they were written, however they were flushed together. `RoundTrip`: values of a call cross and cross back. `FlushKeeps`: `Flush` and `Close` return with everything logged before in the files. `KeptOnce`: rotation loses no line and keeps none twice. `RotatedOnce`: a file limited by lines is put away neither before its limit nor much after it, unless no name is left. `ItemsSound`: iteration under change. |
| `slots_vs_functions` | as `rpc_server`, one slot | violated: see finding 1 |
| `done_waits` | as `rpc_server`, one slot | violated: see finding 2 |
| `call_returns_stop` | one call with the shutdown | violated: see finding 3 |
| `agent_goroutines` | as `mqtt_agent` | violated: see finding 4 |

`CHECK_DEADLOCK FALSE` is in every configuration because the systems may stop: all callers have
returned, the process has died or exited, the session is over, nobody uses the library. That
nobody waits for ever is what the liveness properties say.

**Bounds.** No property relates three calls with each other: the table, slots and channels relate
a call to the goroutine that serves it and to one competitor for a slot, a buffer place or the dispatcher.
Two calls and capacities of one make every queue full and every slot contended, and a larger
capacity only removes blocking. Two packets suffice for order: an order that is wrong is wrong for
some pair. In `MqttAgent` the two pushers and the connection's goroutine compete for a queue of
one. The proofs below remove the bounds for every safety property. `WriteCap`, `ReadCap`, `ResultCap`, `CallbackCap`, `ReplyCap`, `MaxCoroutine`,
`MaxConnNum`, `msgChanLen`, `MaxNum`, `MaxDays`, `Base`, `WordSize` and `MaxLines` are numbers of
the code, made small. The following bounds are the models' own:

| bound | of | why it is enough |
|---|---|---|
| `MaxPacks` = 2 (`MqttAgent`) | packets of the peer | an order that is wrong is wrong for two |
| `MaxLosses` = 1 | connections RabbitMQ loses | any of the four, at any moment; a second loss of the same connection meets the state the first one left, a channel and a watcher that are never renewed |
| `MaxCalls` = 3 | RPCs on a session | two that overlap and one before or after them, which is what a `Bind` between two changes takes; local changes of a copy are free |
| `MaxFailures` = 1 | failures of the storage | a failure only leaves the stored settings as they were |
| `MaxSettings` = 3 | modules of a configuration | an id used twice, one of another process and one that was not given at the same time |
| `MaxDials` = 3 | connections dialled | two dialers, one of which reconnects |
| `MaxPacks` = 2 (`MqttCodec`) | packets on a connection | a packet that leaves the reader out of step spoils the next |
| `MaxMsgs` = 1 | messages of a logging goroutine | two goroutines and a queue of one: one message queued, one waiting, a signal between them |
| `MaxWrites` = 5 | lines | two rotations of a file of two lines, or three of one line, with `MaxNum` = 2 names a day, and a file that outgrows its limit for want of a name and is put away the next day |
| `LastDay` = 2 | days | lines of yesterday and today, a timer that fires, a file that is old |
| `MaxFaults` = 1 | restarts, failed renames and opens | each happens at any moment |
| `MaxChanges` = 3 | changes of the map | one before, one between and one after the two steps of a shard |

`gate` and `library` use symmetry over interchangeable goroutines, users and values, and check
invariants only.

**Fairness.** A goroutine that can run does (weak fairness per goroutine): the Go scheduler
preempts and resumes all. Deadlines pass. Strong fairness is assumed once, for `Done` meeting
`on_response_handle` at a `select`, where Go chooses among the ready cases at random, so that it does not
pass over one for ever. *Not* assumed: that a registered function returns, that anyone calls,
pushes, logs in, or interrupts. `RpcServer`'s client takes the answers it is sent. In `MqttAgent`
a read and a write come to an end: a read has a deadline always (`pack_queue.go:67`), a write when
`conf.Mqtt.WriteTimeout` is set, without which a peer that stops reading can hold the writer; and the RPC call of `OnRecover` returns, which is `CallReturnsWhileUp`.

`CallReturnsWhileUp` is stated under `CallSpec`, the specification without the shutdown. In
`RemoteRpc` the goroutines of the calls, of the client and of its `Done` go on and deadlines pass, with strong fairness for
`Done` meeting the `select` of the Redis timeout goroutine as above; nothing is assumed of the
broker, of Redis or of the server. In `Lifecycle` the goroutines of the servers, of `Close` and of
the dialers go on, an agent returns once its socket is closed, and a module that was told to stop
returns from `Run`; nobody has to connect, to answer a dial or to interrupt.

### Findings

1. **Slots do not bound functions** (`rpc_server.go:372`). `MaxCoroutine` is described as the
   largest number of goroutines of a module; at the deadline `runFunc` gives its slot back while
   the function runs on. `RunningWithinSlots` fails.
2. **`wg.Add` is inside the goroutine** (`rpc_server.go:279`), after its slot was taken:
   `Done` can pass `wg.Wait()` while an accepted request is on its way to the count, and closes
   `callback_chan` under it. `DoneWaitsForTasks` fails. `DrainedBeforeClose` is what does hold.
3. **A call can outlive the shutdown** (`local_client.go:77`). A caller that looked at `isClose`
   before `Done` set it, and registered after `Done` cleaned up, waits for ever. `CallReturns`
   fails in a run with the shutdown; `TimelySettlement` is what does hold.
4. **A finished session leaves two goroutines** (`pack_queue.go:206`). After a read error, the usual end
   of a connection, nobody closes the queue: the reader waits for the notice of a failed write,
   the writer for a packet. `GoroutinesFreed` fails; `FailureEndsSession` is what does hold.

### Observations

These have no run, because no text of the repository promises otherwise. Each is behaviour of a
model, and excepted by name where a property would fail on it.

*RPC.* A panic in a registered function takes the process down (`FnPanics`). After RabbitMQ has reconnected, calls
still publish on the channel of the lost connection and answers go to a callback queue that is
gone, so they end by error or deadline. A redial that fails leaves a nil connection, and the next call
that asks it for a channel panics. A call that registers after `Done` set `callInfos` to nil
panics. The first Redis answer that finds its entry ends the process. `ExecutedOnce` holds
because a server that lost its connection never consumes again. A facade
with several transports always takes the first: in-process, RabbitMQ, Redis.

*MQTT.* A push to a session whose CONNACK could not be written waits for ever once its queue is
full, which `PushReturns` excepts. The length of SUBSCRIBE omits the message id, and of a longer
topic list only the first length byte is written; at most three length bytes are read; a PUBLISH
at QoS 0 with a payload of less than two bytes is refused; an UNSUBSCRIBE filter of one byte is not read
(`Crosses` of `MqttCodec`).

*Sessions.* Settings of one user stay in the session over `UnBind` and reach the next user it is bound to. `Push` replaces all
settings by the caller's copy, so a concurrent `Set` may be lost. The first `Bind` of a user
stores nothing. A `Bind` that overlaps another call may lose the other's change. A change that is
overtaken by `UnBind` is stored under the empty user. Two calls that store at the same time write in any
order, and an older state of the session can stay in the storage until the next call stores
(`overtaken`, which `WriteThrough` excepts). `session.Close` passes an argument too many, and the engine
refuses the call. Set and remove have no method of the session.

*Network, process.* The reading goroutine of a WebSocket connection does not end with it. A module whose
`Run` panics makes the shutdown wait for ever, and the modules before it are not destroyed.

*Values.* `int` is truncated to 32 bits and comes back without a sign; numbers in a map come back
as `float64`; an empty map as nil (`Crosses` of `ArgsCodec`).

*Logging.* A message logged while or after the logger is closed, and overlapping calls of `Flush`,
panic (`overlap` in `BeeLogger`). `app.Run` never closes the logger, so what is queued at exit is lost. With a
"file" setting the key "maxlevel" is not known to the adapter, and errors go to both files.
Every opening of a file starts one more goroutine that waits for midnight; a line of yesterday
written today rotates the file once more; and `deleteOldLog` may delete the file being written, if
it is old by its time of modification, so that later lines go to a deleted file (`orphans`). When
the numbers of a day are used up `doRotate` gives up (`file.go:284`): the file outgrows its limit and
is put away on the next day, also without `Daily`, because the names are of the day of the message.

## 4. The proofs

Checked by TLAPS for every set of calls, requests, connections, sessions or goroutines, finite or
not (but for the dialers of a client, the keys of a map and the writers of a log file, which are
finite), for all capacities and limits and all bounds, under the assumptions the modules state about
their constants (`LocalClientAssumption`, ...), which TLC evaluates in every run. Every strengthened
invariant was checked by TLC before it was proved (that of the packets with their encodings in the
place of `Crossing`, which speaks of all sequences of bytes). Each proof module ends its component's argument in
three facts: the initial states satisfy the invariant, every step keeps it, it implies the property.

`LocalClient_proofs`: `TypeCorrect`, `NeverSettledTwice`, `OnlyDoneCloses` and `RefinesContract`
(`Spec => ImplementsContract`, a refinement). `SettledOnce` is not inductive: that a send finds
an open and empty channel depends on who holds the call. The invariant `IInv` says so: a call in the table is
unsettled and under way (`TableInv`); an unregistered one has a fresh channel (`CallerInv`); what
`on_response_handle` has taken out of the table belongs to it alone, and what its scan still has
to do is in the table (`ResponseInv`); what `Done` sweeps is in the table, and the dispatcher is
gone (`SweepInv`); a waiter under an empty closed channel exists only after the sweep began
(`ClosedInv`). The crux is one exclusion, which the code achieves by the rendezvous in `Done`:
`on_response.at = "exit"` exactly when `done` is past it. The refinement maps each action to
opening, refusing or settling one call, or to a stutter, with `OneOutcome` as the bridge from
functions to `EXCEPT`.

`RpcServer_proofs`: `TypeCorrect`, `AccountsBalance`, `NeverAnsweredTwice`, `DoneDrains`,
`DoneLosesFew`. The counters are compared with cardinalities of the *regions* of the code
(`HoldsSlot`, `Counted`); `StaysPut`, `GoesIn` and `GoesOut` say how a cardinality follows the
one request that moves, so each action of `runFunc` needs one line. That the regions stay finite
is part of the invariant, not an assumption. A result is in one place at a time, the queue, the
hands of `on_callback_handle`, or sent (`QueueInv`), and a wanted one does not vanish (`KeptInv`);
`DoneLosesFew` then bounds what is left by the capacity of a queue without duplicates
(`QueueSize`).

`RemoteRpc_proofs`: `TypeCorrect`, `NeverSettledTwice` and `NeverExecutedTwice`. Over either
transport, what is in the table is unsettled (`UnsettledInv`). Over RabbitMQ each settling takes
the entry out of the table in the same step, so that is enough. Over Redis the scan and `Done`
settle from *copies*: `CopiesInv` says that a copy is part of the table, and that only one of the
two ever holds one, because `Done` copies after it has waited for the goroutine that scans.
`DeliveryInv` is why a request the broker queues again is not executed twice: queueing again
happens when the consumer's connection has died, and the consumer is never set up anew, so that
no request is fetched after it. The property thus rests on the code *not* recovering its
consumer; who repairs that (section 3, observations) has to find another reason for it.

`Lifecycle_proofs`: `AgentsTabled` (`Bounded`) and `NothingAfterClose` (`ClosedMeansGone`). The
wait groups are cardinalities of the sets of goroutines between `Add` and `Done` (`TcpServed`,
`WsServed`, `Undone`), so that a `Wait` that returns means that the set is empty. `TcpControl`
carries the rest of the argument: when the wait for the accepting goroutine is over that
goroutine has not begun or has ended, the listener is closed, and so no connection is on its way
to the table that `CloseConns` throws away. For WebSocket, where an upgrade may end after
`Close`, it is the missing table that keeps agents from starting (`WsControl`, which also says that a
socket is open only during its upgrade or while its agent is served); for the clients
the flag that is read under the lock of the table (`ClientControl`).

The same module proves `RightlyReached` (`ReachedRightly`) and `DestroyedInOrder` (`DestroyOrder`) of
the process, for any configuration and any modules given. `Matches` says that what runs here is
configured here and listed once, because the configuration was refused otherwise; it follows the
loop of `Init` over the modules by its index. `Reaches` gives for each stage how a client reaches its
module: an in-process client is connected exactly from the making of its module's server on.
`Places` relates the index `at` to the modules: up to it they are up, beyond it fresh while the
process starts and down while it stops. `DestroyOrder` is the part of it that speaks of the
servers; it is not inductive without the wait groups, which tell `Destroy` that a `Run` returned.

`LocalRpc_proofs`: `RefinesServer`, `RefinesClient`, `ShutdownIsSafe`. The first two show that each
step of the composition is one of the component or changes nothing of it (`ImplementsServer`,
`ImplementsClient`), so that the theorems of `RpcServer_proofs` and `LocalClient_proofs` hold of
the wired system, and `ServerP` and `ClientP` bring them in under its substitutions. `RefinesClient` needs
them: that the engine answers a call only once, and only one that waits for an answer, is what the
client assumes of its environment. `ShutdownInv` is the chain of the shutdown: the client's `Done`
begins when the server's has finished, which has ended `on_callback_handle`, the only sender on
`result_chan`.

`MqttAgent_proofs`: `TypeCorrect`, `ConnAckComesFirst`, `AnswersKeepOrder`,
`ClosedOnlyWhenWriteFailed`. An answer passes seven places from the peer's packet to the wire: read
and offered, waiting in `readChan`, with `Listen_loop`, in `writeChan`, with `writeLoop`, written.
`OrderInv` orders every place by `Rank`, in which the acknowledgement of a packet comes before the
result of its call and both before the next packet, and says that what is further along ranks lower; pushes have
no rank. A step then moves one item from one place to the end of the next. `StartInv` ties the start
of the two loops to the CONNACK. `FailInv` is the causal chain of a failure: a write error, the
notice, the end of the writer, and only then the reader's way to `Close`; so a closed queue,
and a push that panics on it, come after a failed write.

`GateSessions_proofs`: `TypeCorrect`, `NothingLostByBind`, `StorageFollows`. `OwnInv` says for each
step of a `Bind` where the session's own settings are (in the session, then in the argument, then
merged in the session again). `BindInv` says that what it is about to restore is what is still stored,
since no other session of the user may store and no other call works on this one (`AloneInv`). `StoreInv` is
why the last to read sees everything (`Kept`): either some call on the session has yet to read what it
stores (`Todo`), or the call that read last is about to write what the session holds (`Newest`), or
that is stored, or was overwritten by a call that is recorded for it (`Settled`). `OrderInv` says
that of two calls about to write one read first, so that when the newest writes, all others become
`late`. The exceptions of `WriteThrough` (a session that shared a `Bind`, a user with two sessions, a
failure, an older reading written last) are needed; without any one of them
TLC violates it, without the second in an instance with two sessions.

`Library_proofs`: six theorems about five components. `ShardsAsTheyWere` (`ItemsSound`): from the
sizing of a channel to its filling the shard is locked, so that its contents are still as many
(`Locked`), and all a shard holds since the iteration began is recorded (`Recorded`).
`LinesKeptOnce` (`KeptOnce`): `Kept` says of the files as they are that every line that is not gone
is at exactly one place; five lemmas (`Created`, `Appended`, `Renamed`, `Orphaned`, `Deleted`) say
that what can happen to a file keeps it so. That the name a rotation picks is free (`NameIsFree`)
rests on the well-foundedness of the numbers, since it is the least one. `RotatedForEveryLimit`
(`RotatedOnce`): a writer looks at the limit and writes later, so that all the writers together may
pass it; `Room` counts those that are about to write and the lines that were written with room, which
`Uncrammed` tells from those of writers that found no name. `NothingLostByFlush` (`FlushKeeps`): while
calls do not overlap there is one owner at a time (`OneByOne`), and its place, the signal, the
place of the worker and the wait group agree (`Protocol`); nothing leaves the queue but into the
files (`Delivered`), the adapters are there until a `Reset` or `Close` ends (`Emptied`), and so what an
owner was owed is in the files when it was answered (`Fulfilled`).

`ValuesCrossOnce` (`RoundTrip`) assumes `ValuesAssumption`: a word has an even number of values, 2^32
in the code, and the arguments are values that Go has. `SignRestored` is the arithmetic: the signed reading of
an unsigned reading gives the number back, for a word and for two. From it follows for one value
of each type what `Bytes2Args` makes of what `ArgsTypeAnd2Bytes` made of it (`AnyCrosses`): the same
value if it crosses, and always one that crosses the way back unharmed (`JsonTwice`: what
JSON has made of a map once it leaves alone). `ValueInv` carries that from the caller to the
function and back, list by list: what each end holds is what `Holds` allows for the value it stands
for, and bytes on the wire are the conversion of what their sender held (`Written`). On the
way to the function a conversion may fail for a type without serializer, for a map JSON refuses and
for a session; on the way back only for a session and a process without the gate's serializer
(`Returns`).

`PacksReadOnce` (`InSync`) assumes `CodecAssumption`: a digit of the remaining length has at least
four values, 128 in the code, so that the lengths 2 and 3 of the fixed packets take one byte; and the two
ends are given packets of `WritablePacks` and `ClientPacks`. The argument has two halves. First, for
one packet `p` with the bytes `e`: `Crossing(p, e)` says that whatever follows `e`, `ReadPack` reads
`p` from it and stops behind it. There is a lemma for each type of packet. Each of them splits `e` at the places
where the reader looks (`At`, `AtConcat`) and uses what is read of an integer, a string, the header
and the remaining length (`IntRead`, `TextRead`, `HeaderRead`, `LengthRead`: one to three digits,
found again because all but the last have the high bit). A SUBSCRIBE needs an induction over its
filters: before filter k more than three bytes are left to count down, after the last one at most
two, whether the length counts the id (a client's library) or not (`WritePack`), which is where
`Crosses` needs the filters to be long enough (`TopicsBody`). A CONNECT has at most five strings
in its payload: as the bytes of their lengths are never counted down, something is left before each
string (`StringRead`), so that the reader takes those the flags announce (`AsFlagsSay`). Second,
for the stream: `OnTheWay` says that the bytes written and not yet read are the packets sent and not
yet received, one behind the other, and that what is flushed ends where one of them ends. Writing adds one at
the end (`SentOnTheWay`), flushing moves the end of what is flushed to the end of all
(`FlushOnTheWay`), and reading finds the first one on the wire as a whole and takes it and nothing
else (`ReadOnTheWay`); so a packet is never read before its last byte is there, and when
nothing is on the way everything was received (`NothingOnTheWay`).

These two need inductions over data, which the library's induction theorems, having an
operator as a parameter, do not give here. `Induction` states the principle for a set instead of an
operator, from the well-foundedness of the natural numbers, and suffices for those that occur: the
prefixes of a list of byte sequences that `FlattenSeq` joins (`Joined`, `Flattened`), how many bytes
they have and where each begins (`AsManyBytes`, `EachAt`), and the loop over the filters
(`TopicsBody`).

**Only model-checked.** The liveness properties `TimelySettlement`, `AcceptedIsAnswered`,
`DoneTerminates`, `CallReturnsWhileUp`, `CallEnds`, `FailureEndsSession`, `PushReturns` and `Stops`: fairness and
ENABLED are outside the prover's reach.

## 5. What is not modelled, and the plan

**Partly modelled.**

- *MQTT agent and gate*: the parsing of a topic, the choice of a server by `OnRecover`, and the
  heartbeat, which reads a clock.
- *Gate handler*: `SendBatch` and `BroadCast` (`Send` for several sessions), `IsConnect` (which
  ignores the session it is given), tracing, and the user-supplied judgement of who is a guest.
  The session maps of an agent are changed without a lock; the model interleaves whole accesses.
- *Maps*: reads of one key, the conversion to JSON, and `BeeMap`, whose operations hold one lock throughout
  and are taken as one step wherever they occur.
- *Logging*: rotation by size (as by lines, with another count), the layout of a line, colours.
- *Configuration*: only the module settings, as initial states of `AppLifecycle`.
- `executing` of the RPC engine, incremented without a lock and only reported.

**Not modelled.** The other log adapters and the second logger (vendored: each writes a line to
some service); the database connection factories (wrappers over pools of drivers, whose
check-then-create may create two); the goroutine helper and the generation of ids (identifiers
are taken to be distinct); the sequence service, which panics with "implement me", and the
exchange verification, which is unfinished as well: every entity has the sequence 0, records are
stored as JSON of types without exported fields, and `QueryGoods` panics, so that there is no
working behaviour to state anything about; generated protocol buffers; the retired `*.old` files.

**Next.** What is left to prove is the safety part of the liveness properties, namely that at every
state in which somebody waits there is a goroutine that is to wake it.
