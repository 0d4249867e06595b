----------------------------- MODULE MqttAgent -----------------------------
(***************************************************************************)
(* One MQTT connection of the gate, from the CONNECT packet to the removal *)
(* of its session: gate/base/mqtt_agent.go (Run, OnRecover, WriteMsg),     *)
(* gate/base/mqtt/mqtt_client_server.go (Listen_loop, waitPack) and        *)
(* gate/base/mqtt/pack_queue.go (the reading and the writing goroutine).   *)
(*                                                                         *)
(* Four kinds of goroutines share the queue: the one of the connection,    *)
(* which runs agent.Run and Listen_loop; writeLoop; the reading loop; and  *)
(* those of RPC functions that push messages to the session.               *)
(*                                                                         *)
(* Packets are told apart by what waitPack does with them: answer them     *)
(* itself, hand them to OnRecover, both, or neither; a SUBSCRIBE has one   *)
(* topic.  errorChan is left out: its only message fits its buffer and     *)
(* nobody receives it.  So are closeChan, on which nobody sends,           *)
(* WriteDelayPack and Flush, which nobody calls, and the id of a pushed    *)
(* message, which is not sent at QoS 0.                                    *)
(***************************************************************************)
EXTENDS Naturals, Sequences, FiniteSets

CONSTANTS Pushers,   \* the messages pushed to the session, one goroutine each
          MaxPacks,  \* how many packets the peer sends
          WriteCap,  \* capacity of writeChan (WirteLoopChanNum)
          ReadCap    \* capacity of readChan (ReadPackLoop)

ASSUME MqttAgentAssumption ==
    /\ MaxPacks \in Nat
    /\ WriteCap \in Nat \ {0}
    /\ ReadCap \in Nat

VARIABLES
    run,         \* the goroutine of the connection
    reader,      \* the goroutine of ReadPackInLoop
    writer,      \* the goroutine of writeLoop
    pusher,      \* the goroutines that push
    readChan,    \* packets and the read error on their way to Listen_loop
    writeChan,   \* packets on their way to the connection
    noticeFin,   \* how many notices of a failed write wait to be taken
    writeError,  \* the last write failed
    isStop,      \* the client refuses to write
    connOpen,    \* the connection was not closed at this end
    registered,  \* the session is in the table of the gate handler
    packs,       \* how many packets the peer sent
    wire,        \* history: what was written to the connection
    panicked     \* a push panicked and killed the process

queueVars == <<readChan, writeChan, noticeFin, writeError>>
sessionVars == <<isStop, connOpen, registered>>
vars == <<run, reader, writer, pusher, queueVars, sessionVars, packs, wire, panicked>>

\* PUBLISH at QoS 1 or 2 (PINGREQ, UNSUBSCRIBE and SUBSCRIBE at QoS 2 alike), PUBLISH
\* at QoS 0 (and other SUBSCRIBEs), PUBREL and PUBREC (and another CONNECT), and what
\* is only the end of an exchange.
Kinds  == {"publish", "publish0", "release", "final"}
Acked  == {"publish", "release"}
Raised == {"publish", "publish0"}

Pack  == [id : 1..MaxPacks, kind : Kinds] \cup {[id |-> 0, kind |-> "error"]}
Item  == [kind : {"ack", "reply"}, id : 1..MaxPacks]
Push  == [kind : {"push"}, id : Pushers]

NoPack == [id |-> 0, kind |-> "error"]
ConnAckPack == [kind |-> "connack", id |-> 0]

PushDone == {"sent", "refused"}

TypeOK ==
    /\ run \in [at   : {"login", "connack", "listen", "check", "send", "up", "stop",
                        "close", "cleanup", "exit"},
                what : {"ack", "reply"},
                pack : Pack,
                err  : BOOLEAN]
    /\ reader \in [at : {"new", "read", "offer", "notice", "close", "close2", "exit"},
                   pack : Pack]
    /\ writer \in [at : {"new", "select", "notify", "exit"}, item : {ConnAckPack}]
              \cup [at : {"write"}, item : Item \cup Push]
    /\ pusher \in [Pushers -> {"idle", "found", "check", "sending"} \cup PushDone]
    /\ readChan \in [buf : Seq(Pack), open : BOOLEAN]
    /\ Len(readChan.buf) <= ReadCap + 1
    /\ writeChan \in [buf : Seq(Item \cup Push), open : BOOLEAN]
    /\ Len(writeChan.buf) <= WriteCap
    /\ noticeFin \in 0..1
    /\ writeError \in BOOLEAN
    /\ isStop \in BOOLEAN
    /\ connOpen \in BOOLEAN
    /\ registered \in BOOLEAN
    /\ packs \in 0..MaxPacks
    /\ wire \in Seq({ConnAckPack} \cup Item \cup Push)
    /\ panicked \in BOOLEAN

Running(at) == [at |-> at, what |-> "ack", pack |-> NoPack, err |-> FALSE]

Resting(at) == [at |-> at, item |-> ConnAckPack]

Init ==
    /\ run = Running("login")
    /\ reader = [at |-> "new", pack |-> NoPack]
    /\ writer = Resting("new")
    /\ pusher = [p \in Pushers |-> "idle"]
    /\ readChan = [buf |-> <<>>, open |-> TRUE]
    /\ writeChan = [buf |-> <<>>, open |-> TRUE]
    /\ noticeFin = 0
    /\ writeError = FALSE
    /\ isStop = FALSE
    /\ connOpen = TRUE
    /\ registered = FALSE
    /\ packs = 0
    /\ wire = <<>>
    /\ panicked = FALSE

Alive == ~panicked

-----------------------------------------------------------------------------
(* agent.Run up to Listen_loop.                                            *)

\* The first packet is no CONNECT, or reading it failed.
LoginFails ==
    /\ Alive
    /\ run.at = "login"
    /\ run' = Running("close")
    /\ UNCHANGED <<reader, writer, pusher, queueVars, sessionVars, packs, wire, panicked>>

\* A mutated form: the write queue is started with the session.
ConnectStartsWriter ==
    /\ Alive
    /\ run.at = "login"
    /\ run' = Running("connack")
    /\ registered' = TRUE
    /\ writer' = Resting("select")
    /\ UNCHANGED <<reader, pusher, queueVars, isStop, connOpen, packs, wire, panicked>>

\* The client and its queue are made, and the gate handler learns of the session:
\* from here on messages are pushed to it.
Connect ==
    /\ Alive
    /\ run.at = "login"
    /\ run' = Running("connack")
    /\ registered' = TRUE
    /\ UNCHANGED <<reader, writer, pusher, queueVars, isStop, connOpen, packs, wire,
                   panicked>>

\* The CONNACK is written past the queue; then Listen_loop starts both goroutines.
ConnAck ==
    /\ Alive
    /\ run.at = "connack"
    /\ connOpen
    /\ wire' = Append(wire, ConnAckPack)
    /\ run' = Running("listen")
    /\ writer' = Resting("select")
    /\ reader' = [reader EXCEPT !.at = "read"]
    /\ UNCHANGED <<pusher, queueVars, sessionVars, packs, panicked>>

ConnAckFails ==
    /\ Alive
    /\ run.at = "connack"
    /\ run' = Running("close")
    /\ UNCHANGED <<reader, writer, pusher, queueVars, sessionVars, packs, wire, panicked>>

-----------------------------------------------------------------------------
(* Listen_loop, waitPack and OnRecover.                                    *)

\* Where waitPack begins with a packet: the answer, the upper layer, or neither.
First(kind) ==
    IF kind \in Acked THEN "check" ELSE IF kind \in Raised THEN "up" ELSE "listen"

\* Where the loop goes when waitPack is through with the packet.
Through(err) == IF err THEN Running("stop") ELSE Running("listen")

\* After the answer, whether or not it could be written.
AfterAck(err) ==
    IF run.pack.kind \in Raised
    THEN [run EXCEPT !.at = "up", !.err = err]
    ELSE Through(err)

TakePack ==
    /\ Alive
    /\ run.at = "listen"
    /\ readChan.buf # <<>>
    /\ readChan' = [readChan EXCEPT !.buf = Tail(@)]
    /\ LET p == Head(readChan.buf)
       IN  run' = IF p.kind = "error" THEN Running("stop")
                  ELSE IF First(p.kind) = "listen" THEN Running("listen")
                  ELSE [at |-> First(p.kind), what |-> "ack", pack |-> p, err |-> FALSE]
    /\ UNCHANGED <<reader, writer, pusher, writeChan, noticeFin, writeError, sessionVars,
                   packs, wire, panicked>>

ReadChanClosed ==
    /\ Alive
    /\ run.at = "listen"
    /\ readChan = [buf |-> <<>>, open |-> FALSE]
    /\ run' = Running("stop")
    /\ UNCHANGED <<reader, writer, pusher, queueVars, sessionVars, packs, wire, panicked>>

\* WritePack begins with the check of writeError.  OnRecover drops the error.
RunCheck ==
    /\ Alive
    /\ run.at = "check"
    /\ run' = IF ~writeError THEN [run EXCEPT !.at = "send"]
              ELSE IF run.what = "ack" THEN AfterAck(TRUE)
              ELSE Through(run.err)
    /\ UNCHANGED <<reader, writer, pusher, queueVars, sessionVars, packs, wire, panicked>>

\* A mutated form: an error result is sent, and OnRecover goes on.
RunSendAgain ==
    /\ Alive
    /\ run.at = "send"
    /\ writeChan.open
    /\ Len(writeChan.buf) < WriteCap
    /\ writeChan' = [writeChan EXCEPT
                       !.buf = Append(@, [kind |-> run.what, id |-> run.pack.id])]
    /\ run' = IF run.what = "ack" THEN AfterAck(FALSE) ELSE [run EXCEPT !.at = "up"]
    /\ UNCHANGED <<reader, writer, pusher, readChan, noticeFin, writeError, sessionVars,
                   packs, wire, panicked>>

RunSend ==
    /\ Alive
    /\ run.at = "send"
    /\ writeChan.open
    /\ Len(writeChan.buf) < WriteCap
    /\ writeChan' = [writeChan EXCEPT
                       !.buf = Append(@, [kind |-> run.what, id |-> run.pack.id])]
    /\ run' = IF run.what = "ack" THEN AfterAck(FALSE) ELSE Through(run.err)
    /\ UNCHANGED <<reader, writer, pusher, readChan, noticeFin, writeError, sessionVars,
                   packs, wire, panicked>>

\* A send on the closed writeChan panics.  OnRecover recovers from its own; the one
\* of Listen_loop ends the loop, and isStop is not set.
RunSendPanics ==
    /\ Alive
    /\ run.at = "send"
    /\ ~writeChan.open
    /\ run' = IF run.what = "ack" THEN Running("close") ELSE Through(run.err)
    /\ UNCHANGED <<reader, writer, pusher, queueVars, sessionVars, packs, wire, panicked>>

\* OnRecover: the RPC call it makes has returned, and its result, or an error, is
\* written back when the topic asks for it.
Recovered ==
    /\ Alive
    /\ run.at = "up"
    /\ run' \in {Through(run.err), [run EXCEPT !.at = "check", !.what = "reply"]}
    /\ UNCHANGED <<reader, writer, pusher, queueVars, sessionVars, packs, wire, panicked>>

\* The end of Listen_loop.
Stop ==
    /\ Alive
    /\ run.at = "stop"
    /\ isStop' = TRUE
    /\ run' = Running("close")
    /\ UNCHANGED <<reader, writer, pusher, queueVars, connOpen, registered, packs, wire,
                   panicked>>

\* The deferred Close of Run.
CloseRun ==
    /\ Alive
    /\ run.at = "close"
    /\ connOpen' = FALSE
    /\ run' = Running("cleanup")
    /\ UNCHANGED <<reader, writer, pusher, queueVars, isStop, registered, packs, wire,
                   panicked>>

\* agent.OnClose: the gate handler forgets the session.
OnClose ==
    /\ Alive
    /\ run.at = "cleanup"
    /\ registered' = FALSE
    /\ run' = Running("exit")
    /\ UNCHANGED <<reader, writer, pusher, queueVars, isStop, connOpen, packs, wire,
                   panicked>>

\* gateHandler.Close, or the Close of the network server.
CloseConn ==
    /\ Alive
    /\ connOpen
    /\ connOpen' = FALSE
    /\ UNCHANGED <<run, reader, writer, pusher, queueVars, isStop, registered, packs,
                   wire, panicked>>

-----------------------------------------------------------------------------
(* The goroutine of ReadPackInLoop.                                        *)

ReadPack(kind) ==
    /\ Alive
    /\ reader.at = "read"
    /\ packs < MaxPacks
    /\ packs' = packs + 1
    /\ reader' = [at |-> "offer", pack |-> [id |-> packs + 1, kind |-> kind]]
    /\ UNCHANGED <<run, writer, pusher, queueVars, sessionVars, wire, panicked>>

\* The peer closed, this end did, or the read deadline passed.
ReadFails ==
    /\ Alive
    /\ reader.at = "read"
    /\ reader' = [at |-> "offer", pack |-> NoPack]
    /\ UNCHANGED <<run, writer, pusher, queueVars, sessionVars, packs, wire, panicked>>

\* A send on an unbuffered readChan meets the receiver at its select.
Offer ==
    /\ Alive
    /\ reader.at = "offer"
    /\ \/ Len(readChan.buf) < ReadCap
       \/ readChan.buf = <<>> /\ run.at = "listen"
    /\ readChan' = [readChan EXCEPT !.buf = Append(@, reader.pack)]
    /\ reader' = [at |-> IF reader.pack.kind = "error" THEN "notice" ELSE "read",
                  pack |-> NoPack]
    /\ UNCHANGED <<run, writer, pusher, writeChan, noticeFin, writeError, sessionVars,
                   packs, wire, panicked>>

\* A mutated form: after a read error the queue is closed without the writer's notice.
TakeNoticeOrError ==
    /\ Alive
    /\ \/ reader.at \in {"offer", "notice"} /\ noticeFin > 0
       \/ reader.at = "notice"
    /\ noticeFin' = 0
    /\ reader' = [at |-> "close", pack |-> NoPack]
    /\ UNCHANGED <<run, writer, pusher, readChan, writeChan, writeError, sessionVars,
                   packs, wire, panicked>>

\* A mutated form: the notice is not awaited while a packet is handed over.
TakeNoticeLate ==
    /\ Alive
    /\ reader.at = "notice"
    /\ noticeFin > 0
    /\ noticeFin' = noticeFin - 1
    /\ reader' = [at |-> "close", pack |-> NoPack]
    /\ UNCHANGED <<run, writer, pusher, readChan, writeChan, writeError, sessionVars,
                   packs, wire, panicked>>

\* The notice of a failed write, which is the only way out of the loop.
TakeNotice ==
    /\ Alive
    /\ reader.at \in {"offer", "notice"}
    /\ noticeFin > 0
    /\ noticeFin' = noticeFin - 1
    /\ reader' = [at |-> "close", pack |-> NoPack]
    /\ UNCHANGED <<run, writer, pusher, readChan, writeChan, writeError, sessionVars,
                   packs, wire, panicked>>

\* PackQueue.Close closes writeChan first.
CloseWriteChan ==
    /\ Alive
    /\ reader.at = "close"
    /\ writeChan' = [writeChan EXCEPT !.open = FALSE]
    /\ reader' = [reader EXCEPT !.at = "close2"]
    /\ UNCHANGED <<run, writer, pusher, readChan, noticeFin, writeError, sessionVars,
                   packs, wire, panicked>>

CloseReadChan ==
    /\ Alive
    /\ reader.at = "close2"
    /\ readChan' = [readChan EXCEPT !.open = FALSE]
    /\ reader' = [reader EXCEPT !.at = "exit"]
    /\ UNCHANGED <<run, writer, pusher, writeChan, noticeFin, writeError, sessionVars,
                   packs, wire, panicked>>

-----------------------------------------------------------------------------
(* The goroutine writeLoop.                                                *)

TakeItem ==
    /\ Alive
    /\ writer.at = "select"
    /\ writeChan.buf # <<>>
    /\ writer' = [at |-> "write", item |-> Head(writeChan.buf)]
    /\ writeChan' = [writeChan EXCEPT !.buf = Tail(@)]
    /\ UNCHANGED <<run, reader, pusher, readChan, noticeFin, writeError, sessionVars,
                   packs, wire, panicked>>

Write ==
    /\ Alive
    /\ writer.at = "write"
    /\ connOpen
    /\ wire' = Append(wire, writer.item)
    /\ writer' = Resting("select")
    /\ UNCHANGED <<run, reader, pusher, queueVars, sessionVars, packs, panicked>>

WriteFails ==
    /\ Alive
    /\ writer.at = "write"
    /\ writeError' = TRUE
    /\ writer' = Resting("notify")
    /\ UNCHANGED <<run, reader, pusher, readChan, writeChan, noticeFin, sessionVars,
                   packs, wire, panicked>>

\* A mutated form: the loop ends without a notice.
NotifyNobody ==
    /\ Alive
    /\ writer.at = "notify"
    /\ writer' = Resting("exit")
    /\ UNCHANGED <<run, reader, pusher, queueVars, sessionVars, packs, wire, panicked>>

Notify ==
    /\ Alive
    /\ writer.at = "notify"
    /\ noticeFin' = noticeFin + 1
    /\ writer' = Resting("exit")
    /\ UNCHANGED <<run, reader, pusher, readChan, writeChan, writeError, sessionVars,
                   packs, wire, panicked>>

-----------------------------------------------------------------------------
(* gateHandler.Send in the goroutine of an RPC function.                   *)

Pushes(p, from, to) ==
    /\ Alive
    /\ pusher[p] = from
    /\ pusher' = [pusher EXCEPT ![p] = to]

\* The agent is looked up, and used afterwards.
LookUp(p) ==
    /\ Pushes(p, "idle", IF registered THEN "found" ELSE "refused")
    /\ UNCHANGED <<run, reader, writer, queueVars, sessionVars, packs, wire, panicked>>

\* Client.WriteMsg looks at isStop,
WriteMsg(p) ==
    /\ Pushes(p, "found", IF isStop THEN "refused" ELSE "check")
    /\ UNCHANGED <<run, reader, writer, queueVars, sessionVars, packs, wire, panicked>>

\* WritePack at writeError,
PushCheck(p) ==
    /\ Pushes(p, "check", IF writeError THEN "refused" ELSE "sending")
    /\ UNCHANGED <<run, reader, writer, queueVars, sessionVars, packs, wire, panicked>>

\* A mutated form: the message does not wait for room.
PushSendNoWait(p) ==
    /\ writeChan.open
    /\ Pushes(p, "sending", "sent")
    /\ writeChan' = [writeChan EXCEPT !.buf = Append(@, [kind |-> "push", id |-> p])]
    /\ UNCHANGED <<run, reader, writer, readChan, noticeFin, writeError, sessionVars,
                   packs, wire, panicked>>

\* and the send blocks while the queue is full.
PushSend(p) ==
    /\ writeChan.open
    /\ Len(writeChan.buf) < WriteCap
    /\ Pushes(p, "sending", "sent")
    /\ writeChan' = [writeChan EXCEPT !.buf = Append(@, [kind |-> "push", id |-> p])]
    /\ UNCHANGED <<run, reader, writer, readChan, noticeFin, writeError, sessionVars,
                   packs, wire, panicked>>

\* The queue was closed in the meantime: nothing recovers in an RPC function.
PushPanics(p) ==
    /\ Alive
    /\ pusher[p] = "sending"
    /\ ~writeChan.open
    /\ panicked' = TRUE
    /\ UNCHANGED <<run, reader, writer, pusher, queueVars, sessionVars, packs, wire>>

-----------------------------------------------------------------------------
RunNext ==
    \/ LoginFails \/ Connect \/ ConnAck \/ ConnAckFails
    \/ TakePack \/ ReadChanClosed \/ RunCheck \/ RunSend \/ RunSendPanics \/ Recovered
    \/ Stop \/ CloseRun \/ OnClose

ReaderNext ==
    \/ \E kind \in Kinds : ReadPack(kind)
    \/ ReadFails \/ Offer \/ TakeNotice \/ CloseWriteChan \/ CloseReadChan

WriterNext == TakeItem \/ Write \/ WriteFails \/ Notify

PusherNext(p) ==
    \/ LookUp(p) \/ WriteMsg(p) \/ PushCheck(p) \/ PushSend(p) \/ PushPanics(p)

Next ==
    \/ RunNext \/ CloseConn
    \/ ReaderNext
    \/ WriterNext
    \/ \E p \in Pushers : PusherNext(p)

Spec == Init /\ [][Next]_vars

\* Goroutines that can run do run.  A read ends, by its deadline at the latest, and so
\* does a write where WriteTimeout is set; the RPC call of OnRecover returns.  Nobody
\* has to log in, to push, or to close the connection.
Fairness ==
    /\ WF_vars(RunNext /\ run.at # "login")
    /\ WF_vars(ReaderNext)
    /\ WF_vars(WriterNext)
    /\ \A p \in Pushers : WF_vars(PusherNext(p) /\ pusher[p] # "idle")

FairSpec == Spec /\ Fairness

-----------------------------------------------------------------------------
(* What the module promises.                                               *)

\* The CONNACK is the first packet on the wire, though messages are pushed to the
\* session before it is written and it does not go through the queue.
ConnAckFirst == wire # <<>> => Head(wire) = ConnAckPack

\* The answers to the peer's packets leave in the order of the packets, and the
\* acknowledgement of a packet before the result of the call it made.
AnswersInOrder ==
    \A i, j \in 1..Len(wire) :
        (i < j /\ wire[i].kind # "push" /\ wire[j].kind # "push") =>
            \/ wire[i].id < wire[j].id
            \/ wire[i].id = wire[j].id /\ wire[i].kind = "ack" /\ wire[j].kind = "reply"

\* The queue is closed under the goroutines that write to it only after a write
\* failed: while the connection takes what is written, no push panics, however the
\* session ends.
ClosedOnlyByFailure == panicked \/ ~writeChan.open => writeError /\ writer.at = "exit"

\* A failed write ends the session: all three goroutines leave, and the gate handler
\* forgets it.
FailureEndsSession ==
    writeError ~> \/ /\ run.at = "exit" /\ reader.at = "exit" /\ writer.at = "exit"
                     /\ ~registered
                  \/ ~Alive

\* A push that waits for room in the queue does not wait for ever, unless the session
\* ended before its writer was started.
PushReturns ==
    \A p \in Pushers :
        pusher[p] = "sending" ~>
            \/ pusher[p] \in PushDone
            \/ ~Alive
            \/ run.at = "exit" /\ writer.at = "new"

\* When the session has ended, its two other goroutines end as well.
GoroutinesFreed ==
    run.at = "exit" ~> \/ reader.at \in {"new", "exit"} /\ writer.at \in {"new", "exit"}
                       \/ ~Alive
=============================================================================
