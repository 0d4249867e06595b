--------------------------- MODULE MqttAgent_proofs ---------------------------
(***************************************************************************)
(* Proofs about MqttAgent, for any pushed messages, any number of packets  *)
(* and any capacities of the two queues: its type invariant, that the      *)
(* CONNACK is the first packet on the wire, that the answers leave in the  *)
(* order of the packets, and that the queue is closed only after a failed  *)
(* write.                                                                  *)
(***************************************************************************)
EXTENDS MqttAgent, SequenceTheorems, TLAPS

\* What is in a queue.
Elems(q) == {q[i] : i \in 1..Len(q)}

\* The packets that answer the peer, and the packets of the peer, have a place in one
\* order: the answers to a packet come after the packet itself and before the next.
Ranked(x) == x.kind \notin {"push", "error"}
Rank(x) == 2 * x.id + (IF x.kind = "reply" THEN 1 ELSE 0)

Sorted(q) ==
    \A i, j \in 1..Len(q) :
        i < j /\ Ranked(q[i]) /\ Ranked(q[j]) => Rank(q[i]) < Rank(q[j])

Precedes(A, B) ==
    \A x \in A, y \in B : Ranked(x) /\ Ranked(y) => Rank(x) < Rank(y)

\* From the wire back to the peer: what is written, what writeLoop holds, what is
\* queued, what the loop is about to answer, what waits for it, what was read last.
Written == Elems(wire)
Held == IF writer.at = "write" THEN {writer.item} ELSE {}
Queued == Elems(writeChan.buf)
Current ==
    IF run.at \in {"check", "send"} THEN {[kind |-> run.what, id |-> run.pack.id]}
    ELSE IF run.at = "up" THEN {[kind |-> "reply", id |-> run.pack.id]}
    ELSE {}
Waiting == Elems(readChan.buf)
Offered == IF reader.at = "offer" THEN {reader.pack} ELSE {}

TypeInv ==
    /\ TypeOK
    /\ run.at \in {"check", "send", "up"} => run.pack \in [id : 1..MaxPacks, kind : Kinds]

\* The writer and the reader are started with the CONNACK, which is written then.
StartInv ==
    /\ writer.at = "new" <=> wire = <<>>
    /\ writer.at = "new" <=> reader.at = "new"
    /\ run.at \in {"login", "connack"} => writer.at = "new"
    /\ wire # <<>> => Head(wire) = ConnAckPack

\* Everything that closes the queue comes after the notice of a failed write.
FailInv ==
    /\ writer.at \in {"notify", "exit"} => writeError
    /\ noticeFin = 0 \/ writer.at = "exit"
    /\ reader.at \in {"close", "close2", "exit"} => writer.at = "exit"
    /\ ~writeChan.open => writer.at = "exit"
    /\ panicked => writer.at = "exit"

OrderInv ==
    /\ Sorted(wire) /\ Sorted(writeChan.buf) /\ Sorted(readChan.buf)
    /\ Precedes(Written, Held \cup Queued)
    /\ Precedes(Held, Queued)
    /\ Precedes(Written \cup Held \cup Queued, Current)
    /\ Precedes(Written \cup Held \cup Queued \cup Current, Waiting \cup Offered)
    /\ Precedes(Waiting, Offered)
    /\ \A x \in Written \cup Held \cup Queued \cup Current \cup Waiting \cup Offered :
          Ranked(x) => x.id <= packs

IInv ==
    /\ TypeInv
    /\ StartInv
    /\ FailInv
    /\ OrderInv

-----------------------------------------------------------------------------
(* Lemmas about queues and their order.                                    *)

LEMMA QueueAppend ==
    ASSUME NEW S, NEW q \in Seq(S), NEW x \in S
    PROVE  /\ Append(q, x) \in Seq(S) /\ Append(q, x) # <<>>
           /\ Len(Append(q, x)) = Len(q) + 1
           /\ Elems(Append(q, x)) = Elems(q) \cup {x}
           /\ q # <<>> => Head(Append(q, x)) = Head(q)
           /\ q = <<>> => Head(Append(q, x)) = x
           /\ (Sorted(q) /\ \A y \in Elems(q) : Ranked(y) /\ Ranked(x) => Rank(y) < Rank(x))
                 => Sorted(Append(q, x))
<1> DEFINE p == Append(q, x)
<1>1. /\ Len(q) \in Nat /\ p \in Seq(S) /\ Len(p) = Len(q) + 1
      /\ \A i \in 1..Len(q) : p[i] = q[i]
      /\ p[Len(q) + 1] = x
  BY AppendProperties, LenProperties
<1>2. p # <<>> /\ (q # <<>> => Head(p) = Head(q)) /\ (q = <<>> => Head(p) = x)
  OBVIOUS
<1> HIDE DEF p
<1>3. \A i \in 1..Len(p) : i \in 1..Len(q) \/ i = Len(q) + 1
  BY <1>1
<1>4. 1..Len(q) \subseteq 1..Len(p) /\ Len(q) + 1 \in 1..Len(p)
  BY <1>1
<1>5. Elems(p) = Elems(q) \cup {x}
  BY <1>1, <1>3, <1>4 DEF Elems
<1>6. ASSUME Sorted(q), \A y \in Elems(q) : Ranked(y) /\ Ranked(x) => Rank(y) < Rank(x)
      PROVE  Sorted(p)
  <2> SUFFICES ASSUME NEW i \in 1..Len(p), NEW j \in 1..Len(p), i < j,
                      Ranked(p[i]), Ranked(p[j])
               PROVE  Rank(p[i]) < Rank(p[j])
      BY DEF Sorted
  <2>1. i \in 1..Len(q) /\ p[i] = q[i] /\ q[i] \in Elems(q)
    BY <1>1, <1>3 DEF Elems
  <2>2. CASE j \in 1..Len(q)
    BY <1>1, <1>6, <2>1, <2>2 DEF Sorted
  <2>3. CASE j = Len(q) + 1
    BY <1>1, <1>6, <2>1, <2>3
  <2>4. QED
    BY <1>3, <2>2, <2>3
<1>7. QED
  BY <1>1, <1>2, <1>5, <1>6 DEF p

LEMMA QueueTail ==
    ASSUME NEW S, NEW q \in Seq(S), q # <<>>
    PROVE  /\ Head(q) \in S /\ Head(q) \in Elems(q)
           /\ Tail(q) \in Seq(S) /\ Len(Tail(q)) = Len(q) - 1
           /\ Elems(Tail(q)) \subseteq Elems(q)
           /\ Sorted(q) => /\ Sorted(Tail(q))
                           /\ Precedes({Head(q)}, Elems(Tail(q)))
<1> DEFINE p == Tail(q)
<1>1. /\ Len(q) \in Nat \ {0} /\ Head(q) \in S /\ p \in Seq(S) /\ Len(p) = Len(q) - 1
      /\ \A i \in 1..Len(p) : p[i] = q[i + 1]
      /\ Head(q) = q[1]
  BY HeadTailProperties, EmptySeq
<1> HIDE DEF p
<1>2. /\ \A i \in 1..Len(p) : i + 1 \in 1..Len(q) /\ 1 < i + 1
      /\ 1 \in 1..Len(q)
  BY <1>1
<1>3. Elems(p) \subseteq Elems(q) /\ Head(q) \in Elems(q)
  BY <1>1, <1>2 DEF Elems
<1>4. ASSUME Sorted(q) PROVE Sorted(p)
  <2> SUFFICES ASSUME NEW i \in 1..Len(p), NEW j \in 1..Len(p), i < j,
                      Ranked(p[i]), Ranked(p[j])
               PROVE  Rank(p[i]) < Rank(p[j])
      BY DEF Sorted
  <2>1. /\ p[i] = q[i + 1] /\ p[j] = q[j + 1]
        /\ i + 1 \in 1..Len(q) /\ j + 1 \in 1..Len(q) /\ i + 1 < j + 1
    BY <1>1, <1>2
  <2>2. QED
    BY <1>4, <2>1 DEF Sorted
<1>5. ASSUME Sorted(q) PROVE Precedes({Head(q)}, Elems(p))
  <2> SUFFICES ASSUME NEW i \in 1..Len(p), Ranked(q[1]), Ranked(p[i])
               PROVE  Rank(q[1]) < Rank(p[i])
      BY <1>1 DEF Precedes, Elems
  <2>1. p[i] = q[i + 1] /\ i + 1 \in 1..Len(q) /\ 1 < i + 1 /\ 1 \in 1..Len(q)
    BY <1>1, <1>2
  <2>2. QED
    BY <1>5, <2>1 DEF Sorted
<1>6. QED
  BY <1>1, <1>3, <1>4, <1>5 DEF p

\* What is empty is sorted and holds nothing.
LEMMA QueueEmpty == Elems(<<>>) = {} /\ Sorted(<<>>)
BY DEF Elems, Sorted

\* A queue with another content.
LEMMA PutBuf ==
    ASSUME NEW S, NEW c \in [buf : Seq(S), open : BOOLEAN], NEW q \in Seq(S),
           NEW d, d = [c EXCEPT !.buf = q]
    PROVE  d \in [buf : Seq(S), open : BOOLEAN] /\ d.buf = q /\ d.open = c.open
OBVIOUS

-----------------------------------------------------------------------------
(* Types.                                                                  *)

Runs == [at   : {"login", "connack", "listen", "check", "send", "up", "stop", "close",
                 "cleanup", "exit"},
         what : {"ack", "reply"},
         pack : Pack,
         err  : BOOLEAN]

Readers == [at : {"new", "read", "offer", "notice", "close", "close2", "exit"}, pack : Pack]

Writers == [at : {"new", "select", "notify", "exit"}, item : {ConnAckPack}]
           \cup [at : {"write"}, item : Item \cup Push]

Real == [id : 1..MaxPacks, kind : Kinds]

LEMMA TypeParts ==
    TypeInv <=>
        /\ run \in Runs
        /\ run.at \in {"check", "send", "up"} => run.pack \in Real
        /\ reader \in Readers
        /\ writer \in Writers
        /\ pusher \in [Pushers -> {"idle", "found", "check", "sending"} \cup PushDone]
        /\ readChan \in [buf : Seq(Pack), open : BOOLEAN] /\ Len(readChan.buf) <= ReadCap + 1
        /\ writeChan \in [buf : Seq(Item \cup Push), open : BOOLEAN]
        /\ Len(writeChan.buf) <= WriteCap
        /\ noticeFin \in 0..1 /\ writeError \in BOOLEAN /\ isStop \in BOOLEAN
        /\ connOpen \in BOOLEAN /\ registered \in BOOLEAN /\ packs \in 0..MaxPacks
        /\ wire \in Seq({ConnAckPack} \cup Item \cup Push) /\ panicked \in BOOLEAN
BY DEF TypeInv, TypeOK, Runs, Readers, Writers, Real

LEMMA Packs == NoPack \in Pack /\ Real \subseteq Pack /\ Pack = Real \cup {NoPack}
BY DEF NoPack, Pack, Real

LEMMA RunTypes ==
    /\ \A at \in {"login", "connack", "listen", "stop", "close", "cleanup", "exit"} :
          Running(at) \in Runs /\ Running(at).at = at
    /\ \A err : Through(err) \in Runs /\ Through(err).at \in {"stop", "listen"}
<1>1. \A at \in {"login", "connack", "listen", "stop", "close", "cleanup", "exit"} :
          Running(at) \in Runs /\ Running(at).at = at
  BY Packs DEF Running, Runs
<1>2. QED
  BY <1>1 DEF Through

LEMMA AfterAckType ==
    ASSUME run \in Runs, run.pack \in Real, NEW err \in BOOLEAN
    PROVE  /\ AfterAck(err) \in Runs
           /\ \/ AfterAck(err).at = "up" /\ AfterAck(err).pack = run.pack
              \/ AfterAck(err).at \in {"stop", "listen"}
BY RunTypes DEF AfterAck, Runs

LEMMA InitIInv == Init => IInv
<1> SUFFICES ASSUME Init PROVE IInv
    OBVIOUS
<1>1. /\ run = Running("login") /\ reader = [at |-> "new", pack |-> NoPack]
      /\ writer = Resting("new") /\ pusher = [p \in Pushers |-> "idle"]
      /\ readChan = [buf |-> <<>>, open |-> TRUE]
      /\ writeChan = [buf |-> <<>>, open |-> TRUE]
      /\ noticeFin = 0 /\ writeError = FALSE /\ isStop = FALSE
      /\ connOpen = TRUE /\ registered = FALSE /\ packs = 0 /\ wire = <<>>
      /\ panicked = FALSE
  BY DEF Init
<1>2. run \in Runs /\ run.at = "login"
  BY <1>1, RunTypes
<1>3. reader \in Readers /\ reader.at = "new" /\ writer \in Writers /\ writer.at = "new"
  BY <1>1, Packs DEF Readers, Writers, Resting
<1>4. TypeInv
  <2>1. readChan \in [buf : Seq(Pack), open : BOOLEAN] /\ Len(readChan.buf) <= ReadCap + 1
    BY <1>1, MqttAgentAssumption
  <2>2. /\ writeChan \in [buf : Seq(Item \cup Push), open : BOOLEAN]
        /\ Len(writeChan.buf) <= WriteCap
    BY <1>1, MqttAgentAssumption
  <2>3. packs \in 0..MaxPacks
    BY <1>1, MqttAgentAssumption
  <2>4. pusher \in [Pushers -> {"idle", "found", "check", "sending"} \cup PushDone]
    BY <1>1
  <2>5. wire \in Seq({ConnAckPack} \cup Item \cup Push)
    BY <1>1
  <2>6. /\ writeError \in BOOLEAN /\ isStop \in BOOLEAN /\ connOpen \in BOOLEAN
        /\ registered \in BOOLEAN /\ panicked \in BOOLEAN
    BY <1>1
  <2>7. noticeFin \in 0..1
    BY <1>1
  <2>8. run.at \notin {"check", "send", "up"}
    BY <1>2
  <2>9. QED
    BY <1>2, <1>3, <2>1, <2>2, <2>3, <2>4, <2>5, <2>6, <2>7, <2>8, TypeParts
<1>5. StartInv /\ FailInv
  BY <1>1, <1>2, <1>3 DEF StartInv, FailInv
<1>6. OrderInv
  BY <1>1, <1>2, <1>3, QueueEmpty DEF OrderInv, Written, Held, Queued, Current, Waiting,
         Offered, Precedes
<1>7. QED
  BY <1>4, <1>5, <1>6 DEF IInv

\* What is left to show of the types when the three goroutines and the two queues are
\* right.
LEMMA RestType ==
    ASSUME run' \in Runs, run'.at \in {"check", "send", "up"} => run'.pack \in Real,
           reader' \in Readers, writer' \in Writers,
           pusher' \in [Pushers -> {"idle", "found", "check", "sending"} \cup PushDone],
           readChan' \in [buf : Seq(Pack), open : BOOLEAN],
           Len(readChan'.buf) <= ReadCap + 1,
           writeChan' \in [buf : Seq(Item \cup Push), open : BOOLEAN],
           Len(writeChan'.buf) <= WriteCap,
           noticeFin' \in 0..1, writeError' \in BOOLEAN, isStop' \in BOOLEAN,
           connOpen' \in BOOLEAN, registered' \in BOOLEAN, packs' \in 0..MaxPacks,
           wire' \in Seq({ConnAckPack} \cup Item \cup Push), panicked' \in BOOLEAN
    PROVE  TypeInv'
BY DEF TypeInv, TypeOK, Runs, Readers, Writers, Real

LEMMA StepRunType ==
    ASSUME TypeInv, StartInv, RunNext
    PROVE  TypeInv'
<1>t. /\ run \in Runs /\ (run.at \in {"check", "send", "up"} => run.pack \in Real)
      /\ reader \in Readers /\ writer \in Writers
      /\ pusher \in [Pushers -> {"idle", "found", "check", "sending"} \cup PushDone]
      /\ readChan \in [buf : Seq(Pack), open : BOOLEAN] /\ Len(readChan.buf) <= ReadCap + 1
      /\ writeChan \in [buf : Seq(Item \cup Push), open : BOOLEAN]
      /\ Len(writeChan.buf) <= WriteCap
      /\ noticeFin \in 0..1 /\ writeError \in BOOLEAN /\ isStop \in BOOLEAN
      /\ connOpen \in BOOLEAN /\ registered \in BOOLEAN /\ packs \in 0..MaxPacks
      /\ wire \in Seq({ConnAckPack} \cup Item \cup Push) /\ panicked \in BOOLEAN
  BY TypeParts
<1>1. CASE LoginFails \/ Connect \/ ConnAckFails \/ ReadChanClosed \/ Stop \/ CloseRun \/ OnClose
  <2>1. run' \in Runs /\ run'.at \notin {"check", "send", "up"}
    BY <1>1, RunTypes DEF LoginFails, Connect, ConnAckFails, ReadChanClosed, Stop, CloseRun,
           OnClose
  <2>2. isStop' \in BOOLEAN /\ connOpen' \in BOOLEAN /\ registered' \in BOOLEAN
    BY <1>t, <1>1 DEF LoginFails, Connect, ConnAckFails, ReadChanClosed, Stop, CloseRun,
           OnClose, sessionVars
  <2>3. UNCHANGED <<reader, writer, pusher, queueVars, packs, wire, panicked>>
    BY <1>1 DEF LoginFails, Connect, ConnAckFails, ReadChanClosed, Stop, CloseRun, OnClose
  <2>4. QED
    BY <1>t, <2>1, <2>2, <2>3, RestType DEF queueVars
<1>2. CASE ConnAck
  <2>1. run' \in Runs /\ run'.at \notin {"check", "send", "up"}
    BY <1>2, RunTypes DEF ConnAck
  <2>2. reader' \in Readers /\ writer' \in Writers
    BY <1>t, <1>2 DEF ConnAck, Readers, Writers, Resting
  <2>3. wire' \in Seq({ConnAckPack} \cup Item \cup Push)
    BY <1>t, <1>2 DEF ConnAck
  <2>4. QED
    BY <1>t, <1>2, <2>1, <2>2, <2>3, RestType DEF ConnAck, queueVars, sessionVars
<1>3. CASE TakePack
  <2> DEFINE p == Head(readChan.buf)
  <2>1. /\ readChan.buf # <<>> /\ readChan.buf \in Seq(Pack)
        /\ readChan' = [readChan EXCEPT !.buf = Tail(@)]
    BY <1>t, <1>3 DEF TakePack
  <2>2. /\ p \in Pack /\ Tail(readChan.buf) \in Seq(Pack)
        /\ Len(Tail(readChan.buf)) = Len(readChan.buf) - 1 /\ Len(readChan.buf) \in Nat
    BY <2>1, QueueTail, LenProperties
  <2> HIDE DEF p
  <2>3. readChan' \in [buf : Seq(Pack), open : BOOLEAN] /\ Len(readChan'.buf) <= ReadCap + 1
    <3>1. /\ readChan' \in [buf : Seq(Pack), open : BOOLEAN]
          /\ readChan'.buf = Tail(readChan.buf)
      BY <1>t, <2>1, <2>2, PutBuf
    <3>2. Len(Tail(readChan.buf)) <= ReadCap + 1
      BY <1>t, <2>2, MqttAgentAssumption
    <3>3. QED
      BY <3>1, <3>2
  <2>4. run' \in Runs /\ (run'.at \in {"check", "send", "up"} => run'.pack \in Real)
    <3>1. CASE p.kind = "error" \/ First(p.kind) = "listen"
      BY <1>3, <3>1, RunTypes DEF TakePack, p
    <3>2. CASE p.kind # "error" /\ First(p.kind) # "listen"
      <4>1. p \in Real
        BY <2>2, <3>2, Packs DEF NoPack
      <4>2. First(p.kind) \in {"check", "up"}
        BY <3>2 DEF First
      <4>3. run' = [at |-> First(p.kind), what |-> "ack", pack |-> p, err |-> FALSE]
        BY <1>3, <3>2 DEF TakePack, p
      <4>4. QED
        BY <2>2, <4>1, <4>2, <4>3 DEF Runs
    <3>3. QED
      BY <3>1, <3>2
  <2>5. QED
    BY <1>t, <1>3, <2>3, <2>4, RestType DEF TakePack, sessionVars
<1>4. CASE RunCheck
  <2>1. run' \in Runs /\ (run'.at \in {"check", "send", "up"} => run'.pack \in Real)
    <3>1. run.pack \in Real
      BY <1>t, <1>4 DEF RunCheck
    <3>2. CASE ~writeError
      BY <1>t, <1>4, <3>1, <3>2 DEF RunCheck, Runs
    <3>3. CASE writeError /\ run.what = "ack"
      BY <1>t, <1>4, <3>1, <3>3, AfterAckType DEF RunCheck
    <3>4. CASE writeError /\ run.what # "ack"
      BY <1>4, <3>4, RunTypes DEF RunCheck
    <3>5. QED
      BY <3>2, <3>3, <3>4
  <2>2. QED
    BY <1>t, <1>4, <2>1, RestType DEF RunCheck, queueVars, sessionVars
<1>5. CASE RunSend
  <2>1. run.pack \in Real
    BY <1>t, <1>5 DEF RunSend
  <2>2. run' \in Runs /\ (run'.at \in {"check", "send", "up"} => run'.pack \in Real)
    <3>1. CASE run.what = "ack"
      BY <1>t, <1>5, <2>1, <3>1, AfterAckType DEF RunSend
    <3>2. CASE run.what # "ack"
      BY <1>5, <3>2, RunTypes DEF RunSend
    <3>3. QED
      BY <3>1, <3>2
  <2>3. [kind |-> run.what, id |-> run.pack.id] \in Item
    BY <1>t, <2>1 DEF Runs, Real, Item
  <2>4. /\ writeChan' \in [buf : Seq(Item \cup Push), open : BOOLEAN]
        /\ Len(writeChan'.buf) <= WriteCap
    <3> DEFINE x == [kind |-> run.what, id |-> run.pack.id]
    <3>1. /\ writeChan' = [writeChan EXCEPT !.buf = Append(@, x)]
          /\ Len(writeChan.buf) < WriteCap /\ writeChan.buf \in Seq(Item \cup Push)
      BY <1>t, <1>5 DEF RunSend
    <3>2. x \in Item \cup Push
      BY <2>3
    <3> HIDE DEF x
    <3>3. /\ Append(writeChan.buf, x) \in Seq(Item \cup Push)
          /\ Len(Append(writeChan.buf, x)) = Len(writeChan.buf) + 1
          /\ Len(writeChan.buf) \in Nat
      BY <3>1, <3>2, QueueAppend, LenProperties
    <3>4. /\ writeChan' \in [buf : Seq(Item \cup Push), open : BOOLEAN]
          /\ writeChan'.buf = Append(writeChan.buf, x)
      BY <1>t, <3>1, <3>3, PutBuf
    <3>5. Len(Append(writeChan.buf, x)) <= WriteCap
      BY <3>1, <3>3, MqttAgentAssumption
    <3>6. QED
      BY <3>4, <3>5
  <2>5. QED
    BY <1>t, <1>5, <2>2, <2>4, RestType DEF RunSend, sessionVars
<1>6. CASE RunSendPanics
  <2>1. run' \in Runs /\ run'.at \notin {"check", "send", "up"}
    BY <1>6, RunTypes DEF RunSendPanics
  <2>2. QED
    BY <1>t, <1>6, <2>1, RestType DEF RunSendPanics, queueVars, sessionVars
<1>7. CASE Recovered
  <2>1. run' \in Runs /\ (run'.at \in {"check", "send", "up"} => run'.pack \in Real)
    <3>1. run.pack \in Real
      BY <1>t, <1>7 DEF Recovered
    <3>2. CASE run' = Through(run.err)
      BY <3>2, RunTypes
    <3>3. CASE run' = [run EXCEPT !.at = "check", !.what = "reply"]
      BY <1>t, <3>1, <3>3 DEF Runs
    <3>4. QED
      BY <1>7, <3>2, <3>3 DEF Recovered
  <2>2. QED
    BY <1>t, <1>7, <2>1, RestType DEF Recovered, queueVars, sessionVars
<1>8. QED
  BY <1>1, <1>2, <1>3, <1>4, <1>5, <1>6, <1>7 DEF RunNext

LEMMA StepOtherType ==
    ASSUME TypeInv, FailInv, [CloseConn \/ ReaderNext \/ WriterNext
                                  \/ \E p \in Pushers : PusherNext(p)]_vars
    PROVE  TypeInv'
<1>t. /\ run \in Runs /\ (run.at \in {"check", "send", "up"} => run.pack \in Real)
      /\ reader \in Readers /\ writer \in Writers
      /\ pusher \in [Pushers -> {"idle", "found", "check", "sending"} \cup PushDone]
      /\ readChan \in [buf : Seq(Pack), open : BOOLEAN] /\ Len(readChan.buf) <= ReadCap + 1
      /\ writeChan \in [buf : Seq(Item \cup Push), open : BOOLEAN]
      /\ Len(writeChan.buf) <= WriteCap
      /\ noticeFin \in 0..1 /\ writeError \in BOOLEAN /\ isStop \in BOOLEAN
      /\ connOpen \in BOOLEAN /\ registered \in BOOLEAN /\ packs \in 0..MaxPacks
      /\ wire \in Seq({ConnAckPack} \cup Item \cup Push) /\ panicked \in BOOLEAN
  BY TypeParts
<1>l. Len(readChan.buf) \in Nat /\ Len(writeChan.buf) \in Nat
  BY <1>t, LenProperties
<1>1. CASE CloseConn
  BY <1>t, <1>1, RestType DEF CloseConn, queueVars
<1>2. ASSUME NEW kind \in Kinds, ReadPack(kind) PROVE TypeInv'
  <2>1. packs' = packs + 1 /\ packs < MaxPacks
    BY <1>2 DEF ReadPack
  <2>2. packs' \in 0..MaxPacks /\ packs + 1 \in 1..MaxPacks
    BY <1>t, <2>1, MqttAgentAssumption
  <2>3. [id |-> packs + 1, kind |-> kind] \in Pack
    BY <2>2 DEF Pack
  <2>4. reader' \in Readers
    BY <1>2, <2>3 DEF ReadPack, Readers
  <2>5. QED
    BY <1>t, <1>2, <2>2, <2>4, RestType DEF ReadPack, queueVars, sessionVars
<1>3. CASE ReadFails
  <2>1. reader' \in Readers
    BY <1>3, Packs DEF ReadFails, Readers
  <2>2. QED
    BY <1>t, <1>3, <2>1, RestType DEF ReadFails, queueVars, sessionVars
<1>4. CASE Offer
  <2>1. reader' \in Readers /\ reader.pack \in Pack
    BY <1>t, <1>4, Packs DEF Offer, Readers
  <2>2. /\ Append(readChan.buf, reader.pack) \in Seq(Pack)
        /\ Len(Append(readChan.buf, reader.pack)) = Len(readChan.buf) + 1
    BY <1>t, <2>1, QueueAppend
  <2>3. Len(readChan.buf) + 1 <= ReadCap + 1
    <3>1. CASE Len(readChan.buf) < ReadCap
      BY <1>l, <3>1, MqttAgentAssumption
    <3>2. CASE readChan.buf = <<>>
      BY <3>2, MqttAgentAssumption
    <3>3. QED
      BY <1>4, <3>1, <3>2 DEF Offer
  <2>4. readChan' \in [buf : Seq(Pack), open : BOOLEAN] /\ Len(readChan'.buf) <= ReadCap + 1
    <3>1. readChan' = [readChan EXCEPT !.buf = Append(readChan.buf, reader.pack)]
      BY <1>4 DEF Offer
    <3>2. /\ readChan' \in [buf : Seq(Pack), open : BOOLEAN]
          /\ readChan'.buf = Append(readChan.buf, reader.pack)
      BY <1>t, <2>2, <3>1, PutBuf
    <3>3. QED
      BY <2>2, <2>3, <3>2
  <2>5. QED
    BY <1>t, <1>4, <2>1, <2>4, RestType DEF Offer, sessionVars
<1>5. CASE TakeNotice
  <2>1. reader' \in Readers
    BY <1>5, Packs DEF TakeNotice, Readers
  <2>2. noticeFin' \in 0..1
    BY <1>t, <1>5 DEF TakeNotice
  <2>3. QED
    BY <1>t, <1>5, <2>1, <2>2, RestType DEF TakeNotice, sessionVars
<1>6. CASE CloseWriteChan \/ CloseReadChan
  <2>1. reader' \in Readers
    BY <1>t, <1>6 DEF CloseWriteChan, CloseReadChan, Readers
  <2>2. /\ readChan' \in [buf : Seq(Pack), open : BOOLEAN] /\ readChan'.buf = readChan.buf
        /\ writeChan' \in [buf : Seq(Item \cup Push), open : BOOLEAN]
        /\ writeChan'.buf = writeChan.buf
    BY <1>t, <1>6 DEF CloseWriteChan, CloseReadChan
  <2>3. QED
    BY <1>t, <1>6, <2>1, <2>2, RestType DEF CloseWriteChan, CloseReadChan, sessionVars
<1>7. CASE TakeItem
  <2>1. writeChan.buf # <<>> /\ writeChan.buf \in Seq(Item \cup Push)
    BY <1>t, <1>7 DEF TakeItem
  <2>2. /\ Head(writeChan.buf) \in Item \cup Push
        /\ Tail(writeChan.buf) \in Seq(Item \cup Push)
        /\ Len(Tail(writeChan.buf)) = Len(writeChan.buf) - 1
    BY <2>1, QueueTail
  <2>3. writer' \in Writers
    BY <1>7, <2>2 DEF TakeItem, Writers
  <2>4. /\ writeChan' \in [buf : Seq(Item \cup Push), open : BOOLEAN]
        /\ Len(writeChan'.buf) <= WriteCap
    <3>1. writeChan' = [writeChan EXCEPT !.buf = Tail(writeChan.buf)]
      BY <1>7 DEF TakeItem
    <3>2. /\ writeChan' \in [buf : Seq(Item \cup Push), open : BOOLEAN]
          /\ writeChan'.buf = Tail(writeChan.buf)
      BY <1>t, <2>2, <3>1, PutBuf
    <3>3. Len(Tail(writeChan.buf)) <= WriteCap
      BY <1>t, <1>l, <2>2, MqttAgentAssumption
    <3>4. QED
      BY <3>2, <3>3
  <2>5. QED
    BY <1>t, <1>7, <2>3, <2>4, RestType DEF TakeItem, sessionVars
<1>8. CASE Write
  <2>1. writer' \in Writers /\ writer.item \in {ConnAckPack} \cup Item \cup Push
    BY <1>t, <1>8 DEF Write, Writers, Resting
  <2>2. wire' \in Seq({ConnAckPack} \cup Item \cup Push)
    BY <1>t, <1>8, <2>1 DEF Write
  <2>3. QED
    BY <1>t, <1>8, <2>1, <2>2, RestType DEF Write, queueVars, sessionVars
<1>9. CASE WriteFails
  <2>1. writer' \in Writers /\ writeError' \in BOOLEAN
    BY <1>9 DEF WriteFails, Writers, Resting
  <2>2. QED
    BY <1>t, <1>9, <2>1, RestType DEF WriteFails, sessionVars
<1>10. CASE Notify
  <2>1. writer' \in Writers /\ writer.at = "notify" /\ noticeFin' = noticeFin + 1
    BY <1>10 DEF Notify, Writers, Resting
  <2>2. noticeFin' \in 0..1
    BY <1>t, <2>1 DEF FailInv
  <2>3. QED
    BY <1>t, <1>10, <2>1, <2>2, RestType DEF Notify, sessionVars
<1>11. ASSUME NEW p \in Pushers, LookUp(p) \/ WriteMsg(p) \/ PushCheck(p) \/ PushPanics(p)
       PROVE  TypeInv'
  <2>1. pusher' \in [Pushers -> {"idle", "found", "check", "sending"} \cup PushDone]
    BY <1>t, <1>11 DEF LookUp, WriteMsg, PushCheck, PushPanics, Pushes, PushDone
  <2>2. panicked' \in BOOLEAN
    BY <1>t, <1>11 DEF LookUp, WriteMsg, PushCheck, PushPanics
  <2>3. UNCHANGED <<run, reader, writer, queueVars, sessionVars, packs, wire>>
    BY <1>11 DEF LookUp, WriteMsg, PushCheck, PushPanics
  <2>4. QED
    BY <1>t, <2>1, <2>2, <2>3, RestType DEF queueVars, sessionVars
<1>12. ASSUME NEW p \in Pushers, PushSend(p) PROVE TypeInv'
  <2> DEFINE x == [kind |-> "push", id |-> p]
  <2>1. pusher' \in [Pushers -> {"idle", "found", "check", "sending"} \cup PushDone]
    BY <1>t, <1>12 DEF PushSend, Pushes, PushDone
  <2>2. x \in Item \cup Push
    BY DEF Push
  <2>3. /\ writeChan' = [writeChan EXCEPT !.buf = Append(@, x)]
        /\ Len(writeChan.buf) < WriteCap
    BY <1>12 DEF PushSend
  <2> HIDE DEF x
  <2>4. /\ Append(writeChan.buf, x) \in Seq(Item \cup Push)
        /\ Len(Append(writeChan.buf, x)) = Len(writeChan.buf) + 1
    BY <1>t, <2>2, QueueAppend
  <2>5. /\ writeChan' \in [buf : Seq(Item \cup Push), open : BOOLEAN]
        /\ Len(writeChan'.buf) <= WriteCap
    <3>1. /\ writeChan' \in [buf : Seq(Item \cup Push), open : BOOLEAN]
          /\ writeChan'.buf = Append(writeChan.buf, x)
      BY <1>t, <2>3, <2>4, PutBuf
    <3>2. Len(Append(writeChan.buf, x)) <= WriteCap
      BY <1>l, <2>3, <2>4, MqttAgentAssumption
    <3>3. QED
      BY <3>1, <3>2
  <2>6. QED
    BY <1>t, <1>12, <2>1, <2>5, RestType DEF PushSend, sessionVars
<1>13. CASE UNCHANGED vars
  BY <1>t, <1>13, RestType DEF vars, queueVars, sessionVars
<1>14. QED
  BY <1>1, <1>2, <1>3, <1>4, <1>5, <1>6, <1>7, <1>8, <1>9, <1>10, <1>11, <1>12, <1>13
     DEF ReaderNext, WriterNext, PusherNext

LEMMA StepType == TypeInv /\ StartInv /\ FailInv /\ [Next]_vars => TypeInv'
BY StepRunType, StepOtherType DEF Next

-----------------------------------------------------------------------------
(* The start of the goroutines, and the end of the queue.                  *)

\* Where the loop of the connection goes once it has left the CONNECT behind.
LEMMA RunMoves ==
    ASSUME TypeInv, RunNext
    PROVE  \/ ConnAck /\ run'.at = "listen"
           \/ Connect /\ run'.at = "connack"
           \/ UNCHANGED <<reader, writer, wire>> /\ run'.at \notin {"login", "connack"}
<1>t. run \in Runs
  BY TypeParts
<1>1. CASE LoginFails \/ ConnAckFails \/ ReadChanClosed \/ Stop \/ CloseRun \/ OnClose
  <2>1. run'.at \notin {"login", "connack"}
    BY <1>1, RunTypes DEF LoginFails, ConnAckFails, ReadChanClosed, Stop, CloseRun, OnClose
  <2>2. UNCHANGED <<reader, writer, wire>>
    BY <1>1 DEF LoginFails, ConnAckFails, ReadChanClosed, Stop, CloseRun, OnClose
  <2>3. QED
    BY <2>1, <2>2
<1>2. CASE Connect
  BY <1>2, RunTypes DEF Connect
<1>3. CASE ConnAck
  BY <1>3, RunTypes DEF ConnAck
<1>4. CASE TakePack
  <2>1. \/ run' = Running("stop") \/ run' = Running("listen")
        \/ \E p : run' = [at |-> First(p.kind), what |-> "ack", pack |-> p, err |-> FALSE]
    BY <1>4 DEF TakePack
  <2>2. run'.at \notin {"login", "connack"}
    BY <2>1, RunTypes DEF First
  <2>3. UNCHANGED <<reader, writer, wire>>
    BY <1>4 DEF TakePack
  <2>4. QED
    BY <2>2, <2>3
<1>5. CASE RunCheck \/ RunSend \/ RunSendPanics \/ Recovered
  <2>1. \/ run' = [run EXCEPT !.at = "send"]
        \/ run' = [run EXCEPT !.at = "check", !.what = "reply"]
        \/ run' = Running("close")
        \/ \E err : run' = Through(err)
        \/ \E err : run' = [run EXCEPT !.at = "up", !.err = err]
    BY <1>5 DEF RunCheck, RunSend, RunSendPanics, Recovered, AfterAck
  <2>2. run'.at \notin {"login", "connack"}
    BY <1>t, <2>1, RunTypes DEF Runs
  <2>3. UNCHANGED <<reader, writer, wire>>
    BY <1>5 DEF RunCheck, RunSend, RunSendPanics, Recovered
  <2>4. QED
    BY <2>2, <2>3
<1>6. QED
  BY <1>1, <1>2, <1>3, <1>4, <1>5 DEF RunNext

\* What the reader and the writer do, as far as their start goes.
LEMMA StepStart ==
    ASSUME TypeInv, StartInv, [Next]_vars
    PROVE  StartInv'
<1>t. /\ reader \in Readers /\ writer \in Writers
      /\ wire \in Seq({ConnAckPack} \cup Item \cup Push)
  BY TypeParts
<1>1. CASE RunNext
  <2>1. CASE ConnAck
    <3>1. /\ run.at = "connack" /\ wire = <<>> /\ wire' = Append(wire, ConnAckPack)
          /\ writer' = Resting("select") /\ reader' = [reader EXCEPT !.at = "read"]
          /\ run' = Running("listen")
      BY <2>1 DEF ConnAck, StartInv
    <3>2. run'.at = "listen" /\ writer'.at = "select" /\ reader'.at = "read"
      BY <1>t, <3>1, RunTypes DEF Resting, Readers
    <3>3. wire' # <<>> /\ Head(wire') = ConnAckPack
      BY <3>1
    <3>4. QED
      BY <3>2, <3>3 DEF StartInv
  <2>2. CASE Connect /\ run'.at = "connack"
    BY <2>2 DEF Connect, StartInv
  <2>3. CASE UNCHANGED <<reader, writer, wire>> /\ run'.at \notin {"login", "connack"}
    BY <2>3 DEF StartInv
  <2>4. QED
    BY <1>1, <2>1, <2>2, <2>3, RunMoves
<1>2. CASE ReaderNext
  <2>1. reader.at # "new" /\ reader'.at # "new"
    BY <1>t, <1>2 DEF ReaderNext, ReadPack, ReadFails, Offer, TakeNotice, CloseWriteChan,
           CloseReadChan, Readers
  <2>2. UNCHANGED <<run, writer, wire>>
    BY <1>2 DEF ReaderNext, ReadPack, ReadFails, Offer, TakeNotice, CloseWriteChan,
           CloseReadChan
  <2>3. QED
    BY <2>1, <2>2 DEF StartInv
<1>3. CASE TakeItem \/ WriteFails \/ Notify
  <2>1. writer.at # "new" /\ writer'.at # "new"
    BY <1>3 DEF TakeItem, WriteFails, Notify, Resting
  <2>2. UNCHANGED <<run, reader, wire>>
    BY <1>3 DEF TakeItem, WriteFails, Notify
  <2>3. QED
    BY <2>1, <2>2 DEF StartInv
<1>4. CASE Write
  <2>1. writer.at = "write" /\ writer'.at = "select" /\ wire' = Append(wire, writer.item)
    BY <1>4 DEF Write, Resting
  <2>2. wire # <<>> /\ writer.item \in {ConnAckPack} \cup Item \cup Push
    BY <1>t, <2>1 DEF StartInv, Writers
  <2>3. wire' # <<>> /\ Head(wire') = Head(wire)
    BY <1>t, <2>1, <2>2, QueueAppend
  <2>4. UNCHANGED <<run, reader>>
    BY <1>4 DEF Write
  <2>5. QED
    BY <2>1, <2>2, <2>3, <2>4 DEF StartInv
<1>5. CASE CloseConn \/ (\E p \in Pushers : PusherNext(p)) \/ UNCHANGED vars
  <2>1. UNCHANGED <<run, reader, writer, wire>>
    BY <1>5 DEF CloseConn, PusherNext, LookUp, WriteMsg, PushCheck, PushSend, PushPanics,
           vars
  <2>2. QED
    BY <2>1 DEF StartInv
<1>6. QED
  BY <1>1, <1>2, <1>3, <1>4, <1>5 DEF Next, WriterNext

LEMMA StepFail ==
    ASSUME TypeInv, StartInv, FailInv, [Next]_vars
    PROVE  FailInv'
<1>t. /\ reader \in Readers /\ writer \in Writers /\ noticeFin \in 0..1
      /\ readChan \in [buf : Seq(Pack), open : BOOLEAN]
      /\ writeChan \in [buf : Seq(Item \cup Push), open : BOOLEAN]
  BY TypeParts
<1>1. CASE RunNext
  <2>1. UNCHANGED <<noticeFin, writeError, panicked>> /\ writeChan'.open = writeChan.open
    BY <1>t, <1>1 DEF RunNext, LoginFails, Connect, ConnAck, ConnAckFails, TakePack,
           ReadChanClosed, RunCheck, RunSend, RunSendPanics, Recovered, Stop, CloseRun,
           OnClose, queueVars
  <2>2. CASE ConnAck
    <3>1. run.at = "connack" /\ writer.at = "new"
      BY <2>2 DEF ConnAck, StartInv
    <3>2. reader'.at = "read" /\ writer'.at = "select"
      BY <1>t, <2>2 DEF ConnAck, Resting, Readers
    <3>3. QED
      BY <2>1, <3>1, <3>2 DEF FailInv
  <2>3. CASE UNCHANGED <<reader, writer>>
    BY <2>1, <2>3 DEF FailInv
  <2>4. QED
    BY <1>1, <2>2, <2>3, RunMoves DEF Connect
<1>2. CASE ReaderNext
  <2>1. UNCHANGED <<writer, writeError, panicked>>
    BY <1>2 DEF ReaderNext, ReadPack, ReadFails, Offer, TakeNotice, CloseWriteChan,
           CloseReadChan, queueVars
  <2>2. CASE (\E kind \in Kinds : ReadPack(kind)) \/ ReadFails \/ Offer
    <3>1. reader'.at \in {"read", "offer", "notice"}
      BY <2>2 DEF ReadPack, ReadFails, Offer
    <3>2. UNCHANGED <<noticeFin, writeChan>>
      BY <2>2 DEF ReadPack, ReadFails, Offer, queueVars
    <3>3. QED
      BY <2>1, <3>1, <3>2 DEF FailInv
  <2>3. CASE TakeNotice
    <3>1. noticeFin > 0 /\ writer.at = "exit" /\ writeError
      BY <1>t, <2>3 DEF TakeNotice, FailInv
    <3>2. QED
      BY <2>1, <3>1 DEF FailInv
  <2>4. CASE CloseWriteChan \/ CloseReadChan
    <3>1. writer.at = "exit" /\ writeError
      BY <2>4 DEF CloseWriteChan, CloseReadChan, FailInv
    <3>2. QED
      BY <2>1, <3>1 DEF FailInv
  <2>5. QED
    BY <1>2, <2>2, <2>3, <2>4 DEF ReaderNext
<1>3. CASE WriterNext
  <2>1. writer.at \in {"select", "write", "notify"} /\ noticeFin = 0
        /\ ~(reader.at \in {"close", "close2", "exit"}) /\ writeChan.open /\ ~panicked
    <3>1. writer.at \in {"select", "write", "notify"}
      BY <1>3 DEF WriterNext, TakeItem, Write, WriteFails, Notify
    <3>2. QED
      BY <1>t, <3>1 DEF FailInv
  <2>2. UNCHANGED <<reader, panicked>> /\ writeChan'.open = writeChan.open
    BY <1>t, <1>3 DEF WriterNext, TakeItem, Write, WriteFails, Notify, queueVars
  <2>3. CASE TakeItem \/ Write
    <3>1. writer'.at \in {"select", "write"} /\ UNCHANGED <<noticeFin, writeError>>
      BY <2>3 DEF TakeItem, Write, Resting, queueVars
    <3>2. QED
      BY <2>1, <2>2, <3>1 DEF FailInv
  <2>4. CASE WriteFails
    <3>1. writer'.at = "notify" /\ writeError' /\ UNCHANGED noticeFin
      BY <2>4 DEF WriteFails, Resting
    <3>2. QED
      BY <2>1, <2>2, <3>1 DEF FailInv
  <2>5. CASE Notify
    <3>1. writer.at = "notify" /\ writer'.at = "exit" /\ UNCHANGED writeError
      BY <2>5 DEF Notify, Resting
    <3>2. writeError'
      BY <3>1 DEF FailInv
    <3>3. QED
      BY <3>1, <3>2 DEF FailInv
  <2>6. QED
    BY <1>3, <2>3, <2>4, <2>5 DEF WriterNext
<1>4. CASE CloseConn \/ (\E p \in Pushers : PusherNext(p)) \/ UNCHANGED vars
  <2>1. UNCHANGED <<reader, writer, noticeFin, writeError>>
        /\ writeChan'.open = writeChan.open
    BY <1>t, <1>4 DEF CloseConn, PusherNext, LookUp, WriteMsg, PushCheck, PushSend,
           PushPanics, vars, queueVars
  <2>2. panicked' => panicked \/ ~writeChan.open
    BY <1>4 DEF CloseConn, PusherNext, LookUp, WriteMsg, PushCheck, PushSend,
           PushPanics, vars
  <2>3. QED
    BY <2>1, <2>2 DEF FailInv
<1>5. QED
  BY <1>1, <1>2, <1>3, <1>4 DEF Next

-----------------------------------------------------------------------------
(* The order of the answers.                                               *)

Thing == {ConnAckPack} \cup Item \cup Push \cup Pack

LEMMA RankType ==
    ASSUME NEW x \in Thing, Ranked(x)
    PROVE  /\ x.id \in Nat /\ Rank(x) \in Nat
           /\ 2 * x.id <= Rank(x) /\ Rank(x) <= 2 * x.id + 1
           /\ x \in Pack => Rank(x) = 2 * x.id
           /\ x \in Item \cup Push \cup Pack => Rank(x) > 0
<1>1. \/ x = ConnAckPack
      \/ x \in Item
      \/ x \in Real
  BY Packs DEF Thing, Ranked, Push, NoPack
<1>2. CASE x = ConnAckPack
  BY <1>2 DEF ConnAckPack, Rank, Item, Push, Pack, Kinds
<1>3. CASE x \in Item
  <2>1. x.id \in Nat /\ x.id >= 1 /\ x.kind \in {"ack", "reply"}
    BY <1>3, MqttAgentAssumption DEF Item
  <2>2. x \notin Pack
    BY <2>1 DEF Pack, Kinds
  <2>3. QED
    BY <2>1, <2>2 DEF Rank
<1>4. CASE x \in Real
  <2>1. x.id \in Nat /\ x.id >= 1 /\ x.kind # "reply"
    BY <1>4, MqttAgentAssumption DEF Real, Kinds
  <2>2. QED
    BY <2>1 DEF Rank
<1>5. QED
  BY <1>1, <1>2, <1>3, <1>4

LEMMA SetTypes ==
    ASSUME TypeInv
    PROVE  /\ Written \subseteq {ConnAckPack} \cup Item \cup Push
           /\ Held \subseteq Item \cup Push /\ Queued \subseteq Item \cup Push
           /\ Current \subseteq Item
           /\ Waiting \subseteq Pack /\ Offered \subseteq Pack
<1>1. Written \subseteq {ConnAckPack} \cup Item \cup Push
  BY TypeParts, ElementOfSeq DEF Written, Elems
<1>2. Queued \subseteq Item \cup Push
  BY TypeParts, ElementOfSeq DEF Queued, Elems
<1>3. Waiting \subseteq Pack
  BY TypeParts, ElementOfSeq DEF Waiting, Elems
<1>4. Held \subseteq Item \cup Push
  BY TypeParts DEF Held, Writers
<1>5. Offered \subseteq Pack
  BY TypeParts DEF Offered, Readers
<1>6. Current \subseteq Item
  BY TypeParts DEF Current, Item, Runs, Real
<1>7. QED
  BY <1>1, <1>2, <1>3, <1>4, <1>5, <1>6

\* An answer has the place of the packet it answers, also the second answer to it.
LEMMA SamePlace ==
    ASSUME NEW x \in Thing, NEW y \in Thing, Ranked(x), Ranked(y),
           x.id = y.id, Rank(x) <= Rank(y)
    PROVE  /\ \A A \in SUBSET Thing : Precedes(A, {x}) => Precedes(A, {y})
           /\ \A B \in SUBSET Pack : Precedes({x}, B) => Precedes({y}, B)
<1>1. ASSUME NEW A \in SUBSET Thing, Precedes(A, {x}) PROVE Precedes(A, {y})
  <2> SUFFICES ASSUME NEW a \in A, Ranked(a) PROVE Rank(a) < Rank(y)
      BY DEF Precedes
  <2>1. Rank(a) < Rank(x)
    BY <1>1 DEF Precedes
  <2>2. QED
    BY <2>1, RankType
<1>2. ASSUME NEW B \in SUBSET Pack, Precedes({x}, B) PROVE Precedes({y}, B)
  <2> SUFFICES ASSUME NEW b \in B, Ranked(b) PROVE Rank(y) < Rank(b)
      BY DEF Precedes
  <2>1. Rank(x) < Rank(b) /\ b \in Thing
    BY <1>2 DEF Precedes, Thing
  <2>2. /\ x.id \in Nat /\ b.id \in Nat /\ Rank(b) = 2 * b.id /\ Rank(y) \in Nat
        /\ 2 * x.id <= Rank(x) /\ Rank(y) <= 2 * x.id + 1 /\ Rank(x) \in Nat
    BY <2>1, RankType
  <2>3. QED
    BY <2>1, <2>2
<1>3. QED
  BY <1>1, <1>2

\* The order survives what only takes things away.
LEMMA OrderShrinks ==
    ASSUME OrderInv, Sorted(wire'), Sorted(writeChan'.buf), Sorted(readChan'.buf),
           Written' \subseteq Written, Held' \subseteq Held, Queued' \subseteq Queued,
           Current' \subseteq Current, Waiting' \subseteq Waiting, Offered' \subseteq Offered,
           packs' = packs
    PROVE  OrderInv'
BY DEF OrderInv, Precedes

\* The second answer takes the place of the first.
LEMMA OrderAnswer ==
    ASSUME TypeInv, OrderInv,
           UNCHANGED <<Written, Held, Queued, Waiting, Offered, packs, wire>>,
           writeChan'.buf = writeChan.buf, readChan'.buf = readChan.buf,
           NEW x, NEW y \in Item, Current = {x}, Current' = {y},
           x.id = y.id, x.kind \in {"ack", "reply"}, y.kind = "reply"
    PROVE  OrderInv'
<1>1. /\ x \in Item /\ y \in Item /\ Written \cup Held \cup Queued \in SUBSET Thing
      /\ Waiting \cup Offered \in SUBSET Pack
  BY SetTypes DEF Thing
<1>2. x \in Thing /\ y \in Thing /\ Ranked(x) /\ Ranked(y) /\ x.id \in Nat
  BY <1>1, MqttAgentAssumption DEF Thing, Ranked, Item
<1>3. Rank(x) <= Rank(y)
  BY <1>2 DEF Rank
<1>4. /\ Precedes(Written \cup Held \cup Queued, {x})
      /\ Precedes({x}, Waiting \cup Offered)
      /\ x.id <= packs
  BY <1>2 DEF OrderInv, Precedes
<1>5. /\ Precedes(Written \cup Held \cup Queued, {y})
      /\ Precedes({y}, Waiting \cup Offered)
      /\ y.id <= packs
  BY <1>1, <1>2, <1>3, <1>4, SamePlace
<1>6. /\ Sorted(wire') /\ Sorted(writeChan'.buf) /\ Sorted(readChan'.buf)
      /\ Precedes(Written, Held \cup Queued) /\ Precedes(Held, Queued)
      /\ Precedes(Waiting, Offered)
      /\ Precedes(Written \cup Held \cup Queued, Waiting \cup Offered)
      /\ \A z \in Written \cup Held \cup Queued \cup Waiting \cup Offered :
            Ranked(z) => z.id <= packs
  BY DEF OrderInv, Precedes
<1>7. Precedes(Written \cup Held \cup Queued \cup {y}, Waiting \cup Offered)
  BY <1>5, <1>6 DEF Precedes
<1>8. \A z \in Written \cup Held \cup Queued \cup {y} \cup Waiting \cup Offered :
         Ranked(z) => z.id <= packs
  BY <1>5, <1>6
<1>9. QED
  BY <1>5, <1>6, <1>7, <1>8 DEF OrderInv

\* What keeps the queues keeps what is in them.
LEMMA KeptSets ==
    /\ wire' = wire => Written' = Written
    /\ writer' = writer => Held' = Held
    /\ writeChan'.buf = writeChan.buf => Queued' = Queued
    /\ run' = run => Current' = Current
    /\ readChan'.buf = readChan.buf => Waiting' = Waiting
    /\ reader' = reader => Offered' = Offered
    /\ run'.at \notin {"check", "send", "up"} => Current' = {}
BY DEF Written, Held, Queued, Current, Waiting, Offered

\* After an answer, the loop hands the packet to the upper layer or is through with it.
LEMMA AfterAckOrder ==
    ASSUME TypeInv, OrderInv, run.at \in {"check", "send"}, run.what = "ack",
           NEW err \in BOOLEAN, run' = AfterAck(err)
    PROVE  \/ Current' = {}
           \/ \E x \in Item, y \in Item :
                 /\ Current = {x} /\ Current' = {y}
                 /\ x.id = y.id /\ x.kind = "ack" /\ y.kind = "reply"
<1>1. run \in Runs /\ run.pack \in Real
  BY TypeParts
<1>2. CASE AfterAck(err).at = "up" /\ AfterAck(err).pack = run.pack
  <2> DEFINE x == [kind |-> "ack", id |-> run.pack.id]
             y == [kind |-> "reply", id |-> run.pack.id]
  <2>1. x \in Item /\ y \in Item
    BY <1>1 DEF Item, Real
  <2>2. Current = {x} /\ Current' = {y}
    BY <1>2 DEF Current
  <2>3. QED
    BY <2>1, <2>2
<1>3. CASE AfterAck(err).at \in {"stop", "listen"}
  BY <1>3, KeptSets
<1>4. QED
  BY <1>1, <1>2, <1>3, AfterAckType

LEMMA StepRunOrder ==
    ASSUME TypeInv, StartInv, OrderInv, RunNext
    PROVE  OrderInv'
<1>t. /\ run \in Runs /\ (run.at \in {"check", "send", "up"} => run.pack \in Real)
      /\ reader \in Readers /\ writer \in Writers
      /\ readChan \in [buf : Seq(Pack), open : BOOLEAN]
      /\ writeChan \in [buf : Seq(Item \cup Push), open : BOOLEAN]
      /\ wire \in Seq({ConnAckPack} \cup Item \cup Push)
      /\ packs \in 0..MaxPacks
  BY TypeParts
<1>s. Sorted(wire) /\ Sorted(writeChan.buf) /\ Sorted(readChan.buf)
  BY DEF OrderInv
<1>0. ASSUME UNCHANGED <<reader, writer, wire, readChan, writeChan, packs>>,
             Current' = {} \/ Current' = Current
      PROVE  OrderInv'
  <2>1. /\ Written' = Written /\ Held' = Held /\ Queued' = Queued
        /\ Waiting' = Waiting /\ Offered' = Offered
        /\ Sorted(wire') /\ Sorted(writeChan'.buf) /\ Sorted(readChan'.buf)
        /\ packs' = packs
    BY <1>0, <1>s, KeptSets
  <2>2. QED
    BY <1>0, <2>1, OrderShrinks
<1>1. CASE LoginFails \/ Connect \/ ConnAckFails \/ ReadChanClosed \/ Stop \/ CloseRun
           \/ OnClose \/ RunSendPanics
  <2>1. run'.at \notin {"check", "send", "up"}
    BY <1>1, RunTypes DEF LoginFails, Connect, ConnAckFails, ReadChanClosed, Stop, CloseRun,
           OnClose, RunSendPanics
  <2>2. UNCHANGED <<reader, writer, wire, readChan, writeChan, packs>>
    BY <1>1 DEF LoginFails, Connect, ConnAckFails, ReadChanClosed, Stop, CloseRun, OnClose,
           RunSendPanics, queueVars
  <2>3. QED
    BY <1>0, <2>1, <2>2, KeptSets
<1>2. CASE RunCheck
  <2>1. UNCHANGED <<reader, writer, wire, readChan, writeChan, packs>> /\ run.at = "check"
    BY <1>2 DEF RunCheck, queueVars
  <2>2. CASE run' = [run EXCEPT !.at = "send"]
    <3>1. Current' = Current
      BY <1>t, <2>1, <2>2 DEF Current, Runs
    <3>2. QED
      BY <1>0, <2>1, <3>1
  <2>3. CASE run.what = "ack" /\ run' = AfterAck(TRUE)
    <3>1. CASE Current' = {}
      BY <1>0, <2>1, <3>1
    <3>2. CASE \E x \in Item, y \in Item :
                  /\ Current = {x} /\ Current' = {y}
                  /\ x.id = y.id /\ x.kind = "ack" /\ y.kind = "reply"
      <4>1. PICK x \in Item, y \in Item :
                  /\ Current = {x} /\ Current' = {y}
                  /\ x.id = y.id /\ x.kind = "ack" /\ y.kind = "reply"
        BY <3>2
      <4>2. UNCHANGED <<Written, Held, Queued, Waiting, Offered, packs, wire>>
            /\ writeChan'.buf = writeChan.buf /\ readChan'.buf = readChan.buf
        BY <2>1, KeptSets
      <4>3. QED
        BY <4>1, <4>2, OrderAnswer
    <3>3. QED
      BY <2>1, <2>3, <3>1, <3>2, AfterAckOrder
  <2>4. CASE run' = Through(run.err)
    BY <1>0, <2>1, <2>4, RunTypes, KeptSets
  <2>5. QED
    BY <1>2, <2>2, <2>3, <2>4 DEF RunCheck
<1>3. CASE Recovered
  <2>1. UNCHANGED <<reader, writer, wire, readChan, writeChan, packs>> /\ run.at = "up"
    BY <1>3 DEF Recovered, queueVars
  <2>2. CASE run' = [run EXCEPT !.at = "check", !.what = "reply"]
    <3>1. Current' = Current
      BY <1>t, <2>1, <2>2 DEF Current, Runs
    <3>2. QED
      BY <1>0, <2>1, <3>1
  <2>3. CASE run' = Through(run.err)
    BY <1>0, <2>1, <2>3, RunTypes, KeptSets
  <2>4. QED
    BY <1>3, <2>2, <2>3 DEF Recovered
<1>4. CASE ConnAck
  <2>1. /\ wire = <<>> /\ wire' = <<ConnAckPack>> /\ run.at = "connack"
        /\ run'.at = "listen" /\ writer.at = "new" /\ writer'.at = "select"
        /\ reader.at = "new" /\ reader'.at = "read"
        /\ UNCHANGED <<readChan, writeChan, packs>>
    <3>1. run.at = "connack" /\ writer.at = "new" /\ reader.at = "new" /\ wire = <<>>
      BY <1>4 DEF ConnAck, StartInv
    <3>2. run'.at = "listen" /\ writer'.at = "select" /\ reader'.at = "read"
      BY <1>t, <1>4, RunTypes DEF ConnAck, Resting, Readers
    <3>3. QED
      BY <1>4, <3>1, <3>2 DEF ConnAck, queueVars
  <2>2. /\ Written' = {ConnAckPack} /\ Held' = {} /\ Current' = {} /\ Offered' = {}
        /\ Queued' = Queued /\ Waiting' = Waiting
    BY <2>1, KeptSets DEF Written, Held, Offered, Elems
  <2>3. Sorted(wire')
    BY <2>1 DEF Sorted
  <2>4. \A y \in Queued \cup Waiting : Ranked(y) => Rank(ConnAckPack) < Rank(y)
    <3>1. \A y \in Queued \cup Waiting : y \in Item \cup Push \cup Pack
      BY SetTypes
    <3>2. Rank(ConnAckPack) = 0
      BY DEF Rank, ConnAckPack
    <3>3. QED
      BY <3>1, <3>2, RankType DEF Thing
  <2>5. ConnAckPack.id <= packs
    BY <1>t DEF ConnAckPack
  <2>6. /\ Sorted(writeChan.buf) /\ Sorted(readChan.buf)
        /\ Precedes(Queued, Waiting)
        /\ \A x \in Queued \cup Waiting : Ranked(x) => x.id <= packs
    BY DEF OrderInv, Precedes
  <2>7. /\ Precedes({ConnAckPack}, {} \cup Queued)
        /\ Precedes({}, Queued)
        /\ Precedes({ConnAckPack} \cup {} \cup Queued, {})
        /\ Precedes({ConnAckPack} \cup {} \cup Queued \cup {}, Waiting \cup {})
        /\ Precedes(Waiting, {})
        /\ \A x \in {ConnAckPack} \cup {} \cup Queued \cup {} \cup Waiting \cup {} :
              Ranked(x) => x.id <= packs
    BY <2>4, <2>5, <2>6 DEF Precedes
  <2>8. QED
    BY <2>1, <2>2, <2>3, <2>6, <2>7 DEF OrderInv
<1>5. CASE TakePack
  <2> DEFINE p == Head(readChan.buf)
  <2>1. /\ readChan.buf # <<>> /\ readChan.buf \in Seq(Pack) /\ run.at = "listen"
        /\ readChan' = [readChan EXCEPT !.buf = Tail(readChan.buf)]
        /\ UNCHANGED <<reader, writer, wire, writeChan, packs>>
    BY <1>t, <1>5 DEF TakePack
  <2>2. /\ p \in Pack /\ p \in Waiting /\ Waiting' \subseteq Waiting
        /\ Precedes({p}, Waiting') /\ Sorted(readChan'.buf)
    <3>1. /\ p \in Pack /\ p \in Elems(readChan.buf)
          /\ Elems(Tail(readChan.buf)) \subseteq Elems(readChan.buf)
          /\ Sorted(Tail(readChan.buf)) /\ Precedes({p}, Elems(Tail(readChan.buf)))
      BY <1>s, <2>1, QueueTail
    <3>2. readChan'.buf = Tail(readChan.buf)
      BY <1>t, <2>1
    <3>3. QED
      BY <3>1, <3>2 DEF Waiting
  <2> HIDE DEF p
  <2>3. /\ Written' = Written /\ Held' = Held /\ Queued' = Queued /\ Offered' = Offered
        /\ Current = {}
    BY <2>1, KeptSets DEF Current
  <2>4. CASE run'.at \notin {"check", "send", "up"}
    <3>1. Current' = {}
      BY <2>4, KeptSets
    <3>2. QED
      BY <1>s, <2>1, <2>2, <2>3, <3>1, OrderShrinks
  <2>5. CASE /\ p.kind # "error"
             /\ First(p.kind) \in {"check", "up"}
             /\ run' = [at |-> First(p.kind), what |-> "ack", pack |-> p, err |-> FALSE]
    <3> DEFINE y == [kind |-> IF First(p.kind) = "up" THEN "reply" ELSE "ack", id |-> p.id]
    <3>1. Current' = {y}
      BY <2>5 DEF Current
    <3>2. p \in Real
      BY <2>2, <2>5, Packs DEF NoPack
    <3>3. /\ y \in Item /\ p \in Thing /\ y \in Thing /\ Ranked(y) /\ Ranked(p) /\ y.id = p.id
          /\ y.kind \in {"ack", "reply"} /\ p.kind # "reply" /\ p.id \in Nat
      BY <3>2, MqttAgentAssumption DEF Real, Kinds, Item, Thing, Pack, Ranked
    <3> HIDE DEF y
    <3>4. Rank(p) <= Rank(y)
      BY <3>3 DEF Rank
    <3>5. Written \cup Held \cup Queued \in SUBSET Thing /\ Waiting' \cup Offered \in SUBSET Pack
      BY <2>2, SetTypes DEF Thing
    <3>6. /\ Precedes(Written \cup Held \cup Queued, {p})
          /\ Precedes({p}, Waiting' \cup Offered) /\ p.id <= packs
      BY <2>2, <3>3 DEF OrderInv, Precedes
    <3>7. /\ Precedes(Written \cup Held \cup Queued, {y})
          /\ Precedes({y}, Waiting' \cup Offered) /\ y.id <= packs
      BY <3>3, <3>4, <3>5, <3>6, SamePlace
    <3>8. /\ Precedes(Written, Held \cup Queued) /\ Precedes(Held, Queued)
          /\ Precedes(Waiting', Offered)
          /\ Precedes(Written \cup Held \cup Queued, Waiting' \cup Offered)
          /\ \A z \in Written \cup Held \cup Queued \cup Waiting' \cup Offered :
                Ranked(z) => z.id <= packs
      BY <2>2 DEF OrderInv, Precedes
    <3>9. /\ Precedes(Written \cup Held \cup Queued \cup {y}, Waiting' \cup Offered)
          /\ \A z \in Written \cup Held \cup Queued \cup {y} \cup Waiting' \cup Offered :
                Ranked(z) => z.id <= packs
      BY <3>7, <3>8 DEF Precedes
    <3>10. Sorted(wire') /\ Sorted(writeChan'.buf) /\ packs' = packs
      BY <1>s, <2>1
    <3>11. QED
      BY <2>2, <2>3, <3>1, <3>7, <3>8, <3>9, <3>10 DEF OrderInv
  <2>6. QED
    BY <1>5, <2>4, <2>5, RunTypes DEF TakePack, First, p
<1>6. CASE RunSend
  <2> DEFINE x == [kind |-> run.what, id |-> run.pack.id]
  <2>1. /\ run.at = "send" /\ run.pack \in Real /\ run.what \in {"ack", "reply"}
        /\ writeChan' = [writeChan EXCEPT !.buf = Append(writeChan.buf, x)]
        /\ UNCHANGED <<reader, writer, wire, readChan, packs>>
    BY <1>t, <1>6 DEF RunSend, Runs
  <2>2. x \in Item /\ Ranked(x) /\ Current = {x} /\ x.kind = run.what /\ x.id = run.pack.id
    BY <2>1 DEF Item, Real, Ranked, Current
  <2> HIDE DEF x
  <2>3. Sorted(writeChan'.buf) /\ Queued' = Queued \cup {x}
    <3>1. \A y \in Elems(writeChan.buf) : Ranked(y) /\ Ranked(x) => Rank(y) < Rank(x)
      BY <2>2 DEF OrderInv, Precedes, Queued
    <3>2. /\ Append(writeChan.buf, x) \in Seq(Item \cup Push)
          /\ Sorted(Append(writeChan.buf, x))
          /\ Elems(Append(writeChan.buf, x)) = Elems(writeChan.buf) \cup {x}
      <4>1. writeChan.buf \in Seq(Item \cup Push) /\ x \in Item \cup Push
        BY <1>t, <2>2
      <4>2. QED
        BY <1>s, <3>1, <4>1, QueueAppend
    <3>3. writeChan'.buf = Append(writeChan.buf, x)
      BY <1>t, <2>1
    <3>4. QED
      BY <3>2, <3>3 DEF Queued
  <2>4. /\ Written' = Written /\ Held' = Held /\ Waiting' = Waiting /\ Offered' = Offered
        /\ Sorted(wire') /\ Sorted(readChan'.buf) /\ packs' = packs
    BY <1>s, <2>1, KeptSets
  <2>5. /\ Precedes(Written, Held \cup Queued) /\ Precedes(Held, Queued)
        /\ Precedes(Written \cup Held \cup Queued, {x})
        /\ Precedes({x}, Waiting \cup Offered)
        /\ Precedes(Written \cup Held \cup Queued, Waiting \cup Offered)
        /\ Precedes(Waiting, Offered) /\ x.id <= packs
        /\ \A z \in Written \cup Held \cup Queued \cup Waiting \cup Offered :
              Ranked(z) => z.id <= packs
    BY <2>2 DEF OrderInv, Precedes
  <2>6. /\ Precedes(Written, Held \cup (Queued \cup {x})) /\ Precedes(Held, Queued \cup {x})
        /\ Precedes(Written \cup Held \cup (Queued \cup {x}), Waiting \cup Offered)
        /\ \A z \in Written \cup Held \cup (Queued \cup {x}) \cup Waiting \cup Offered :
              Ranked(z) => z.id <= packs
    BY <2>5 DEF Precedes
  <2>7. CASE Current' = {}
    <3>1. /\ Precedes(Written \cup Held \cup (Queued \cup {x}), {})
          /\ Precedes(Written \cup Held \cup (Queued \cup {x}) \cup {}, Waiting \cup Offered)
          /\ \A z \in Written \cup Held \cup (Queued \cup {x}) \cup {} \cup Waiting \cup Offered :
                Ranked(z) => z.id <= packs
      BY <2>6 DEF Precedes
    <3>2. QED
      BY <2>3, <2>4, <2>5, <2>6, <2>7, <3>1 DEF OrderInv
  <2>8. CASE \E y \in Item : Current' = {y} /\ y.id = x.id /\ x.kind = "ack" /\ y.kind = "reply"
    <3>1. PICK y \in Item : Current' = {y} /\ y.id = x.id /\ x.kind = "ack" /\ y.kind = "reply"
      BY <2>8
    <3>2. x \in Thing /\ y \in Thing /\ Ranked(y) /\ x.id \in Nat
      BY <2>2, <3>1, MqttAgentAssumption DEF Thing, Ranked, Item
    <3>3. Rank(x) < Rank(y)
      BY <3>1, <3>2 DEF Rank
    <3>4. Written \cup Held \cup Queued \in SUBSET Thing /\ Waiting \cup Offered \in SUBSET Pack
      BY SetTypes DEF Thing
    <3>5. Rank(x) <= Rank(y)
      BY <3>2, <3>3, <2>2, RankType
    <3>6. /\ Precedes(Written \cup Held \cup Queued, {y})
          /\ Precedes({y}, Waiting \cup Offered) /\ y.id <= packs
      BY <2>2, <2>5, <3>1, <3>2, <3>4, <3>5, SamePlace
    <3>7. /\ Precedes(Written \cup Held \cup (Queued \cup {x}), {y})
          /\ Precedes(Written \cup Held \cup (Queued \cup {x}) \cup {y}, Waiting \cup Offered)
          /\ \A z \in Written \cup Held \cup (Queued \cup {x}) \cup {y} \cup Waiting \cup Offered :
                Ranked(z) => z.id <= packs
      BY <2>6, <3>3, <3>6 DEF Precedes
    <3>8. QED
      BY <2>3, <2>4, <2>5, <2>6, <3>1, <3>7 DEF OrderInv
  <2>9. CASE run.what = "ack" /\ run' = AfterAck(FALSE)
    <3>1. CASE Current' = {}
      BY <2>7, <3>1
    <3>2. CASE \E z \in Item, y \in Item :
                 /\ Current = {z} /\ Current' = {y}
                 /\ z.id = y.id /\ z.kind = "ack" /\ y.kind = "reply"
      <4>1. PICK z \in Item, y \in Item :
                 /\ Current = {z} /\ Current' = {y}
                 /\ z.id = y.id /\ z.kind = "ack" /\ y.kind = "reply"
        BY <3>2
      <4>2. z = x
        BY <2>2, <4>1
      <4>3. QED
        BY <2>8, <4>1, <4>2
    <3>3. QED
      BY <2>1, <2>9, <3>1, <3>2, AfterAckOrder
  <2>10. CASE run' = Through(run.err)
    BY <2>7, <2>10, RunTypes, KeptSets
  <2>11. QED
    BY <1>6, <2>9, <2>10 DEF RunSend
<1>7. QED
  BY <1>1, <1>2, <1>3, <1>4, <1>5, <1>6 DEF RunNext

LEMMA StepOtherOrder ==
    ASSUME TypeInv, OrderInv, [CloseConn \/ ReaderNext \/ WriterNext
                                   \/ \E p \in Pushers : PusherNext(p)]_vars
    PROVE  OrderInv'
<1>t. /\ run \in Runs /\ reader \in Readers /\ writer \in Writers
      /\ readChan \in [buf : Seq(Pack), open : BOOLEAN]
      /\ writeChan \in [buf : Seq(Item \cup Push), open : BOOLEAN]
      /\ wire \in Seq({ConnAckPack} \cup Item \cup Push)
      /\ packs \in 0..MaxPacks
  BY TypeParts
<1>s. Sorted(wire) /\ Sorted(writeChan.buf) /\ Sorted(readChan.buf)
  BY DEF OrderInv
<1>1. ASSUME NEW kind \in Kinds, ReadPack(kind) PROVE OrderInv'
  <2> DEFINE x == [id |-> packs + 1, kind |-> kind]
  <2>1. /\ reader.at = "read" /\ reader' = [at |-> "offer", pack |-> x]
        /\ packs' = packs + 1 /\ packs < MaxPacks
        /\ UNCHANGED <<run, writer, readChan, writeChan, wire>>
    BY <1>1 DEF ReadPack, queueVars
  <2>2. x \in Pack /\ x.id = packs + 1 /\ x \in Thing
    BY <1>t, <2>1, MqttAgentAssumption DEF Pack, Thing
  <2> HIDE DEF x
  <2>3. /\ Written' = Written /\ Held' = Held /\ Queued' = Queued /\ Current' = Current
        /\ Waiting' = Waiting /\ Offered = {} /\ Offered' = {x}
        /\ Sorted(wire') /\ Sorted(writeChan'.buf) /\ Sorted(readChan'.buf)
    BY <1>s, <2>1, KeptSets DEF Offered
  <2>4. \A y \in Written \cup Held \cup Queued \cup Current \cup Waiting :
           Ranked(y) => /\ y.id <= packs /\ y.id <= packs + 1
                        /\ Ranked(x) => Rank(y) < Rank(x)
    <3> SUFFICES ASSUME NEW y \in Written \cup Held \cup Queued \cup Current \cup Waiting,
                        Ranked(y)
                 PROVE  /\ y.id <= packs /\ y.id <= packs + 1
                        /\ Ranked(x) => Rank(y) < Rank(x)
        OBVIOUS
    <3>1. y.id <= packs
      BY DEF OrderInv
    <3>2. y \in Thing
      BY SetTypes DEF Thing
    <3>3. y.id \in Nat /\ Rank(y) \in Nat /\ Rank(y) <= 2 * y.id + 1
      BY <3>2, RankType
    <3>4. Ranked(x) => Rank(x) = 2 * (packs + 1)
      BY <2>2, RankType
    <3>5. QED
      BY <1>t, <3>1, <3>3, <3>4
  <2>5. /\ Precedes(Written, Held \cup Queued) /\ Precedes(Held, Queued)
        /\ Precedes(Written \cup Held \cup Queued, Current)
        /\ Precedes(Written \cup Held \cup Queued \cup Current, Waiting \cup {x})
        /\ Precedes(Waiting, {x})
    BY <2>4 DEF OrderInv, Precedes
  <2>6. \A y \in Written \cup Held \cup Queued \cup Current \cup Waiting \cup {x} :
           Ranked(y) => y.id <= packs + 1
    BY <1>t, <2>2, <2>4
  <2>7. QED
    BY <2>1, <2>3, <2>5, <2>6 DEF OrderInv
<1>2. CASE ReadFails
  <2>1. /\ reader.at = "read" /\ reader' = [at |-> "offer", pack |-> NoPack]
        /\ UNCHANGED <<run, writer, readChan, writeChan, wire, packs>>
    BY <1>2 DEF ReadFails, queueVars
  <2>2. /\ Written' = Written /\ Held' = Held /\ Queued' = Queued /\ Current' = Current
        /\ Waiting' = Waiting /\ Offered = {} /\ Offered' = {NoPack} /\ packs' = packs
        /\ Sorted(wire') /\ Sorted(writeChan'.buf) /\ Sorted(readChan'.buf)
    BY <1>s, <2>1, KeptSets DEF Offered
  <2>3. ~Ranked(NoPack)
    BY DEF Ranked, NoPack
  <2>4. /\ Precedes(Written, Held \cup Queued) /\ Precedes(Held, Queued)
        /\ Precedes(Written \cup Held \cup Queued, Current)
        /\ Precedes(Written \cup Held \cup Queued \cup Current, Waiting \cup {NoPack})
        /\ Precedes(Waiting, {NoPack})
        /\ \A y \in Written \cup Held \cup Queued \cup Current \cup Waiting \cup {NoPack} :
              Ranked(y) => y.id <= packs
    BY <2>3 DEF OrderInv, Precedes
  <2>5. QED
    BY <2>2, <2>4 DEF OrderInv
<1>3. CASE Offer
  <2> DEFINE x == reader.pack
  <2>1. /\ reader.at = "offer" /\ reader'.at # "offer" /\ x \in Pack
        /\ readChan' = [readChan EXCEPT !.buf = Append(readChan.buf, x)]
        /\ UNCHANGED <<run, writer, writeChan, wire, packs>>
    BY <1>t, <1>3 DEF Offer, Readers
  <2>2. Offered = {x} /\ Offered' = {}
    BY <2>1 DEF Offered
  <2> HIDE DEF x
  <2>3. Sorted(readChan'.buf) /\ Waiting' = Waiting \cup {x}
    <3>1. \A y \in Elems(readChan.buf) : Ranked(y) /\ Ranked(x) => Rank(y) < Rank(x)
      BY <2>2 DEF OrderInv, Precedes, Waiting
    <3>2. /\ Append(readChan.buf, x) \in Seq(Pack)
          /\ Sorted(Append(readChan.buf, x))
          /\ Elems(Append(readChan.buf, x)) = Elems(readChan.buf) \cup {x}
      <4>1. readChan.buf \in Seq(Pack) /\ x \in Pack
        BY <1>t, <2>1
      <4>2. QED
        BY <1>s, <3>1, <4>1, QueueAppend
    <3>3. readChan'.buf = Append(readChan.buf, x)
      BY <1>t, <2>1
    <3>4. QED
      BY <3>2, <3>3 DEF Waiting
  <2>4. /\ Written' = Written /\ Held' = Held /\ Queued' = Queued /\ Current' = Current
        /\ Sorted(wire') /\ Sorted(writeChan'.buf) /\ packs' = packs
    BY <1>s, <2>1, KeptSets
  <2>5. /\ Precedes(Written, Held \cup Queued) /\ Precedes(Held, Queued)
        /\ Precedes(Written \cup Held \cup Queued, Current)
        /\ Precedes(Written \cup Held \cup Queued \cup Current, (Waiting \cup {x}) \cup {})
        /\ Precedes(Waiting \cup {x}, {})
        /\ \A y \in Written \cup Held \cup Queued \cup Current \cup (Waiting \cup {x}) \cup {} :
              Ranked(y) => y.id <= packs
    BY <2>2 DEF OrderInv, Precedes
  <2>6. QED
    BY <2>2, <2>3, <2>4, <2>5 DEF OrderInv
<1>4. CASE TakeItem
  <2> DEFINE x == Head(writeChan.buf)
  <2>1. /\ writer.at = "select" /\ writer' = [at |-> "write", item |-> x]
        /\ writeChan.buf # <<>> /\ writeChan.buf \in Seq(Item \cup Push)
        /\ writeChan' = [writeChan EXCEPT !.buf = Tail(writeChan.buf)]
        /\ UNCHANGED <<run, reader, readChan, wire, packs>>
    BY <1>t, <1>4 DEF TakeItem
  <2>2. Held = {} /\ Held' = {x}
    BY <2>1 DEF Held
  <2>3. /\ x \in Queued /\ Queued' \subseteq Queued /\ Precedes({x}, Queued')
        /\ Sorted(writeChan'.buf)
    <3>1. /\ x \in Elems(writeChan.buf)
          /\ Elems(Tail(writeChan.buf)) \subseteq Elems(writeChan.buf)
          /\ Sorted(Tail(writeChan.buf)) /\ Precedes({x}, Elems(Tail(writeChan.buf)))
      BY <1>s, <2>1, QueueTail
    <3>2. writeChan'.buf = Tail(writeChan.buf)
      BY <1>t, <2>1
    <3>3. QED
      BY <3>1, <3>2 DEF Queued
  <2> HIDE DEF x
  <2>4. /\ Written' = Written /\ Current' = Current /\ Waiting' = Waiting
        /\ Offered' = Offered /\ Sorted(wire') /\ Sorted(readChan'.buf) /\ packs' = packs
    BY <1>s, <2>1, KeptSets
  <2>5. /\ Precedes(Written, {x} \cup Queued')
        /\ Precedes(Written \cup {x} \cup Queued', Current)
        /\ Precedes(Written \cup {x} \cup Queued' \cup Current, Waiting \cup Offered)
        /\ Precedes(Waiting, Offered)
        /\ \A y \in Written \cup {x} \cup Queued' \cup Current \cup Waiting \cup Offered :
              Ranked(y) => y.id <= packs
    BY <2>3 DEF OrderInv, Precedes
  <2>6. QED
    BY <2>2, <2>3, <2>4, <2>5 DEF OrderInv
<1>5. CASE Write
  <2> DEFINE x == writer.item
  <2>1. /\ writer.at = "write" /\ writer'.at = "select" /\ x \in Item \cup Push
        /\ wire' = Append(wire, x)
        /\ UNCHANGED <<run, reader, readChan, writeChan, packs>>
    BY <1>t, <1>5 DEF Write, Resting, queueVars, Writers
  <2>2. Held = {x} /\ Held' = {}
    BY <2>1 DEF Held
  <2> HIDE DEF x
  <2>3. Sorted(wire') /\ Written' = Written \cup {x}
    <3>1. \A y \in Elems(wire) : Ranked(y) /\ Ranked(x) => Rank(y) < Rank(x)
      BY <2>2 DEF OrderInv, Precedes, Written
    <3>2. x \in {ConnAckPack} \cup Item \cup Push
      BY <2>1
    <3>3. /\ Sorted(Append(wire, x))
          /\ Elems(Append(wire, x)) = Elems(wire) \cup {x}
      BY <1>t, <1>s, <3>1, <3>2, QueueAppend
    <3>4. QED
      BY <2>1, <3>3 DEF Written
  <2>4. /\ Queued' = Queued /\ Current' = Current /\ Waiting' = Waiting
        /\ Offered' = Offered /\ Sorted(writeChan'.buf) /\ Sorted(readChan'.buf)
        /\ packs' = packs
    BY <1>s, <2>1, KeptSets
  <2>5. /\ Precedes(Written \cup {x}, {} \cup Queued) /\ Precedes({}, Queued)
        /\ Precedes((Written \cup {x}) \cup {} \cup Queued, Current)
        /\ Precedes((Written \cup {x}) \cup {} \cup Queued \cup Current, Waiting \cup Offered)
        /\ Precedes(Waiting, Offered)
        /\ \A y \in (Written \cup {x}) \cup {} \cup Queued \cup Current \cup Waiting
                       \cup Offered : Ranked(y) => y.id <= packs
    BY <2>2 DEF OrderInv, Precedes
  <2>6. QED
    BY <2>2, <2>3, <2>4, <2>5 DEF OrderInv
<1>6. ASSUME NEW p \in Pushers, PushSend(p) PROVE OrderInv'
  <2> DEFINE x == [kind |-> "push", id |-> p]
  <2>1. /\ writeChan' = [writeChan EXCEPT !.buf = Append(writeChan.buf, x)]
        /\ UNCHANGED <<run, reader, writer, readChan, wire, packs>>
    BY <1>6 DEF PushSend
  <2>2. x \in Item \cup Push /\ ~Ranked(x)
    BY DEF Push, Ranked
  <2> HIDE DEF x
  <2>3. Sorted(writeChan'.buf) /\ Queued' = Queued \cup {x}
    <3>1. /\ Sorted(Append(writeChan.buf, x))
          /\ Elems(Append(writeChan.buf, x)) = Elems(writeChan.buf) \cup {x}
          /\ Append(writeChan.buf, x) \in Seq(Item \cup Push)
      <4>1. writeChan.buf \in Seq(Item \cup Push)
        BY <1>t
      <4>2. QED
        BY <1>s, <2>2, <4>1, QueueAppend
    <3>2. writeChan'.buf = Append(writeChan.buf, x)
      BY <1>t, <2>1
    <3>3. QED
      BY <3>1, <3>2 DEF Queued
  <2>4. /\ Written' = Written /\ Held' = Held /\ Current' = Current /\ Waiting' = Waiting
        /\ Offered' = Offered /\ Sorted(wire') /\ Sorted(readChan'.buf) /\ packs' = packs
    BY <1>s, <2>1, KeptSets
  <2>5. /\ Precedes(Written, Held \cup (Queued \cup {x})) /\ Precedes(Held, Queued \cup {x})
        /\ Precedes(Written \cup Held \cup (Queued \cup {x}), Current)
        /\ Precedes(Written \cup Held \cup (Queued \cup {x}) \cup Current, Waiting \cup Offered)
        /\ Precedes(Waiting, Offered)
        /\ \A y \in Written \cup Held \cup (Queued \cup {x}) \cup Current \cup Waiting
                       \cup Offered : Ranked(y) => y.id <= packs
    BY <2>2 DEF OrderInv, Precedes
  <2>6. QED
    BY <2>3, <2>4, <2>5 DEF OrderInv
<1>7. ASSUME UNCHANGED <<run, wire, packs>>,
             readChan'.buf = readChan.buf, writeChan'.buf = writeChan.buf,
             Held' \subseteq Held, Offered' \subseteq Offered
      PROVE  OrderInv'
  <2>1. /\ Written' = Written /\ Queued' = Queued /\ Current' = Current
        /\ Waiting' = Waiting /\ packs' = packs
        /\ Sorted(wire') /\ Sorted(writeChan'.buf) /\ Sorted(readChan'.buf)
    BY <1>s, <1>7, KeptSets
  <2>2. QED
    BY <1>7, <2>1, OrderShrinks
<1>8. CASE TakeNotice \/ CloseWriteChan \/ CloseReadChan
  <2>1. /\ UNCHANGED <<run, wire, packs, writer>>
        /\ readChan'.buf = readChan.buf /\ writeChan'.buf = writeChan.buf
    BY <1>t, <1>8 DEF TakeNotice, CloseWriteChan, CloseReadChan
  <2>2. reader'.at # "offer"
    BY <1>t, <1>8 DEF TakeNotice, CloseWriteChan, CloseReadChan, Readers
  <2>3. Held' = Held /\ Offered' = {}
    BY <2>1, <2>2, KeptSets DEF Offered
  <2>4. QED
    BY <1>7, <2>1, <2>3
<1>9. CASE WriteFails \/ Notify
  <2>1. /\ UNCHANGED <<run, wire, packs, reader, readChan, writeChan>>
        /\ writer'.at # "write"
    BY <1>9 DEF WriteFails, Notify, Resting
  <2>2. Held' = {} /\ Offered' = Offered
    BY <2>1, KeptSets DEF Held
  <2>3. QED
    BY <1>7, <2>1, <2>2
<1>10. CASE \/ CloseConn
            \/ \E p \in Pushers : LookUp(p) \/ WriteMsg(p) \/ PushCheck(p) \/ PushPanics(p)
            \/ UNCHANGED vars
  <2>1. UNCHANGED <<run, reader, writer, readChan, writeChan, wire, packs>>
    BY <1>10 DEF CloseConn, LookUp, WriteMsg, PushCheck, PushPanics, queueVars, vars
  <2>2. Held' = Held /\ Offered' = Offered
    BY <2>1, KeptSets
  <2>3. QED
    BY <1>7, <2>1, <2>2
<1>11. QED
  BY <1>1, <1>2, <1>3, <1>4, <1>5, <1>6, <1>8, <1>9, <1>10
     DEF ReaderNext, WriterNext, PusherNext

LEMMA StepOrder == TypeInv /\ StartInv /\ OrderInv /\ [Next]_vars => OrderInv'
BY StepRunOrder, StepOtherOrder DEF Next

-----------------------------------------------------------------------------
(* The results.                                                            *)

\* In every reachable state the goroutines were started with the CONNACK, what closes
\* the queue comes after a failed write, and everything between the peer's packet and
\* the wire stands in the order of the packets.
THEOREM InvariantHolds == Spec => []IInv
<1>1. IInv /\ [Next]_vars => IInv'
  BY StepType, StepStart, StepFail, StepOrder DEF IInv
<1>2. QED
  BY InitIInv, <1>1, PTL DEF Spec

\* For any number of packets and any capacities: the goroutines are where mqtt_agent.go,
\* mqtt_client_server.go and pack_queue.go put them, and no more is in the queues than
\* they hold.
THEOREM TypeCorrect == Spec => []TypeOK
<1>1. IInv => TypeOK
  BY DEF IInv, TypeInv
<1>2. QED
  BY InvariantHolds, <1>1, PTL

\* Run writes the CONNACK past the queue, while RPC functions may already push: it is
\* the first packet on the wire all the same, since Listen_loop starts writeLoop after it.
THEOREM ConnAckComesFirst == Spec => []ConnAckFirst
<1>1. IInv => ConnAckFirst
  BY DEF IInv, StartInv, ConnAckFirst
<1>2. QED
  BY InvariantHolds, <1>1, PTL

\* However readChan, Listen_loop, OnRecover, writeChan and writeLoop interleave with the
\* pushes, the answers reach the wire in the order of the packets, and the acknowledgement
\* of a packet comes before the result of its call.
THEOREM AnswersKeepOrder == Spec => []AnswersInOrder
<1>1. ASSUME IInv PROVE AnswersInOrder
  <2> SUFFICES ASSUME NEW i \in 1..Len(wire), NEW j \in 1..Len(wire), i < j,
                      wire[i].kind # "push", wire[j].kind # "push"
               PROVE  \/ wire[i].id < wire[j].id
                      \/ /\ wire[i].id = wire[j].id
                         /\ wire[i].kind = "ack" /\ wire[j].kind = "reply"
      BY DEF AnswersInOrder
  <2>1. TypeInv /\ Sorted(wire)
    BY <1>1 DEF IInv, OrderInv
  <2>2. wire[i] \in {ConnAckPack} \cup Item /\ wire[j] \in {ConnAckPack} \cup Item
    <3>1. wire[i] \in Written /\ wire[j] \in Written
      BY DEF Written, Elems
    <3>2. \A x \in Push : x.kind = "push"
      BY DEF Push
    <3>3. QED
      BY <2>1, <3>1, <3>2, SetTypes
  <2>3. Rank(wire[i]) < Rank(wire[j])
    BY <2>1, <2>2 DEF Sorted, Ranked, ConnAckPack, Item
  <2>4. ASSUME NEW x \in {ConnAckPack} \cup Item
        PROVE  /\ x.id \in Nat
               /\ \/ x.kind = "connack" /\ x.id = 0 /\ Rank(x) = 0
                  \/ x.kind = "ack" /\ x.id # 0 /\ Rank(x) = 2 * x.id
                  \/ x.kind = "reply" /\ x.id # 0 /\ Rank(x) = 2 * x.id + 1
    <3>1. CASE x = ConnAckPack
      BY <3>1 DEF ConnAckPack, Rank
    <3>2. CASE x \in Item
      <4>1. x.id \in Nat /\ x.id # 0 /\ x.kind \in {"ack", "reply"}
        BY <3>2, MqttAgentAssumption DEF Item
      <4>2. QED
        BY <4>1 DEF Rank
    <3>3. QED
      BY <3>1, <3>2
  <2>5. ASSUME NEW x \in {ConnAckPack} \cup Item, NEW y \in {ConnAckPack} \cup Item,
               Rank(x) < Rank(y)
        PROVE  x.id < y.id \/ (x.id = y.id /\ x.kind = "ack" /\ y.kind = "reply")
    BY <2>4, <2>5
  <2>6. QED
    BY <2>2, <2>3, <2>5
<1>2. QED
  BY InvariantHolds, <1>1, PTL

\* However a session ends, its queue is closed under the goroutines that push only after
\* writeLoop has given up: the notice of the failed write is the reading goroutine's only
\* way to PackQueue.Close.
THEOREM ClosedOnlyWhenWriteFailed == Spec => []ClosedOnlyByFailure
<1>1. IInv => ClosedOnlyByFailure
  BY DEF IInv, FailInv, ClosedOnlyByFailure
<1>2. QED
  BY InvariantHolds, <1>1, PTL
=============================================================================
