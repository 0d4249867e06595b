------------------------------ MODULE MqttCodec ------------------------------
(***************************************************************************)
(* gate/base/mqtt/mqtt.go: packs written by WritePack and read back by     *)
(* ReadPack, byte for byte.  A string or a payload is a sequence of bytes. *)
(* The digit of a remaining length has Base values (128 in the code), so   *)
(* that packs with one, two, three and four length bytes stay short.       *)
(***************************************************************************)
EXTENDS Integers, Sequences, SequencesExt

CONSTANTS
    Base,       \* values of a digit of a remaining length
    GatePacks,  \* packs that WritePack is asked to write
    PeerPacks,  \* packs that an MQTT client's own library writes
    MaxPacks    \* bound: packs written in a behaviour

VARIABLES
    sent,       \* every pack written, in order
    buf,        \* bufio.Writer: written and not yet flushed
    wire,       \* bytes on their way to the reader
    received,   \* every pack ReadPack returned without an error
    failed      \* ReadPack returned an error: the agent's loop ends

codecVars == <<sent, buf, wire, received, failed>>

CONNECT == 1
CONNACK == 2
PUBLISH == 3
PUBACK == 4
PUBREC == 5
PUBREL == 6
PUBCOMP == 7
SUBSCRIBE == 8
SUBACK == 9
UNSUBSCRIBE == 10
UNSUBACK == 11
PINGREQ == 12
PINGRESP == 13
DISCONNECT == 14

Acks == {PUBACK, PUBREC, PUBREL, PUBCOMP, UNSUBACK}

-----------------------------------------------------------------------------
\* The packs the gate builds.
GetConnAckPack(code) == [type |-> CONNACK, dup |-> 0, qos |-> 0, code |-> code]
GetPubPack(qos, dup, mid, topic, msg) ==
    [type |-> PUBLISH, dup |-> dup, qos |-> qos, mid |-> mid, topic |-> topic, msg |-> msg]
GetAckPack(type, mid) ==
    [type |-> type, dup |-> 0, qos |-> IF type = PUBREL THEN 1 ELSE 0, mid |-> mid]
GetSubAckPack(mid) == [type |-> SUBACK, dup |-> 0, qos |-> 0, mid |-> mid, granted |-> 0]
GetPingResp(qos, dup) == [type |-> PINGRESP, dup |-> dup, qos |-> qos]
TopicsPack(type, mid, topics) ==
    [type |-> type, dup |-> 0, qos |-> 1, mid |-> mid, topics |-> topics]

\* What the two ends are given to write: a string tells its length in two bytes, and a
\* CONNECT has the strings that its flags announce. A filter of an UNSUBSCRIBE has no level.
Bytes == {i \in Nat : i < 256}
Word == {i \in Nat : i < 256 * 256}
Text == {s \in Seq(Bytes) : Len(s) \in Word}
Dups == {0, 1}
Levels == 0 .. 3
TopicsPacks ==
    [type : {SUBSCRIBE}, dup : Dups, qos : Levels, mid : Word,
     topics : Seq([name : Text, qos : Bytes])]
    \cup [type : {UNSUBSCRIBE}, dup : Dups, qos : Levels, mid : Word,
          topics : Seq([name : Text, qos : {0}])]
WritablePacks ==
    [type : {CONNACK}, dup : Dups, qos : Levels, code : Bytes]
    \cup [type : {PUBLISH}, dup : Dups, qos : Levels, mid : Word, topic : Text, msg : Seq(Bytes)]
    \cup [type : Acks, dup : Dups, qos : Levels, mid : Word]
    \cup [type : {SUBACK}, dup : Dups, qos : Levels, mid : Word, granted : Bytes]
    \cup [type : {PINGRESP}, dup : Dups, qos : Levels]
    \cup TopicsPacks
ClientPacks ==
    {p \in [type : {CONNECT}, dup : Dups, qos : Levels, protocol : Text, version : Bytes,
            flags : [user : {0, 1}, password : {0, 1}, will : {0, 1}, clean : {0, 1}],
            keepAlive : Word, payload : Seq(Text)] :
        Len(p.payload) = 1 + 2 * p.flags.will + p.flags.user + p.flags.password}
    \cup [type : {PINGREQ, DISCONNECT}, dup : Dups, qos : Levels]
    \cup TopicsPacks

-----------------------------------------------------------------------------
\* Writing. uint16, big endian.
writeInt(i) == <<(i \div 256) % 256, i % 256>>
writeString(s) == writeInt(Len(s)) \o s
Fixed(p) == <<p.type * 16 + p.dup * 8 + p.qos * 2>>

\* The lowest digit first, each with the highest bit set if another one follows.
Digit(l) == (l % Base) + (IF l >= Base THEN Base ELSE 0)
getRemainingLength(l) ==
    LET second == l \div Base
        third == second \div Base
        fourth == third \div Base
        count == CASE second = 0 -> 1
                   [] second > 0 /\ third = 0 -> 2
                   [] third > 0 /\ fourth = 0 -> 3
                   [] fourth > 0 -> 4
    IN  SubSeq(<<Digit(l), Digit(second), Digit(third), Digit(fourth)>>, 1, count)

\* A mutated form: the id is not counted.
PublishLengthWithoutId(p) == 2 + Len(p.topic) + Len(p.msg)

PublishLength(p) == (IF p.qos > 0 THEN 4 ELSE 2) + Len(p.topic) + Len(p.msg)
WritePublish(p) ==
    getRemainingLength(PublishLength(p)) \o writeString(p.topic)
        \o (IF p.qos > 0 THEN writeInt(p.mid) ELSE <<>>) \o p.msg

\* A filter of a SUBSCRIBE carries a level of service, one of an UNSUBSCRIBE does not.
writeTopics(p) ==
    FlattenSeq([k \in 1 .. Len(p.topics) |->
        writeString(p.topics[k].name)
            \o (IF p.type = SUBSCRIBE THEN <<p.topics[k].qos>> ELSE <<>>)])
\* The length leaves out the two bytes of the id, and of its own bytes only the first is
\* written.
WriteSubscribe(p) ==
    <<getRemainingLength(Len(writeTopics(p)))[1]>> \o writeInt(p.mid) \o writeTopics(p)

DelayWritePack(p) ==
    Fixed(p) \o
    CASE p.type = CONNACK -> <<2, 0, p.code>>
      [] p.type = PUBLISH -> WritePublish(p)
      [] p.type \in Acks -> <<2>> \o writeInt(p.mid)
      [] p.type \in {SUBSCRIBE, UNSUBSCRIBE} -> WriteSubscribe(p)
      [] p.type = SUBACK -> <<3>> \o writeInt(p.mid) \o <<p.granted>>
      [] p.type = PINGRESP -> <<0>>

\* What the library of an MQTT client writes.
FlagsByte(f) == 128 * f.user + 64 * f.password + 4 * f.will + 2 * f.clean
PeerBody(p) ==
    CASE p.type = CONNECT ->
            writeString(p.protocol) \o <<p.version, FlagsByte(p.flags)>> \o writeInt(p.keepAlive)
                \o FlattenSeq([k \in 1 .. Len(p.payload) |-> writeString(p.payload[k])])
      [] p.type \in {SUBSCRIBE, UNSUBSCRIBE} -> writeInt(p.mid) \o writeTopics(p)
      [] p.type \in {PINGREQ, DISCONNECT} -> <<>>
PeerWrites(p) == Fixed(p) \o getRemainingLength(Len(PeerBody(p))) \o PeerBody(p)

-----------------------------------------------------------------------------
\* Reading at position i of the bytes b: those not there yet count as 0, and the pack is
\* taken only once all its bytes are there.
Byte(b, i) == IF i <= Len(b) THEN b[i] ELSE 0
readInt(b, i) == 256 * Byte(b, i) + Byte(b, i + 1)
readFull(b, i, n) == [k \in 1 .. n |-> Byte(b, i + k - 1)]
readString(b, i) == readFull(b, i + 2, readInt(b, i))

\* At most three bytes of the length are read.
LengthBytes(b) ==
    CASE Byte(b, 2) < Base -> 1
      [] Byte(b, 2) >= Base /\ Byte(b, 3) < Base -> 2
      [] Byte(b, 2) >= Base /\ Byte(b, 3) >= Base -> 3
Length(b) ==
    LET digit(k) == IF k <= LengthBytes(b) THEN Byte(b, k + 1) % Base ELSE 0
    IN  digit(1) + Base * (digit(2) + Base * digit(3))

parse_flags(x) == [user |-> x \div 128, password |-> (x \div 64) % 2,
                   will |-> (x \div 4) % 2, clean |-> (x \div 2) % 2]

FixedOf(b) == [type |-> b[1] \div 16, dup |-> (b[1] % 16) \div 8, qos |-> (b[1] % 8) \div 2]
Read(pack, next) == [ok |-> TRUE, pack |-> pack, next |-> next]
Error(next) == [ok |-> FALSE, next |-> next]

\* The next string of a payload; left counts the payload's bytes, from which the lengths
\* of the strings are never taken.
ReadIf(wanted, b, r) ==
    IF ~wanted THEN r
    ELSE [left |-> r.left - readInt(b, r.next), next |-> r.next + 2 + readInt(b, r.next),
          strings |-> Append(r.strings, readString(b, r.next))]

\* After the id come the will's topic and message, the user and the password, as the flags
\* say.
ReadConnect(b, first) ==
    LET n == readInt(b, first)
        at == first + 2 + n
        flags == parse_flags(Byte(b, at + 1))
        id == readInt(b, at + 4)
        start == [left |-> Length(b) - 6 - n - id, next |-> at + 6 + id,
                  strings |-> <<readString(b, at + 4)>>]
        topic == ReadIf(flags.will = 1, b, start)
        will == ReadIf(flags.will = 1, b, topic)
        user == ReadIf(flags.user = 1 /\ will.left > 0, b, will)
        all == ReadIf(flags.password = 1 /\ user.left > 0, b, user)
        tooLong == \/ topic # start /\ topic.left < 0
                   \/ user # will /\ user.left < 0
                   \/ all # user /\ all.left < 0
    IN  IF n > Length(b) - 4 \/ id > 23 \/ id < 1 THEN Error(at + 6)
        ELSE IF tooLong THEN Error(all.next)
        ELSE Read([protocol |-> readString(b, first), version |-> Byte(b, at), flags |-> flags,
                   keepAlive |-> readInt(b, at + 2), payload |-> all.strings],
                  all.next)

ReadPublish(b, first) ==
    LET n == readInt(b, first)
        vlen == Length(b) - n - 2
        qos == FixedOf(b).qos
        body == first + 2 + n + (IF qos > 0 THEN 2 ELSE 0)
        end == first + 2 + n + vlen
    IN  IF n < 1 \/ vlen < 2 THEN Error(first + 2 + n)
        ELSE Read([mid |-> IF qos > 0 THEN readInt(b, first + 2 + n) ELSE 0,
                   topic |-> readString(b, first), msg |-> readFull(b, body, end - body)],
                  end)

ReadAck(b, first) ==
    IF Length(b) = 2 THEN Read([mid |-> readInt(b, first)], first + 2) ELSE Error(first)

ReadSubAck(b, first) ==
    IF Length(b) = 3 THEN Read([mid |-> readInt(b, first), granted |-> Byte(b, first + 2)], first + 3)
    ELSE Error(first)

\* The length of the payload is counted from after the id but starts as that of the pack;
\* a filter is read while more than three bytes are left of it.
ReadTopic(b, first, r) ==
    LET end == r.next + 2 + readInt(b, r.next)
        withQos == FixedOf(b).type = SUBSCRIBE
    IN  IF Length(b) - (r.next - first - 2) <= 3 THEN r
        ELSE [topics |-> Append(r.topics, [name |-> readString(b, r.next),
                                           qos |-> IF withQos THEN Byte(b, end) ELSE 0]),
              next |-> IF withQos THEN end + 1 ELSE end]
ReadSubscribe(b, first) ==
    LET read[k \in 0 .. Length(b)] ==
            IF k = 0 THEN [topics |-> <<>>, next |-> first + 2] ELSE ReadTopic(b, first, read[k - 1])
        all == read[Length(b)]
    IN  Read([mid |-> readInt(b, first), topics |-> all.topics], all.next)

\* The body of a PINGREQ or DISCONNECT is left on the wire, that of any other type skipped.
ReadBody(b, first) ==
    LET type == FixedOf(b).type
    IN  CASE type = CONNECT -> ReadConnect(b, first)
          [] type = PUBLISH -> ReadPublish(b, first)
          [] type \in Acks -> ReadAck(b, first)
          [] type = SUBACK -> ReadSubAck(b, first)
          [] type \in {SUBSCRIBE, UNSUBSCRIBE} -> ReadSubscribe(b, first)
          [] type \in {PINGREQ, DISCONNECT} -> Read(<<>>, first)
          [] OTHER -> Read(<<>>, first + Length(b))

-----------------------------------------------------------------------------
Init == sent = <<>> /\ buf = <<>> /\ wire = <<>> /\ received = <<>> /\ failed = FALSE

Delay(p) ==
    /\ Len(sent) < MaxPacks
    /\ sent' = Append(sent, p)
    /\ buf' = buf \o DelayWritePack(p)
    /\ UNCHANGED <<wire, received, failed>>

Flush ==
    /\ buf # <<>>
    /\ wire' = wire \o buf /\ buf' = <<>>
    /\ UNCHANGED <<sent, received, failed>>

WritePack(p) ==
    /\ Len(sent) < MaxPacks
    /\ sent' = Append(sent, p)
    /\ wire' = wire \o buf \o DelayWritePack(p) /\ buf' = <<>>
    /\ UNCHANGED <<received, failed>>

\* A client's library writes to the other end of a connection the gate has not written to.
PeerSends(p) ==
    /\ Len(sent) < MaxPacks /\ buf = <<>>
    /\ sent' = Append(sent, p)
    /\ wire' = wire \o PeerWrites(p)
    /\ UNCHANGED <<buf, received, failed>>

ReadPack ==
    /\ ~failed /\ Len(wire) >= 2 /\ Len(wire) > LengthBytes(wire)
    /\ LET r == ReadBody(wire, LengthBytes(wire) + 2)
       IN  /\ r.next <= Len(wire) + 1
           /\ wire' = SubSeq(wire, r.next, Len(wire))
           /\ IF r.ok
              THEN received' = Append(received, <<FixedOf(wire), r.pack>>) /\ UNCHANGED failed
              ELSE failed' = TRUE /\ UNCHANGED received
    /\ UNCHANGED <<sent, buf>>

Next ==
    \/ \E p \in GatePacks : Delay(p) \/ WritePack(p)
    \/ \E p \in PeerPacks : PeerSends(p)
    \/ Flush
    \/ ReadPack

-----------------------------------------------------------------------------
\* The packs that cross unharmed: not longer than three length bytes tell, a published
\* message of at least two bytes counting its id and without an id if that is not written,
\* a CONNECT with an id of at most 23 bytes, and a filter of a pack that WritePack wrote of
\* more than three bytes, all of them within one length byte.
MaxLength == Base * Base * Base - 1
Crosses(p) ==
    /\ p.type = PUBLISH => /\ PublishLength(p) <= MaxLength /\ Len(p.topic) > 0
                           /\ p.qos = 0 => Len(p.msg) >= 2 /\ p.mid = 0
    /\ p.type \in {SUBSCRIBE, UNSUBSCRIBE} /\ p \in GatePacks =>
           /\ Len(writeTopics(p)) < Base
           /\ \A k \in 1 .. Len(p.topics) :
                Len(p.topics[k].name) > IF p.type = SUBSCRIBE THEN 0 ELSE 1
    /\ p.type = CONNECT => Len(p.payload[1]) \in 1 .. 23
    /\ p \in PeerPacks => Len(PeerBody(p)) <= MaxLength

\* What ReadPack makes of a pack: nothing of one whose type it does not know.
Seen(p) ==
    [k \in {"mid", "topic", "msg", "topics", "granted", "protocol", "version", "flags",
            "keepAlive", "payload"} \cap DOMAIN p |-> p[k]]

\* Reader and writer stay in step whatever packs came before, in whatever pieces they were
\* flushed: as long as every pack is one that crosses, each is read once, as it was
\* written, with nothing left over and no error.
InSync ==
    (\A i \in 1 .. Len(sent) : Crosses(sent[i])) =>
        /\ ~failed
        /\ Len(received) <= Len(sent)
        /\ \A i \in 1 .. Len(received) :
             /\ \A k \in {"type", "dup", "qos"} : received[i][1][k] = sent[i][k]
             /\ DOMAIN received[i][2] = DOMAIN Seen(sent[i])
             /\ \A k \in DOMAIN Seen(sent[i]) : received[i][2][k] = sent[i][k]
        /\ (wire = <<>> /\ buf = <<>>) => Len(received) = Len(sent)
=============================================================================
