------------------------------ MODULE MCLibrary ------------------------------
\* Packs with one to four length bytes of base 4, words of four values, a queue for one
\* message, files of one or two lines and two shards.
EXTENDS Library, Integers, Sequences, TLC

CONSTANTS l1, l2, o1, o2, w1, w2, k1, k2, k3, s1, s2, v1, v2

MCLoggers == {l1, l2}
MCOwners == {o1, o2}
MCWriters == {w1, w2}
Symmetry == UNION {Permutations(MCLoggers), Permutations(MCOwners), Permutations(MCWriters),
                   Permutations({v1, v2})}

\* The constructors of packs and of values.
Packs == INSTANCE MqttCodec WITH GatePacks <- {}, PeerPacks <- {}
Kinds == INSTANCE ArgsCodec WITH Args <- {}

Name(n) == [k \in 1 .. n |-> 40 + k]
Topics(m, n, qos) == [k \in 1 .. m |-> [name |-> Name(n), qos |-> qos * k]]
MCGatePacks ==
    {Packs!GetConnAckPack(0), Packs!GetSubAckPack(3), Packs!GetPingResp(0, 0),
     Packs!GetPubPack(0, 0, 0, Name(1), Name(1)), Packs!GetPubPack(0, 1, 0, Name(1), Name(12)),
     Packs!GetPubPack(1, 0, 258, Name(1), <<>>), Packs!GetPubPack(1, 0, 5, Name(2), Name(55)),
     Packs!GetPubPack(1, 0, 5, Name(2), Name(57))}
    \cup {Packs!GetAckPack(t, 259) : t \in Packs!Acks}
    \cup {Packs!TopicsPack(t, 7, Topics(1, n, 0)) :
            t \in {Packs!SUBSCRIBE, Packs!UNSUBSCRIBE}, n \in {1, 2, 5}}

Connect(user, will, size) ==
    [type |-> Packs!CONNECT, dup |-> 0, qos |-> 0, protocol |-> Name(4), version |-> 4,
     flags |-> [user |-> user, password |-> user, will |-> will, clean |-> 1],
     keepAlive |-> 300,
     payload |-> [k \in 1 .. 1 + 2 * user + 2 * will |-> Name(k * size)]]
MCPeerPacks ==
    {Connect(u, w, 1) : u, w \in {0, 1}} \cup {Connect(0, 1, 10)}
    \cup {[type |-> t, dup |-> 0, qos |-> 0] : t \in {Packs!PINGREQ, Packs!DISCONNECT}}
    \cup {Packs!TopicsPack(Packs!SUBSCRIBE, 7, Topics(m, n, 1)) : m \in {1, 2}, n \in {0, 1, 5}}
    \cup {Packs!TopicsPack(Packs!UNSUBSCRIBE, 7, Topics(m, n, 0)) : m \in {1, 2}, n \in {0, 1, 5}}

MCValues ==
    {Kinds!Value(k, <<1>>) : k \in {"string", "bytes", "bool", "float", "double", "mapstr",
                                     "session", "other"}}
    \cup {Kinds!Value("nil", <<>>), Kinds!Map(<<>>)}
    \cup {Kinds!Map(<<Kinds!Entry(k, <<1>>)>>) :
            k \in {"int", "string", "bytes", "other", "bool"}}
    \cup {Kinds!Value("int", <<i>>) : i \in {-8, -1, 0, 3, 4, 7}}
    \cup {Kinds!Value("int32", <<i>>) : i \in -2 .. 1}
    \cup {Kinds!Value("long", <<i>>) : i \in {-8, -1, 0, 4, 7}}
MCArgs == {<<x, y>> : x, y \in MCValues} \cup {<<>>}

MCKeys == {k1, k2, k3}
MCShards == {s1, s2}
MCGetShard == [k \in MCKeys |-> IF k = k3 THEN s2 ELSE s1]
=============================================================================
