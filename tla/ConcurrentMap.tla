---------------------------- MODULE ConcurrentMap ----------------------------
(***************************************************************************)
(* utils/concurrent-map.go, the table of the Redis client's calls: a map   *)
(* in shards with a lock each, and the iteration over a copy of it that    *)
(* the client's timeout scan makes while calls come and go.                *)
(***************************************************************************)
EXTENDS Naturals, FiniteSets, Functions

CONSTANTS
    Keys,
    Vals,
    Shards,
    GetShard,   \* Keys -> Shards: the hash of the key
    MaxChanges  \* bound: changes of the map

VARIABLES
    items,      \* the map: a function on the keys that are in it
    rlocked,    \* shards that the iteration holds the read lock of
    iterating,  \* "no", "snapshot", "fanIn" or "ended"
    sized,      \* shard -> capacity of its channel, once made
    chans,      \* shard -> what its goroutine put into the channel, once done
    during,     \* shard -> every contents it had since the iteration began
    changes

mapVars == <<items, rlocked, iterating, sized, chans, during, changes>>

KeysOf(s) == {k \in Keys : GetShard[k] = s}
Contents(m, s) == Restrict(m, DOMAIN m \cap KeysOf(s))

Init ==
    /\ items \in UNION {[ks -> Vals] : ks \in SUBSET Keys}
    /\ rlocked = {} /\ iterating = "no"
    /\ sized = <<>> /\ chans = <<>>
    /\ during = [s \in Shards |-> {}]
    /\ changes = 0

-----------------------------------------------------------------------------
With(k, v) == [j \in DOMAIN items \cup {k} |-> IF j = k THEN v ELSE items[j]]
Without(k) == Restrict(items, DOMAIN items \ {k})

\* A change of one key under the lock of its shard.
Change(k, m) ==
    /\ changes < MaxChanges /\ changes' = changes + 1
    /\ GetShard[k] \notin rlocked
    /\ items' = m
    /\ during' = IF iterating \in {"snapshot", "fanIn"}
                 THEN [during EXCEPT ![GetShard[k]] = @ \cup {Contents(m, GetShard[k])}]
                 ELSE during
    /\ UNCHANGED <<rlocked, iterating, sized, chans>>

\* Set, and MSet for each of its keys.
Set(k, v) == Change(k, With(k, v))
SetIfAbsent(k, v) == Change(k, IF k \in DOMAIN items THEN items ELSE With(k, v))
\* The callback is given the value that is there and the new one, and picks one of them.
Upsert(k, v) ==
    \E res \in {v} \cup {items[j] : j \in DOMAIN items \cap {k}} : Change(k, With(k, res))
\* Remove and Pop.
Remove(k) == Change(k, Without(k))
RemoveCb(k) == \E remove \in BOOLEAN : Change(k, IF remove THEN Without(k) ELSE items)

-----------------------------------------------------------------------------
\* IterBuffered and Items: a goroutine for each shard sizes its channel, ...
IterBuffered ==
    /\ iterating = "no"
    /\ iterating' = "snapshot"
    /\ during' = [s \in Shards |-> {Contents(items, s)}]
    /\ UNCHANGED <<items, rlocked, sized, chans, changes>>

\* A mutated form: the lock is not held from the sizing to the filling.
SizeUnlocked(s) ==
    /\ iterating = "snapshot" /\ s \notin DOMAIN sized
    /\ sized' = [t \in DOMAIN sized \cup {s} |->
                    IF t = s THEN Cardinality(DOMAIN Contents(items, s)) ELSE sized[t]]
    /\ UNCHANGED <<items, rlocked, iterating, chans, during, changes>>

Size(s) ==
    /\ iterating = "snapshot" /\ s \notin DOMAIN sized
    /\ rlocked' = rlocked \cup {s}
    /\ sized' = [t \in DOMAIN sized \cup {s} |->
                    IF t = s THEN Cardinality(DOMAIN Contents(items, s)) ELSE sized[t]]
    /\ UNCHANGED <<items, iterating, chans, during, changes>>

\* ... fills it, which nobody waits for, and only then releases the lock.
Fill(s) ==
    /\ s \in DOMAIN sized \ DOMAIN chans
    /\ Cardinality(DOMAIN Contents(items, s)) <= sized[s]
    /\ chans' = [t \in DOMAIN chans \cup {s} |->
                    IF t = s THEN Contents(items, s) ELSE chans[t]]
    /\ rlocked' = rlocked \ {s}
    /\ UNCHANGED <<items, iterating, sized, during, changes>>

\* snapshot returns when all channels are made, and fanIn ends when all are closed.
Snapshot ==
    /\ iterating = "snapshot" /\ DOMAIN sized = Shards
    /\ iterating' = "fanIn"
    /\ UNCHANGED <<items, rlocked, sized, chans, during, changes>>

FanIn ==
    /\ iterating = "fanIn" /\ DOMAIN chans = Shards
    /\ iterating' = "ended"
    /\ UNCHANGED <<items, rlocked, sized, chans, during, changes>>

Next ==
    \/ \E k \in Keys :
         \/ \E v \in Vals : Set(k, v) \/ SetIfAbsent(k, v) \/ Upsert(k, v)
         \/ Remove(k) \/ RemoveCb(k)
    \/ IterBuffered \/ Snapshot \/ FanIn
    \/ \E s \in Shards : Size(s) \/ Fill(s)

-----------------------------------------------------------------------------
\* Of every shard an iteration yields what it held at one moment of the iteration, all of
\* it and nothing else, and no goroutine waits in vain for room in its channel.
ItemsSound ==
    /\ \A s \in DOMAIN chans : chans[s] \in during[s]
    /\ \A s \in DOMAIN sized \ DOMAIN chans :
            Cardinality(DOMAIN Contents(items, s)) <= sized[s]
=============================================================================
