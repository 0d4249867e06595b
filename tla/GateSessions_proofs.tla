-------------------------- MODULE GateSessions_proofs --------------------------
(***************************************************************************)
(* Proofs about GateSessions, for any sessions, modules, users, keys and   *)
(* values, and any bounds on the calls and on the failures of the storage: *)
(* its type invariant, that a Bind which has its session for itself loses  *)
(* none of the session's settings, and that the storage ends up with what  *)
(* the session holds.                                                      *)
(***************************************************************************)
EXTENDS GateSessions, TLAPS

Kinds == {"none", "Update", "Bind", "UnBind", "Push", "Set", "Remove", "Close"}

Places == {"idle", "sent", "found", "check", "query", "restore", "merge", "store", "read",
           "write", "answer"}

Maps == Settings \cup {None}

Args == {None} \cup Users \cup Keys \cup Maps \cup [key : Keys, value : Values]

Ops == [kind : Kinds, at : Places, s : Sessions \cup {None}, arg : Args,
        user : Users \cup {None}, image : Maps]

Copies == [s : Sessions, settings : Maps]

\* What a call carries, as far as the goroutine of the gate still uses it.
ArgInv(c) ==
    /\ op[c].at # "idle" => op[c].s \in Sessions /\ copy[c] \in Copies
    /\ op[c].at \in {"check", "query", "restore", "merge"} => op[c].kind = "Bind"
    /\ op[c].kind = "Bind" /\ op[c].at \in {"sent", "found", "check", "query"} =>
          op[c].arg \in Users
    /\ op[c].kind = "Push" \/ op[c].at \in {"restore", "merge"} => op[c].arg \in Maps
    /\ op[c].kind = "Set" => op[c].arg \in [key : Keys, value : Values]
    /\ op[c].kind = "Remove" => op[c].arg \in Keys

TypeInv ==
    /\ TypeOK
    /\ copy \in [Callers -> Copies \cup {None}]
    /\ op \in [Callers -> Ops]
    /\ own \in [Callers -> Maps]
    /\ binders \in [Users -> SUBSET Sessions]
    /\ \A c \in Callers : ArgInv(c)

\* The goroutine of the gate has found the session of this call in the table.
Served(c) == op[c].at \notin {"idle", "sent"}

\* A session has a user only after it was connected, and only one it was bound to; and a
\* call stores only for such a user.
UserInv ==
    /\ \A c \in Callers :
          /\ Served(c) => agent[op[c].s] # "none"
          /\ op[c].at \in {"check", "query"} => op[c].s \in binders[op[c].arg]
          /\ op[c].user # None => op[c].s \in binders[op[c].user]
    /\ \A s \in Sessions :
          /\ agent[s] = "none" => userid[s] = None
          /\ userid[s] # None => s \in binders[userid[s]]

\* A Bind shares its session with no other call, unless the session is marked.
AloneInv ==
    \A c, d \in Callers :
        Served(c) /\ Served(d) /\ c # d /\ op[c].s = op[d].s /\ op[c].kind = "Bind"
            => op[c].s \in raced

Keeps(m, n) == \A k \in Keys : m[k] # None => AsMap(n)[k] = m[k]

\* Where the settings that a Bind found are, from one of its steps to the next.
OwnAt(c) ==
    LET s == op[c].s
        at == op[c].at
    IN  Served(c) /\ op[c].kind = "Bind" /\ s \notin raced =>
            /\ at \in {"found", "check", "query", "restore"} => own[c] = AsMap(settings[s])
            /\ at = "restore" => settings[s] = None
            /\ at = "merge" => Keeps(own[c], op[c].arg)
            /\ at \in {"store", "read", "write", "answer"} => Keeps(own[c], settings[s])

OwnInv == \A c \in Callers : OwnAt(c)

\* A Bind works for the user the session has, and what it is about to restore is what
\* is stored for that user, if the user has no other session.  What any call is about to
\* store it stores for that user, as long as the session has one.
BindAt(c) ==
    LET s == op[c].s
        u == userid[s]
        at == op[c].at
    IN  s \notin raced =>
            /\ at \in {"check", "query"} => u = op[c].arg
            /\ op[c].kind = "Bind" /\ at \in {"restore", "merge", "store"} => u = op[c].user
            /\ at \in {"read", "write"} /\ u # None => u = op[c].user
            /\ at = "restore" /\ u # None /\ binders[u] = {s} => store[u] = op[c].arg

BindInv == \A c \in Callers : BindAt(c)

Writing(c) == op[c].at = "write"

\* Of two calls whose reading of a session is yet to be written, one read before the other.
OrderInv ==
    /\ late \subseteq {c \in Callers : Writing(c)}
    /\ \A c \in Callers : older[c] \subseteq {d \in Callers \ {c} : Writing(d)}
    /\ \A c, d \in Callers :
          Writing(c) /\ Writing(d) /\ c # d => c \in older[d] \/ d \in older[c]

\* A call on the session is still to read what it stores, or to decide whether it has to.
Todo(s) ==
    \E c \in Callers :
        /\ op[c].s = s
        /\ op[c].at \in {"check", "query", "restore", "merge", "store", "read"}

Current(c) == Decoded(op[c].image) = Decoded(AsMap(settings[op[c].s]))

\* The call that read the session last is about to write what the session holds.
Newest(s, c) ==
    /\ op[c].s = s /\ Writing(c) /\ Current(c) /\ c \notin late
    /\ \A d \in Callers : op[d].s = s /\ Writing(d) => c \notin older[d]

Stored(s) == store[userid[s]] \in {Absent, Decoded(AsMap(settings[s]))}

\* The storage holds what the session holds, or an older state was written last; and only
\* an older state of the session can still be written over it.
Settled(s) ==
    /\ userid[s] \in overtaken \/ Stored(s)
    /\ \A d \in Callers : op[d].s = s /\ Writing(d) => d \in late \/ Current(d)

Kept(s) == Todo(s) \/ (\E c \in Callers : Newest(s, c)) \/ Settled(s)

StoreInv ==
    \A s \in Sessions \ raced :
        userid[s] # None /\ binders[userid[s]] = {s} /\ failures = 0 => Kept(s)

IInv ==
    /\ TypeInv
    /\ UserInv
    /\ AloneInv
    /\ OwnInv
    /\ BindInv
    /\ OrderInv
    /\ StoreInv

-----------------------------------------------------------------------------
(* Lemmas about settings and about the record of a call.                   *)

LEMMA MapTypes ==
    /\ Empty \in Settings
    /\ \A m \in Maps : AsMap(m) \in Settings
    /\ \A m \in Maps : Decoded(m) \in {None} \cup (Settings \ {Empty})
    /\ \A m, n \in Maps : Merged(m, n) \in Settings
    /\ \A m \in Maps, k \in Keys, v \in Values \cup {None} :
          [AsMap(m) EXCEPT ![k] = v] \in Settings
<1>1. Empty \in Settings
  BY DEF Empty, Settings
<1>2. \A m \in Maps : AsMap(m) \in Settings
  BY <1>1 DEF AsMap, Maps
<1>3. \A m \in Maps : Decoded(m) \in {None} \cup (Settings \ {Empty})
  BY DEF Decoded, Maps
<1>4. \A m, n \in Maps : Merged(m, n) \in Settings
  <2> SUFFICES ASSUME NEW m \in Maps, NEW n \in Maps PROVE Merged(m, n) \in Settings
      OBVIOUS
  <2>1. AsMap(m) \in [Keys -> Values \cup {None}] /\ AsMap(n) \in [Keys -> Values \cup {None}]
    BY <1>2 DEF Settings
  <2>2. QED
    BY <2>1 DEF Merged, Settings
<1>5. \A m \in Maps, k \in Keys, v \in Values \cup {None} :
          [AsMap(m) EXCEPT ![k] = v] \in Settings
  BY <1>2 DEF Settings
<1>6. QED
  BY <1>1, <1>2, <1>3, <1>4, <1>5

\* Storing settings and reading them again gives the same map.
LEMMA RestoredIsStored ==
    ASSUME NEW m \in {None} \cup (Settings \ {Empty})
    PROVE  m = Decoded(AsMap(m))
BY GateSessionsAssumption DEF AsMap, Decoded

LEMMA SessionDecoded ==
    ASSUME NEW m \in Maps
    PROVE  Decoded(m) = Decoded(AsMap(m))
BY GateSessionsAssumption, MapTypes DEF AsMap, Decoded, Maps

\* A step of a call moves it on and leaves the other calls alone.
LEMMA GotoStep ==
    ASSUME TypeInv, NEW c \in Callers, NEW at \in Places, Goto(c, at)
    PROVE  /\ op' \in [Callers -> Ops]
           /\ op'[c].at = at /\ op'[c].s = op[c].s
           /\ op'[c].kind = op[c].kind /\ op'[c].arg = op[c].arg
           /\ op'[c].user = op[c].user /\ op'[c].image = op[c].image
           /\ \A d \in Callers \ {c} : op'[d] = op[d]
<1>1. op \in [Callers -> Ops] /\ op[c] \in Ops
  BY DEF TypeInv
<1>2. op' = [op EXCEPT ![c] = [op[c] EXCEPT !.at = at]]
  BY DEF Goto
<1>3. [op[c] EXCEPT !.at = at] \in Ops
  BY <1>1 DEF Ops
<1>4. QED
  BY <1>1, <1>2, <1>3 DEF Ops

LEMMA BindQueryStep ==
    ASSUME TypeInv, NEW c \in Callers, BindQuery(c)
    PROVE  LET old == store[op[c].arg]
               mine == settings[op[c].s]
           IN  /\ op' \in [Callers -> Ops]
               /\ mine \in Maps /\ old \in Maps
               /\ op'[c].s = op[c].s /\ op'[c].kind = op[c].kind
               /\ op'[c].at \in {"restore", "store", "merge"}
               /\ op'[c].at = "restore" <=> mine = None
               /\ op'[c].arg = IF mine = None THEN old ELSE Merged(mine, old)
               /\ op'[c].arg \in Maps /\ op'[c].user = op[c].arg
               /\ \A d \in Callers \ {c} : op'[d] = op[d]
<1> DEFINE old == store[op[c].arg]
           mine == settings[op[c].s]
           at == IF mine = None THEN "restore" ELSE IF old = None THEN "store" ELSE "merge"
           arg == IF mine = None THEN old ELSE Merged(mine, old)
<1>1. /\ op \in [Callers -> Ops] /\ op[c] \in Ops
      /\ op[c].kind = "Bind" /\ op[c].at = "query"
      /\ op[c].s \in Sessions /\ op[c].arg \in Users
  BY DEF TypeInv, ArgInv, BindQuery, At
<1>2. mine \in Maps /\ old \in Maps
  BY <1>1 DEF TypeInv, TypeOK, BindQuery, Maps
<1>3. arg \in Maps
  BY <1>2, MapTypes DEF Maps
<1>4. op' = [op EXCEPT ![c] = [op[c] EXCEPT !.at = at, !.arg = arg, !.user = op[c].arg]]
  BY DEF BindQuery
<1>5. at \in {"restore", "store", "merge"} /\ (at = "restore" <=> mine = None)
  OBVIOUS
<1> HIDE DEF at, arg
<1> DEFINE r == [op[c] EXCEPT !.at = at, !.arg = arg, !.user = op[c].arg]
<1>6. r \in Ops
  BY <1>1, <1>3, <1>5 DEF Ops, Args, Places
<1>7. r.at = at /\ r.arg = arg /\ r.s = op[c].s /\ r.kind = op[c].kind /\ r.user = op[c].arg
  BY <1>1 DEF Ops
<1>8. op' \in [Callers -> Ops] /\ op'[c] = r /\ \A d \in Callers \ {c} : op'[d] = op[d]
  BY <1>1, <1>4, <1>6
<1> HIDE DEF r
<1>9. QED
  BY <1>2, <1>3, <1>5, <1>7, <1>8 DEF arg

\* A call whose record is replaced.
LEMMA CallStep ==
    ASSUME TypeInv, NEW c \in Callers, NEW r \in Ops, op' = [op EXCEPT ![c] = r]
    PROVE  /\ op' \in [Callers -> Ops]
           /\ op'[c] = r
           /\ \A d \in Callers \ {c} : op'[d] = op[d]
BY DEF TypeInv

LEMMA IdleOp == Idle \in Ops
BY DEF Idle, Ops, Kinds, Places, Args, Maps

\* The three steps of a call that stores.
LEMMA StorageStep ==
    ASSUME TypeInv, NEW c \in Callers, StoreFor(c) \/ StorageReads(c) \/ StorageWrites(c)
    PROVE  /\ op' \in [Callers -> Ops]
           /\ op[c].s \in Sessions
           /\ op'[c].s = op[c].s /\ op'[c].kind = op[c].kind /\ op'[c].arg = op[c].arg
           /\ StoreFor(c) =>
                 /\ op[c].at = "store" /\ op'[c].at = "read"
                 /\ op'[c].user = IF op[c].kind = "Bind" THEN op[c].user ELSE userid[op[c].s]
           /\ StorageReads(c) =>
                 /\ op[c].at = "read" /\ op'[c].at = "write"
                 /\ op'[c].user = op[c].user /\ op'[c].image = settings[op[c].s]
           /\ StorageWrites(c) =>
                 op[c].at = "write" /\ op'[c].at = "answer" /\ op'[c].user = None
           /\ \A d \in Callers \ {c} : op'[d] = op[d]
<1>1. /\ op \in [Callers -> Ops] /\ op[c] \in Ops /\ op[c].s \in Sessions
      /\ userid[op[c].s] \in Users \cup {None} /\ settings[op[c].s] \in Maps
  BY DEF TypeInv, TypeOK, ArgInv, StoreFor, StorageReads, StorageWrites, Maps
<1>2. CASE StoreFor(c)
  <2> DEFINE u == IF op[c].kind = "Bind" THEN op[c].user ELSE userid[op[c].s]
             r == [op[c] EXCEPT !.at = "read", !.user = u]
  <2>1. op' = [op EXCEPT ![c] = r]
    BY <1>2 DEF StoreFor
  <2>2. u \in Users \cup {None}
    BY <1>1 DEF Ops
  <2> HIDE DEF u
  <2>3. r \in Ops /\ r.at = "read" /\ r.user = u
        /\ r.s = op[c].s /\ r.kind = op[c].kind /\ r.arg = op[c].arg
    BY <1>1, <2>2 DEF Ops, Places
  <2> HIDE DEF r
  <2>4. QED
    BY <1>1, <1>2, <2>1, <2>3 DEF u, StoreFor, StorageReads, StorageWrites
<1>3. CASE StorageReads(c)
  <2> DEFINE r == [op[c] EXCEPT !.at = "write", !.image = settings[op[c].s]]
  <2>1. op' = [op EXCEPT ![c] = r]
    BY <1>3 DEF StorageReads
  <2>2. r \in Ops /\ r.at = "write" /\ r.user = op[c].user /\ r.image = settings[op[c].s]
        /\ r.s = op[c].s /\ r.kind = op[c].kind /\ r.arg = op[c].arg
    BY <1>1 DEF Ops, Places
  <2> HIDE DEF r
  <2>3. QED
    BY <1>1, <1>3, <2>1, <2>2 DEF StoreFor, StorageReads, StorageWrites
<1>4. CASE StorageWrites(c)
  <2> DEFINE r == [op[c] EXCEPT !.at = "answer", !.image = None, !.user = None]
  <2>1. op' = [op EXCEPT ![c] = r]
    BY <1>4 DEF StorageWrites
  <2>2. r \in Ops /\ r.at = "answer" /\ r.user = None
        /\ r.s = op[c].s /\ r.kind = op[c].kind /\ r.arg = op[c].arg
    BY <1>1 DEF Ops, Places, Maps
  <2> HIDE DEF r
  <2>3. QED
    BY <1>1, <1>4, <2>1, <2>2 DEF StoreFor, StorageReads, StorageWrites
<1>5. QED
  BY <1>2, <1>3, <1>4

-----------------------------------------------------------------------------
(* The initial states.                                                     *)

LEMMA InitIInv == Init => IInv
<1> SUFFICES ASSUME Init PROVE IInv
    OBVIOUS
<1>1. /\ op \in [Callers -> Ops]
      /\ \A c \in Callers : op[c].at = "idle" /\ op[c].kind = "none" /\ op[c].user = None
      /\ \A c \in Callers : op[c].image = None
  BY IdleOp DEF Idle, Init
<1>2. store \in [Users -> {Absent, None} \cup (Settings \ {Empty})]
  BY MapTypes DEF Maps, Init
<1>3. TypeOK
  BY <1>1, <1>2, GateSessionsAssumption DEF TypeOK, Init
<1>4. TypeInv
  BY <1>1, <1>3 DEF TypeInv, ArgInv, Maps, Init
<1>5. UserInv /\ AloneInv /\ OwnInv
  BY <1>1 DEF UserInv, AloneInv, OwnInv, OwnAt, Served, Init
<1>6. BindInv /\ OrderInv /\ StoreInv
  BY <1>1 DEF BindInv, BindAt, OrderInv, Writing, StoreInv, Init
<1>7. QED
  BY <1>4, <1>5, <1>6 DEF IInv

-----------------------------------------------------------------------------
(* Types.                                                                  *)

LEMMA GotoType ==
    ASSUME TypeInv, NEW c \in Callers, NEW at \in {"found", "check", "query", "store", "answer"},
           Goto(c, at), op[c].at # "idle", UNCHANGED copy,
           at \in {"check", "query"} => op[c].kind = "Bind",
           at \in {"found", "check", "query"} /\ op[c].kind = "Bind" => op[c].arg \in Users
    PROVE  op' \in [Callers -> Ops] /\ \A d \in Callers : ArgInv(d)'
<1>1. at \in Places
  BY DEF Places
<1>2. /\ op' \in [Callers -> Ops]
      /\ op'[c].at = at /\ op'[c].s = op[c].s
      /\ op'[c].kind = op[c].kind /\ op'[c].arg = op[c].arg
      /\ \A d \in Callers \ {c} : op'[d] = op[d]
  BY <1>1, GotoStep
<1>3. \A d \in Callers : ArgInv(d)
  BY DEF TypeInv
<1>4. ArgInv(c)'
  BY <1>2, <1>3 DEF ArgInv
<1>5. ASSUME NEW d \in Callers \ {c} PROVE ArgInv(d)'
  BY <1>2, <1>3, <1>5 DEF ArgInv
<1>6. QED
  BY <1>2, <1>4, <1>5

LEMMA CallType ==
    ASSUME TypeInv, NEW c \in Callers, NEW kind \in Kinds \ {"none"}, NEW arg \in Args,
           Call(c, kind, arg),
           kind = "Bind" => arg \in Users,
           kind = "Push" => arg \in Maps,
           kind = "Set" => arg \in [key : Keys, value : Values],
           kind = "Remove" => arg \in Keys
    PROVE  TypeInv'
<1> DEFINE r == [Idle EXCEPT !.kind = kind, !.at = "sent", !.s = copy[c].s, !.arg = arg]
<1>1. copy[c] \in Copies
  BY DEF TypeInv, Call
<1>2. /\ r \in Ops /\ r.s \in Sessions
      /\ r.kind = kind /\ r.at = "sent" /\ r.arg = arg
  BY <1>1, IdleOp DEF Copies, Ops, Places, Idle
<1>3. op' = [op EXCEPT ![c] = r]
  BY DEF Call
<1>4. /\ op' \in [Callers -> Ops]
      /\ op'[c] = r
      /\ \A d \in Callers \ {c} : op'[d] = op[d]
  BY <1>2, <1>3, CallStep
<1> HIDE DEF r
<1>5. \A d \in Callers : ArgInv(d)
  BY DEF TypeInv
<1>6. ArgInv(c)'
  BY <1>1, <1>2, <1>4 DEF ArgInv, Call
<1>7. ASSUME NEW d \in Callers \ {c} PROVE ArgInv(d)'
  BY <1>4, <1>5, <1>7 DEF ArgInv, Call
<1>8. TypeOK'
  <2>1. /\ calls' \in 0..MaxCalls
        /\ UNCHANGED <<agent, sessions, userid, settings, store, copy, failures, own, raced,
                       order>>
    BY GateSessionsAssumption DEF TypeInv, TypeOK, Call, gate
  <2>2. \A d \in Callers : op'[d].at \in {"merge", "restore"} => op'[d].arg \in Maps
    BY <1>6, <1>7 DEF ArgInv
  <2>3. \A d \in Callers : op'[d].image \in Maps /\ op'[d].user \in Users \cup {None}
    BY <1>4 DEF Ops
  <2>4. QED
    BY <2>1, <2>2, <2>3 DEF TypeInv, TypeOK, Maps, order
<1>9. QED
  BY <1>4, <1>6, <1>7, <1>8 DEF TypeInv, Call, gate

OrderType ==
    /\ older \in [Callers -> SUBSET Callers]
    /\ late \subseteq Callers
    /\ overtaken \subseteq Users \cup {None}

\* What is left to show when a step has put the calls right.
LEMMA RestType ==
    ASSUME op' \in [Callers -> Ops], \A d \in Callers : ArgInv(d)',
           agent' \in [Sessions -> {"none", "connected", "closed", "ended"}],
           sessions' \subseteq {s \in Sessions : agent'[s] \in {"connected", "closed"}},
           userid' \in [Sessions -> Users \cup {None}],
           settings' \in [Sessions -> Maps],
           store' \in [Users -> {Absent, None} \cup (Settings \ {Empty})],
           copy' \in [Callers -> Copies \cup {None}],
           own' \in [Callers -> Maps],
           binders' \in [Users -> SUBSET Sessions],
           raced' \subseteq Sessions,
           calls' \in 0..MaxCalls, failures' \in 0..MaxFailures,
           OrderType'
    PROVE  TypeInv'
<1>1. \A d \in Callers : copy'[d] # None => copy'[d].settings \in Maps
  BY DEF Copies
<1>2. \A d \in Callers : op'[d].at \in {"merge", "restore"} => op'[d].arg \in Maps
  BY DEF ArgInv
<1>3. \A d \in Callers : op'[d].image \in Maps /\ op'[d].user \in Users \cup {None}
  BY DEF Ops
<1>4. QED
  BY <1>1, <1>2, <1>3 DEF TypeInv, TypeOK, Maps, OrderType

LEMMA StepType == TypeInv /\ [Next]_vars => TypeInv'
<1> SUFFICES ASSUME TypeInv, [Next]_vars PROVE TypeInv'
    OBVIOUS
<1>t. /\ op \in [Callers -> Ops] /\ \A d \in Callers : ArgInv(d)
      /\ agent \in [Sessions -> {"none", "connected", "closed", "ended"}]
      /\ sessions \subseteq {s \in Sessions : agent[s] \in {"connected", "closed"}}
      /\ userid \in [Sessions -> Users \cup {None}]
      /\ settings \in [Sessions -> Maps]
      /\ store \in [Users -> {Absent, None} \cup (Settings \ {Empty})]
      /\ copy \in [Callers -> Copies \cup {None}]
      /\ own \in [Callers -> Maps]
      /\ binders \in [Users -> SUBSET Sessions]
      /\ raced \subseteq Sessions
      /\ calls \in 0..MaxCalls /\ failures \in 0..MaxFailures
      /\ OrderType
  BY DEF TypeInv, TypeOK, Maps, OrderType
<1>o. UNCHANGED order => OrderType'
  BY <1>t DEF OrderType, order
<1>s. /\ op' = op => op' \in [Callers -> Ops]
      /\ op' = op /\ copy' = copy => \A d \in Callers : ArgInv(d)'
  BY <1>t DEF ArgInv
<1>1. ASSUME NEW s \in Sessions, Connect(s) PROVE TypeInv'
  <2>1. settings' \in [Sessions -> Maps]
    BY <1>t, <1>1, MapTypes DEF Connect, Maps
  <2>2. /\ agent' \in [Sessions -> {"none", "connected", "closed", "ended"}]
        /\ sessions' \subseteq {q \in Sessions : agent'[q] \in {"connected", "closed"}}
    BY <1>t, <1>1 DEF Connect
  <2>3. QED
    BY <1>t, <1>o, <1>s, <1>1, <2>1, <2>2, RestType DEF Connect
<1>2. ASSUME NEW s \in Sessions, DisConnect(s) PROVE TypeInv'
  <2>1. /\ agent' \in [Sessions -> {"none", "connected", "closed", "ended"}]
        /\ sessions' \subseteq {q \in Sessions : agent'[q] \in {"connected", "closed"}}
    BY <1>t, <1>2 DEF DisConnect
  <2>2. QED
    BY <1>t, <1>o, <1>s, <1>2, <2>1, RestType DEF DisConnect
<1>3. ASSUME NEW c \in Callers, Ask(c) PROVE TypeInv'
  <2>1. ASSUME NEW s \in Sessions, Receive(c, s) PROVE TypeInv'
    <3>1. Decoded(settings[s]) \in Maps
      BY <1>t, MapTypes DEF Maps
    <3>2. copy' \in [Callers -> Copies \cup {None}]
      BY <1>t, <2>1, <3>1 DEF Receive, Copies
    <3>3. \A d \in Callers : ArgInv(d)'
      BY <1>t, <2>1 DEF Receive, ArgInv
    <3>4. QED
      BY <1>t, <1>o, <1>s, <2>1, <3>2, <3>3, RestType DEF Receive, gate
  <2>2. ASSUME NEW k \in Keys, NEW v \in Values \cup {None},
               op[c].at = "idle", copy[c] # None,
               copy' = [copy EXCEPT ![c].settings = [AsMap(@) EXCEPT ![k] = v]],
               UNCHANGED <<gate, op, calls, failures, own, raced>>
        PROVE  TypeInv'
    <3>1. copy[c] \in Copies /\ copy[c].settings \in Maps
      BY <1>t, <2>2 DEF Copies
    <3>2. [AsMap(copy[c].settings) EXCEPT ![k] = v] \in Maps
      BY <3>1, MapTypes DEF Maps
    <3>3. [copy[c] EXCEPT !.settings = [AsMap(copy[c].settings) EXCEPT ![k] = v]] \in Copies
      BY <3>1, <3>2 DEF Copies
    <3>4. copy' \in [Callers -> Copies \cup {None}]
      BY <1>t, <2>2, <3>3
    <3>5. \A d \in Callers : ArgInv(d)'
      BY <1>t, <2>2 DEF ArgInv
    <3>6. QED
      BY <1>t, <1>o, <1>s, <2>2, <3>4, <3>5, RestType DEF gate
  <2>3. ASSUME NEW k \in Keys, NEW v \in Values, LocalSet(c, k, v) PROVE TypeInv'
    BY <2>2, <2>3 DEF LocalSet
  <2>4. ASSUME NEW k \in Keys, LocalRemove(c, k) PROVE TypeInv'
    BY <2>2, <2>4 DEF LocalRemove
  <2>5. ASSUME NEW k \in Keys, NEW v \in Values, CallSet(c, k, v) PROVE TypeInv'
    BY <2>5, CallType DEF CallSet, Kinds, Args
  <2>6. ASSUME NEW k \in Keys, CallRemove(c, k) PROVE TypeInv'
    BY <2>6, CallType DEF CallRemove, Kinds, Args
  <2>7. ASSUME NEW u \in Users, CallBind(c, u) PROVE TypeInv'
    BY <2>7, CallType DEF CallBind, Kinds, Args
  <2>8. CASE CallUpdate(c) \/ CallUnBind(c) \/ CallClose(c)
    BY <2>8, CallType DEF CallUpdate, CallUnBind, CallClose, Kinds, Args
  <2>9. CASE CallPush(c)
    <3>1. copy[c].settings \in Maps
      BY <1>t, <2>9 DEF CallPush, Call, Copies
    <3>2. QED
      BY <2>9, <3>1, CallType DEF CallPush, Kinds, Args
  <2>10. QED
    BY <1>3, <2>1, <2>3, <2>4, <2>5, <2>6, <2>7, <2>8, <2>9 DEF Ask
<1>4. ASSUME NEW c \in Callers, Serve(c) PROVE TypeInv'
  <2>s. op[c].at # "idle" => op[c].s \in Sessions
    BY <1>t DEF ArgInv
  <2>1. CASE NotFound(c)
    <3>1. op' \in [Callers -> Ops] /\ op'[c] = Idle /\ \A d \in Callers \ {c} : op'[d] = op[d]
      BY <2>1, IdleOp, CallStep DEF NotFound
    <3>2. \A d \in Callers : ArgInv(d)'
      BY <1>t, <2>1, <3>1 DEF ArgInv, Idle, NotFound
    <3>3. QED
      BY <1>t, <1>o, <2>1, <3>1, <3>2, RestType DEF NotFound, gate
  <2>2. CASE LookUp(c)
    <3>1. op' \in [Callers -> Ops] /\ \A d \in Callers : ArgInv(d)'
      BY <1>t, <2>2, GotoType DEF LookUp, ArgInv
    <3>2. own' \in [Callers -> Maps]
      BY <1>t, <2>s, <2>2, MapTypes DEF LookUp, Maps
    <3>3. raced' \subseteq Sessions
      BY <1>t, <2>s, <2>2 DEF LookUp
    <3>4. QED
      BY <1>t, <1>o, <2>2, <3>1, <3>2, <3>3, RestType DEF LookUp, gate
  <2>3. CASE Update(c)
    <3>1. op' \in [Callers -> Ops] /\ \A d \in Callers : ArgInv(d)'
      BY <2>3, GotoType DEF Update, At
    <3>2. QED
      BY <1>t, <1>o, <2>3, <3>1, RestType DEF Update, gate
  <2>4. CASE BindUser(c)
    <3>1. op' \in [Callers -> Ops] /\ \A d \in Callers : ArgInv(d)'
      BY <1>t, <2>4, GotoType DEF BindUser, At, ArgInv
    <3>2. op[c].s \in Sessions /\ op[c].arg \in Users
      BY <1>t, <2>4 DEF BindUser, At, ArgInv
    <3>3. /\ userid' \in [Sessions -> Users \cup {None}]
          /\ binders' \in [Users -> SUBSET Sessions]
      BY <1>t, <2>4, <3>2 DEF BindUser
    <3>4. QED
      BY <1>t, <1>o, <2>4, <3>1, <3>3, RestType DEF BindUser
  <2>5. CASE BindQueryNothing(c)
    <3>1. op' \in [Callers -> Ops] /\ \A d \in Callers : ArgInv(d)'
      BY <2>5, GotoType DEF BindQueryNothing, At
    <3>2. failures' \in 0..MaxFailures
      BY <1>t, <2>5, GateSessionsAssumption DEF BindQueryNothing
    <3>3. QED
      BY <1>t, <1>o, <2>5, <3>1, <3>2, RestType DEF BindQueryNothing, gate
  <2>6. CASE BindQuery(c)
    <3>1. /\ op' \in [Callers -> Ops]
          /\ op'[c].s = op[c].s /\ op'[c].kind = op[c].kind /\ op[c].kind = "Bind"
          /\ op[c].at = "query"
          /\ op'[c].at \in {"restore", "store", "merge"}
          /\ op'[c].arg \in Maps
          /\ \A d \in Callers \ {c} : op'[d] = op[d]
      BY <2>6, BindQueryStep DEF BindQuery, At
    <3>2. ArgInv(c)'
      BY <1>t, <2>6, <3>1 DEF ArgInv, BindQuery
    <3>3. \A d \in Callers : ArgInv(d)'
      BY <1>t, <2>6, <3>1, <3>2 DEF ArgInv, BindQuery
    <3>4. QED
      BY <1>t, <1>o, <2>6, <3>1, <3>3, RestType DEF BindQuery, gate
  <2>7. CASE BindRestore(c) \/ BindMerge(c)
    <3>1. op' \in [Callers -> Ops] /\ \A d \in Callers : ArgInv(d)'
      BY <2>7, GotoType DEF BindRestore, BindMerge, At
    <3>2. op[c].s \in Sessions /\ op[c].arg \in Maps
      BY <1>t, <2>7 DEF BindRestore, BindMerge, At, ArgInv
    <3>3. settings' \in [Sessions -> Maps]
      BY <1>t, <2>7, <3>2 DEF BindRestore, BindMerge
    <3>4. QED
      BY <1>t, <1>o, <2>7, <3>1, <3>3, RestType DEF BindRestore, BindMerge
  <2>8. CASE UnBind(c)
    <3>1. op' \in [Callers -> Ops] /\ \A d \in Callers : ArgInv(d)'
      BY <2>8, GotoType DEF UnBind, At
    <3>2. userid' \in [Sessions -> Users \cup {None}]
      BY <1>t, <2>8 DEF UnBind
    <3>3. QED
      BY <1>t, <1>o, <2>8, <3>1, <3>2, RestType DEF UnBind
  <2>9. ASSUME NEW kind, NEW new \in Maps, kind # "Bind", Change(c, kind, new)
        PROVE  TypeInv'
    <3> DEFINE at == IF userid[op[c].s] # None THEN "store" ELSE "answer"
    <3>1. /\ at \in {"store", "answer"} /\ Goto(c, at) /\ op[c].at = "found"
          /\ UNCHANGED copy
      BY <2>9 DEF Change, At
    <3> HIDE DEF at
    <3>2. op' \in [Callers -> Ops] /\ \A d \in Callers : ArgInv(d)'
      BY <3>1, GotoType
    <3>3. settings' \in [Sessions -> Maps]
      BY <1>t, <2>9 DEF Change
    <3>4. QED
      BY <1>t, <1>o, <2>9, <3>2, <3>3, RestType DEF Change
  <2>10. CASE Set(c) \/ Remove(c) \/ Push(c)
    <3>1. op[c].kind = "Push" => op[c].arg \in Maps
      BY <1>t DEF ArgInv
    <3>2. At(c, "Set", "found") =>
            [AsMap(settings[op[c].s]) EXCEPT ![op[c].arg.key] = op[c].arg.value] \in Maps
      BY <1>t, <2>s, MapTypes DEF ArgInv, At, Maps
    <3>3. At(c, "Remove", "found") =>
            [AsMap(settings[op[c].s]) EXCEPT ![op[c].arg] = None] \in Maps
      BY <1>t, <2>s, MapTypes DEF ArgInv, At, Maps
    <3>4. CASE Set(c)
      BY <2>9, <3>2, <3>4 DEF Set, Change
    <3>5. CASE Remove(c)
      BY <2>9, <3>3, <3>5 DEF Remove, Change
    <3>6. CASE Push(c)
      BY <2>9, <3>1, <3>6 DEF Push, Change, At
    <3>7. QED
      BY <2>10, <3>4, <3>5, <3>6
  <2>11. CASE Close(c)
    <3>1. op' \in [Callers -> Ops] /\ \A d \in Callers : ArgInv(d)'
      BY <2>11, GotoType DEF Close, At
    <3>2. /\ agent' \in [Sessions -> {"none", "connected", "closed", "ended"}]
          /\ sessions' \subseteq {q \in Sessions : agent'[q] \in {"connected", "closed"}}
      BY <1>t, <2>11 DEF Close
    <3>3. QED
      BY <1>t, <1>o, <2>11, <3>1, <3>2, RestType DEF Close
  <2>12. CASE StoreFor(c) \/ StorageReads(c) \/ StorageWrites(c)
    <3>1. op' \in [Callers -> Ops] /\ ArgInv(c)' /\ \A d \in Callers \ {c} : op'[d] = op[d]
      BY <1>t, <2>12, StorageStep DEF ArgInv, StoreFor, StorageReads, StorageWrites, gate
    <3>2. \A d \in Callers : ArgInv(d)'
      BY <1>t, <2>12, <3>1 DEF ArgInv, StoreFor, StorageReads, StorageWrites, gate
    <3>3. CASE StoreFor(c)
      BY <1>t, <1>o, <3>1, <3>2, <3>3, RestType DEF StoreFor, gate
    <3>4. CASE StorageReads(c)
      <4>1. OrderType'
        BY <1>t, <3>4 DEF StorageReads, OrderType
      <4>2. QED
        BY <1>t, <3>1, <3>2, <3>4, <4>1, RestType DEF StorageReads
    <3>5. CASE StorageWrites(c)
      <4>1. op[c].image \in Maps /\ op[c].user \in Users \cup {None}
        BY <1>t DEF Ops
      <4>2. Decoded(op[c].image) \in {Absent, None} \cup (Settings \ {Empty})
        BY <4>1, MapTypes
      <4>3. store' \in [Users -> {Absent, None} \cup (Settings \ {Empty})]
        BY <1>t, <3>5, <4>1, <4>2 DEF StorageWrites
      <4>4. failures' \in 0..MaxFailures
        BY <1>t, <3>5, GateSessionsAssumption DEF StorageWrites
      <4>5. OrderType'
        BY <1>t, <3>5, <4>1 DEF StorageWrites, OrderType
      <4>6. QED
        BY <1>t, <3>1, <3>2, <3>5, <4>3, <4>4, <4>5, RestType DEF StorageWrites
    <3>6. QED
      BY <2>12, <3>3, <3>4, <3>5
  <2>13. CASE Answer(c)
    <3>1. op' \in [Callers -> Ops] /\ op'[c] = Idle /\ \A d \in Callers \ {c} : op'[d] = op[d]
      BY <2>13, IdleOp, CallStep DEF Answer
    <3>2. own' \in [Callers -> Maps]
      BY <1>t, <2>13 DEF Answer, Maps
    <3>3. Decoded(settings[op[c].s]) \in Maps
      BY <1>t, <2>s, <2>13, MapTypes DEF Answer, Maps
    <3>4. copy' \in [Callers -> Copies \cup {None}]
      <4>1. CASE UNCHANGED copy
        BY <1>t, <4>1
      <4>2. CASE copy' = [copy EXCEPT ![c].settings = Decoded(settings[op[c].s])]
        <5>1. copy[c] \in Copies
          BY <1>t, <2>13 DEF Answer, ArgInv
        <5>2. QED
          BY <1>t, <3>3, <4>2, <5>1 DEF Copies
      <4>3. QED
        BY <2>13, <4>1, <4>2 DEF Answer
    <3>5. \A d \in Callers : ArgInv(d)'
      BY <1>t, <2>13, <3>1, <3>4 DEF ArgInv, Idle, Answer
    <3>6. QED
      BY <1>t, <1>o, <2>13, <3>1, <3>2, <3>4, <3>5, RestType DEF Answer, gate
  <2>14. CASE BindCheck(c)
    <3> DEFINE at == IF userid[op[c].s] # None THEN "query" ELSE "answer"
    <3>1. /\ at \in {"query", "answer"} /\ Goto(c, at)
          /\ op[c].at = "check" /\ op[c].kind = "Bind" /\ op[c].arg \in Users
          /\ UNCHANGED copy
      BY <1>t, <2>14 DEF BindCheck, At, ArgInv
    <3> HIDE DEF at
    <3>2. op' \in [Callers -> Ops] /\ \A d \in Callers : ArgInv(d)'
      BY <3>1, GotoType
    <3>3. QED
      BY <1>t, <1>o, <2>14, <3>2, RestType DEF BindCheck, gate
  <2>15. QED
    BY <1>4, <2>1, <2>2, <2>3, <2>4, <2>5, <2>6, <2>7, <2>8, <2>10, <2>11, <2>12, <2>13,
       <2>14 DEF Serve
<1>5. CASE UNCHANGED vars
  BY <1>t, <1>o, <1>s, <1>5, RestType DEF vars
<1>6. QED
  BY <1>1, <1>2, <1>3, <1>4, <1>5 DEF Next

-----------------------------------------------------------------------------
(* What a step can touch.                                                  *)

LEMMA AskFrame ==
    ASSUME TypeInv, NEW c \in Callers, Ask(c)
    PROVE  /\ UNCHANGED <<gate, failures, own, raced>>
           /\ \A d \in Callers : op'[d] # op[d] =>
                 op[d].at = "idle" /\ op'[d].at = "sent" /\ op'[d].user = None
<1>1. op \in [Callers -> Ops]
  BY DEF TypeInv
<1>2. ASSUME NEW kind, NEW arg, Call(c, kind, arg)
      PROVE  /\ UNCHANGED <<gate, failures, own, raced>>
             /\ \A d \in Callers : op'[d] # op[d] =>
                   op[d].at = "idle" /\ op'[d].at = "sent" /\ op'[d].user = None
  BY <1>1, <1>2 DEF Call, Idle
<1>3. ASSUME NEW s \in Sessions, Receive(c, s)
      PROVE  UNCHANGED <<gate, failures, own, raced>> /\ op' = op
  BY <1>3 DEF Receive
<1>4. ASSUME NEW k \in Keys, NEW v \in Values, LocalSet(c, k, v)
      PROVE  UNCHANGED <<gate, failures, own, raced>> /\ op' = op
  BY <1>4 DEF LocalSet
<1>5. ASSUME NEW k \in Keys, LocalRemove(c, k)
      PROVE  UNCHANGED <<gate, failures, own, raced>> /\ op' = op
  BY <1>5 DEF LocalRemove
<1>6. QED
  BY <1>2, <1>3, <1>4, <1>5 DEF Ask, CallSet, CallRemove, CallBind, CallUpdate,
         CallUnBind, CallPush, CallClose

LEMMA ServeFrame ==
    ASSUME TypeInv, NEW c \in Callers, Serve(c)
    PROVE  /\ op[c].at # "idle" /\ op[c].s \in Sessions
           /\ \A d \in Callers \ {c} : op'[d] = op[d] /\ own'[d] = own[d]
           /\ op'[c].at = "idle" \/ (op'[c].kind = op[c].kind /\ op'[c].s = op[c].s)
           /\ op'[c].at # "sent"
           /\ op'[c].at = "idle" => NotFound(c) \/ Answer(c)
           /\ op'[c].at = "idle" \/ Served(c) \/ LookUp(c)
           /\ \A s \in Sessions \ {op[c].s} : settings'[s] = settings[s]
           /\ \A s \in Sessions : agent[s] # "none" => agent'[s] # "none"
           /\ Served(c) \/ UNCHANGED <<gate, failures>>
           /\ BindUser(c) \/ UnBind(c) \/ UNCHANGED <<userid, binders>>
           /\ StorageWrites(c) \/ UNCHANGED store
           /\ StorageReads(c) \/ StorageWrites(c) \/ UNCHANGED order
           /\ op'[c].user \in {None, op[c].user} \/ BindQuery(c) \/ StoreFor(c)
           /\ op'[c].at \in {"check", "query"} => BindUser(c) \/ BindCheck(c)
           /\ LookUp(c) \/ UNCHANGED raced
           /\ LookUp(c) \/ Answer(c) \/ UNCHANGED own
           /\ failures' = 0 => failures = 0
<1>1. /\ op \in [Callers -> Ops] /\ ArgInv(c) /\ own \in [Callers -> Maps]
      /\ agent \in [Sessions -> {"none", "connected", "closed", "ended"}]
      /\ settings \in [Sessions -> Maps]
      /\ failures \in Nat
  BY GateSessionsAssumption DEF TypeInv, TypeOK, Maps
<1>2. op[c].at # "idle" /\ op[c].s \in Sessions
  BY <1>1 DEF ArgInv, Serve, NotFound, LookUp, Update, BindUser, BindCheck, BindQueryNothing,
         BindQuery, BindRestore, BindMerge, UnBind, Set, Remove, Push, Change, Close, StoreFor,
         StorageReads, StorageWrites, Answer, At
<1>3. ASSUME NEW at \in Places \ {"idle", "sent"}, Goto(c, at)
      PROVE  /\ \A d \in Callers \ {c} : op'[d] = op[d]
             /\ op'[c].kind = op[c].kind /\ op'[c].s = op[c].s
             /\ op'[c].at = at /\ op'[c].user = op[c].user
  BY <1>3, GotoStep
<1> USE DEF Places
<1>4. CASE NotFound(c)
  <2>1. op'[c] = Idle /\ \A d \in Callers \ {c} : op'[d] = op[d]
    BY <1>4, IdleOp, CallStep DEF NotFound
  <2>2. QED
    BY <1>1, <1>2, <1>4, <2>1 DEF NotFound, Idle, gate
<1>5. CASE LookUp(c)
  BY <1>1, <1>2, <1>3, <1>5 DEF LookUp, gate
<1>6. CASE Update(c)
  BY <1>2, <1>3, <1>6 DEF Update, At, Served, gate
<1>7. CASE BindUser(c)
  BY <1>2, <1>3, <1>7 DEF BindUser, At, Served
<1>8. CASE BindQueryNothing(c)
  BY <1>1, <1>2, <1>3, <1>8 DEF BindQueryNothing, At, Served, gate
<1>9. CASE BindQuery(c)
  <2>1. /\ \A d \in Callers \ {c} : op'[d] = op[d]
        /\ op'[c].kind = op[c].kind /\ op'[c].s = op[c].s
        /\ op'[c].at \notin {"idle", "sent", "check", "query"}
    BY <1>9, BindQueryStep
  <2>2. QED
    BY <1>2, <1>9, <2>1 DEF BindQuery, At, Served, gate
<1>10. CASE BindRestore(c) \/ BindMerge(c)
  BY <1>1, <1>2, <1>3, <1>10 DEF BindRestore, BindMerge, At, Served
<1>11. CASE UnBind(c)
  BY <1>2, <1>3, <1>11 DEF UnBind, At, Served
<1>12. ASSUME NEW kind, NEW new, Change(c, kind, new)
       PROVE  /\ \A d \in Callers \ {c} : op'[d] = op[d]
              /\ op'[c].kind = op[c].kind /\ op'[c].s = op[c].s
              /\ op'[c].at \in {"store", "answer"} /\ op'[c].user = op[c].user
              /\ \A s \in Sessions \ {op[c].s} : settings'[s] = settings[s]
              /\ UNCHANGED <<agent, userid, store, failures, binders, own, raced, order>>
              /\ op[c].at = "found"
  <2> DEFINE at == IF userid[op[c].s] # None THEN "store" ELSE "answer"
  <2>1. at \in {"store", "answer"} /\ Goto(c, at) /\ op[c].at = "found"
    BY <1>12 DEF Change, At
  <2> HIDE DEF at
  <2>2. /\ \A d \in Callers \ {c} : op'[d] = op[d]
        /\ op'[c].kind = op[c].kind /\ op'[c].s = op[c].s
        /\ op'[c].at = at /\ op'[c].user = op[c].user
    BY <1>3, <2>1
  <2>3. QED
    BY <1>1, <1>12, <2>1, <2>2 DEF Change
<1>13. CASE Set(c) \/ Remove(c) \/ Push(c)
  BY <1>2, <1>12, <1>13 DEF Set, Remove, Push, Served
<1>14. CASE Close(c)
  BY <1>1, <1>2, <1>3, <1>14 DEF Close, At, Served
<1>15. CASE StoreFor(c) \/ StorageReads(c) \/ StorageWrites(c)
  <2>1. CASE StoreFor(c)
    BY <1>1, <1>2, <2>1, StorageStep DEF StoreFor, gate, Served
  <2>2. CASE StorageReads(c)
    BY <1>1, <1>2, <2>2, StorageStep DEF StorageReads, Served
  <2>3. CASE StorageWrites(c)
    <3>1. /\ UNCHANGED <<agent, userid, settings, binders, own, raced>>
          /\ failures' = failures \/ failures' = failures + 1
      BY <2>3 DEF StorageWrites
    <3>2. /\ op'[c].s = op[c].s /\ op'[c].kind = op[c].kind /\ op'[c].user = None
          /\ op[c].at = "write" /\ op'[c].at = "answer"
          /\ \A d \in Callers \ {c} : op'[d] = op[d]
      BY <2>3, StorageStep
    <3>3. QED
      BY <1>1, <1>2, <2>3, <3>1, <3>2 DEF Served
  <2>4. QED
    BY <1>15, <2>1, <2>2, <2>3
<1>16. CASE Answer(c)
  <2>1. op'[c] = Idle /\ \A d \in Callers \ {c} : op'[d] = op[d]
    BY <1>16, IdleOp, CallStep DEF Answer
  <2>2. QED
    BY <1>1, <1>2, <1>16, <2>1 DEF Answer, Idle, gate, Served
<1>17. CASE BindCheck(c)
  <2> DEFINE at == IF userid[op[c].s] # None THEN "query" ELSE "answer"
  <2>1. at \in {"query", "answer"} /\ Goto(c, at) /\ op[c].at = "check"
    BY <1>17 DEF BindCheck, At
  <2> HIDE DEF at
  <2>2. /\ \A d \in Callers \ {c} : op'[d] = op[d]
        /\ op'[c].kind = op[c].kind /\ op'[c].s = op[c].s
        /\ op'[c].at = at /\ op'[c].user = op[c].user
    BY <1>3, <2>1
  <2>3. QED
    BY <1>2, <1>17, <2>1, <2>2 DEF BindCheck, Served, gate
<1>18. QED
  BY <1>4, <1>5, <1>6, <1>7, <1>8, <1>9, <1>10, <1>11, <1>13, <1>14, <1>15, <1>16, <1>17
     DEF Serve

-----------------------------------------------------------------------------
(* Users, and which calls share a session.                                 *)

LEMMA StepUser == TypeInv /\ UserInv /\ [Next]_vars => UserInv'
<1> SUFFICES ASSUME TypeInv, UserInv, [Next]_vars PROVE UserInv'
    OBVIOUS
<1>t. /\ agent \in [Sessions -> {"none", "connected", "closed", "ended"}]
      /\ userid \in [Sessions -> Users \cup {None}]
      /\ binders \in [Users -> SUBSET Sessions]
      /\ sessions \subseteq {s \in Sessions : agent[s] \in {"connected", "closed"}}
      /\ \A c \in Callers : ArgInv(c)
  BY DEF TypeInv, TypeOK
<1>1. ASSUME NEW s \in Sessions, Connect(s) \/ DisConnect(s) PROVE UserInv'
  BY <1>t, <1>1 DEF Connect, DisConnect, UserInv, Served, ArgInv
<1>2. ASSUME NEW c \in Callers, Ask(c) PROVE UserInv'
  <2>1. /\ UNCHANGED <<agent, userid, binders>>
        /\ \A d \in Callers : op'[d] # op[d] => op'[d].at = "sent" /\ op'[d].user = None
    BY <1>2, AskFrame DEF gate
  <2>2. QED
    BY <2>1 DEF UserInv, Served
<1>3. ASSUME NEW c \in Callers, Serve(c) PROVE UserInv'
  <2>1. \A d \in Callers : Served(d)' => agent'[op'[d].s] # "none"
    <3> SUFFICES ASSUME NEW d \in Callers, Served(d)' PROVE agent'[op'[d].s] # "none"
        OBVIOUS
    <3>1. CASE d # c
      BY <1>t, <1>3, <3>1, ServeFrame DEF UserInv, Served, ArgInv
    <3>2. CASE d = c /\ Served(c)
      BY <1>t, <1>3, <3>2, ServeFrame DEF UserInv, Served
    <3>3. CASE d = c /\ LookUp(c)
      BY <1>t, <1>3, <3>3, ServeFrame DEF UserInv, Served, LookUp, gate
    <3>4. QED
      BY <1>3, <3>1, <3>2, <3>3, ServeFrame DEF Served
  <2>2. op[c].s \in Sessions /\ \A s \in Sessions : agent[s] # "none" => agent'[s] # "none"
    BY <1>3, ServeFrame
  <2>b. BindUser(c) \/ binders' = binders
    BY <1>3, ServeFrame DEF UnBind
  <2>m. \A u \in Users : binders[u] \subseteq binders'[u]
    BY <1>t, <2>b DEF BindUser
  <2>c. \A d \in Callers :
          op'[d].at \in {"check", "query"} => op'[d].s \in binders'[op'[d].arg]
    <3> SUFFICES ASSUME NEW d \in Callers, op'[d].at \in {"check", "query"}
                 PROVE  op'[d].s \in binders'[op'[d].arg]
        OBVIOUS
    <3>1. ASSUME op'[d].s = op[d].s, op'[d].arg = op[d].arg, op[d].at \in {"check", "query"}
          PROVE  op'[d].s \in binders'[op'[d].arg]
      BY <1>t, <2>m, <3>1 DEF UserInv, ArgInv
    <3>2. CASE d # c
      BY <1>3, <3>1, <3>2, ServeFrame
    <3>3. CASE d = c /\ BindUser(c)
      <4>1. op'[c].s = op[c].s /\ op'[c].arg = op[c].arg /\ op[c].arg \in Users
        BY <1>t, <3>3, GotoStep DEF BindUser, Places, ArgInv, At
      <4>2. QED
        BY <1>t, <3>3, <4>1 DEF BindUser
    <3>4. CASE d = c /\ BindCheck(c)
      <4> DEFINE at == IF userid[op[c].s] # None THEN "query" ELSE "answer"
      <4>1. at \in Places /\ Goto(c, at) /\ op[c].at = "check"
        BY <3>4 DEF BindCheck, At, Places
      <4> HIDE DEF at
      <4>2. op'[c].s = op[c].s /\ op'[c].arg = op[c].arg
        BY <4>1, GotoStep
      <4>3. QED
        BY <3>1, <3>4, <4>1, <4>2
    <3>5. QED
      BY <1>3, <3>2, <3>3, <3>4, ServeFrame
  <2>d. \A d \in Callers : op'[d].user # None => op'[d].s \in binders'[op'[d].user]
    <3> SUFFICES ASSUME NEW d \in Callers, op'[d].user # None
                 PROVE  op'[d].s \in binders'[op'[d].user]
        OBVIOUS
    <3>1. ASSUME op'[d].s = op[d].s, op'[d].user = op[d].user
          PROVE  op'[d].s \in binders'[op'[d].user]
      BY <1>t, <2>m, <3>1 DEF UserInv, TypeInv, Ops
    <3>2. CASE d # c
      BY <1>3, <3>1, <3>2, ServeFrame
    <3>3. CASE d = c /\ BindQuery(c)
      <4>1. /\ op'[c].s = op[c].s /\ op'[c].user = op[c].arg /\ op[c].at = "query"
            /\ op[c].arg \in Users
        BY <1>t, <3>3, BindQueryStep DEF BindQuery, ArgInv, At
      <4>2. QED
        BY <2>m, <3>3, <4>1 DEF UserInv
    <3>4. CASE d = c /\ StoreFor(c)
      <4>1. /\ op'[c].s = op[c].s
            /\ op'[c].user = IF op[c].kind = "Bind" THEN op[c].user ELSE userid[op[c].s]
        BY <3>4, StorageStep
      <4>2. QED
        BY <1>t, <2>2, <2>m, <3>1, <3>4, <4>1 DEF UserInv
    <3>5. CASE d = c /\ op'[c].user = op[c].user
      <4>1. CASE op'[c].at = "idle"
        <5>1. NotFound(c) \/ Answer(c)
          BY <1>3, <4>1, ServeFrame
        <5>2. op'[c] = Idle
          BY <5>1, IdleOp, CallStep DEF NotFound, Answer
        <5>3. QED
          BY <3>5, <5>2 DEF Idle
      <4>2. QED
        BY <1>3, <3>1, <3>5, <4>1, ServeFrame
    <3>6. QED
      BY <1>3, <3>2, <3>3, <3>4, <3>5, ServeFrame
  <2>3. CASE BindUser(c)
    <3>1. /\ op[c].arg \in Users /\ agent[op[c].s] # "none"
          /\ userid' = [userid EXCEPT ![op[c].s] = op[c].arg]
          /\ binders' = [binders EXCEPT ![op[c].arg] = @ \cup {op[c].s}]
          /\ agent' = agent
      BY <1>t, <2>3 DEF BindUser, ArgInv, At, UserInv, Served
    <3>2. \A s \in Sessions :
             /\ agent'[s] = "none" => userid'[s] = None
             /\ userid'[s] # None => s \in binders'[userid'[s]]
      BY <1>t, <2>2, <3>1 DEF UserInv
    <3>3. QED
      BY <2>1, <2>c, <2>d, <3>2 DEF UserInv
  <2>4. CASE UnBind(c)
    <3>1. \A s \in Sessions :
             /\ agent'[s] = "none" => userid'[s] = None
             /\ userid'[s] # None => s \in binders'[userid'[s]]
      BY <1>t, <2>2, <2>4 DEF UserInv, UnBind
    <3>2. QED
      BY <2>1, <2>c, <2>d, <3>1 DEF UserInv
  <2>5. CASE UNCHANGED <<userid, binders>>
    BY <1>t, <2>1, <2>2, <2>c, <2>d, <2>5 DEF UserInv
  <2>6. QED
    BY <1>3, <2>3, <2>4, <2>5, ServeFrame
<1>4. CASE UNCHANGED vars
  BY <1>4 DEF vars, UserInv, Served
<1>5. QED
  BY <1>1, <1>2, <1>3, <1>4 DEF Next

LEMMA StepAlone == TypeInv /\ AloneInv /\ [Next]_vars => AloneInv'
<1> SUFFICES ASSUME TypeInv, AloneInv, [Next]_vars PROVE AloneInv'
    OBVIOUS
<1>1. CASE UNCHANGED <<op, raced>>
  BY <1>1 DEF AloneInv, Served
<1>2. ASSUME NEW s \in Sessions, Connect(s) \/ DisConnect(s) PROVE AloneInv'
  BY <1>1, <1>2 DEF Connect, DisConnect
<1>3. ASSUME NEW c \in Callers, Ask(c) PROVE AloneInv'
  BY <1>3, AskFrame DEF AloneInv, Served
<1>4. ASSUME NEW c \in Callers, Serve(c) PROVE AloneInv'
  <2> SUFFICES ASSUME NEW d \in Callers, NEW e \in Callers, Served(d)', Served(e)', d # e,
                      op'[d].s = op'[e].s, op'[d].kind = "Bind"
               PROVE  op'[d].s \in raced'
      BY DEF AloneInv
  <2>1. /\ op'[d].kind = op[d].kind /\ op'[d].s = op[d].s
        /\ op'[e].kind = op[e].kind /\ op'[e].s = op[e].s
        /\ d # c => Served(d)
        /\ e # c => Served(e)
    BY <1>4, ServeFrame DEF Served
  <2>2. CASE ~LookUp(c)
    <3>1. Served(d) /\ Served(e) /\ raced' = raced
      BY <1>4, <2>1, <2>2, ServeFrame DEF Served
    <3>2. QED
      BY <2>1, <3>1 DEF AloneInv
  <2>3. CASE LookUp(c)
    <3>1. raced \subseteq raced'
      BY <2>3 DEF LookUp
    <3>2. CASE d # c /\ e # c
      BY <2>1, <3>1, <3>2 DEF AloneInv
    <3>3. CASE d = c \/ e = c
      <4>1. /\ op[d].s = op[c].s /\ {d, e} \subseteq {c} \cup Overlapping(c)
            /\ op[d].kind = "Bind"
        BY <2>1, <3>3 DEF Overlapping, Served
      <4>2. op[c].s \in raced'
        BY <2>3, <4>1 DEF LookUp
      <4>3. QED
        BY <2>1, <4>1, <4>2
    <3>4. QED
      BY <3>2, <3>3
  <2>4. QED
    BY <2>2, <2>3
<1>5. CASE UNCHANGED vars
  BY <1>1, <1>5 DEF vars
<1>6. QED
  BY <1>2, <1>3, <1>4, <1>5 DEF Next

-----------------------------------------------------------------------------
(* A Bind that has its session for itself.                                 *)

\* Nobody else is at such a session while the Bind is served.
LEMMA LeftAlone ==
    ASSUME TypeInv, UserInv, AloneInv, NEW c \in Callers, Served(c), op[c].kind = "Bind",
           op[c].s \notin raced, [Next]_vars, ~Serve(c)
    PROVE  /\ op'[c] = op[c] /\ own'[c] = own[c]
           /\ settings'[op[c].s] = settings[op[c].s]
           /\ userid'[op[c].s] = userid[op[c].s]
           /\ raced \subseteq raced'
<1>t. /\ settings \in [Sessions -> Maps]
      /\ userid \in [Sessions -> Users \cup {None}]
      /\ op[c].s \in Sessions
      /\ agent[op[c].s] # "none"
  BY DEF TypeInv, TypeOK, Maps, ArgInv, Served, UserInv
<1>1. ASSUME NEW s \in Sessions, Connect(s) \/ DisConnect(s)
      PROVE  UNCHANGED <<op, own, userid, raced>> /\ settings'[op[c].s] = settings[op[c].s]
  BY <1>t, <1>1 DEF Connect, DisConnect
<1>2. ASSUME NEW d \in Callers, Ask(d)
      PROVE  op'[c] = op[c] /\ UNCHANGED <<own, settings, userid, raced>>
  BY <1>2, AskFrame DEF gate, Served
<1>3. ASSUME NEW d \in Callers, Serve(d), Served(d)
      PROVE  /\ op'[c] = op[c] /\ own'[c] = own[c]
             /\ settings'[op[c].s] = settings[op[c].s]
             /\ userid'[op[c].s] = userid[op[c].s]
             /\ raced' = raced
  <2>1. d # c
    BY <1>3
  <2>2. op[d].s # op[c].s
    BY <1>3, <2>1 DEF AloneInv
  <2>3. BindUser(d) \/ UnBind(d) => userid'[op[c].s] = userid[op[c].s]
    BY <1>t, <2>2 DEF BindUser, UnBind
  <2>4. ~LookUp(d)
    BY <1>3 DEF LookUp, Served
  <2>5. QED
    BY <1>t, <1>3, <2>1, <2>2, <2>3, <2>4, ServeFrame
<1>4. ASSUME NEW d \in Callers, Serve(d), ~Served(d)
      PROVE  /\ op'[c] = op[c] /\ own'[c] = own[c]
             /\ UNCHANGED <<settings, userid>> /\ raced \subseteq raced'
  <2>1. raced \subseteq raced'
    BY <1>4, ServeFrame DEF LookUp
  <2>2. QED
    BY <1>4, <2>1, ServeFrame DEF gate
<1>5. QED
  BY <1>1, <1>2, <1>3, <1>4 DEF Next, vars

LEMMA StepOwn == TypeInv /\ UserInv /\ AloneInv /\ OwnInv /\ [Next]_vars => OwnInv'
<1> SUFFICES ASSUME TypeInv, UserInv, AloneInv, OwnInv, [Next]_vars, NEW c \in Callers
             PROVE  OwnAt(c)'
    BY DEF OwnInv
<1> DEFINE s == op[c].s
<1>t. /\ settings \in [Sessions -> Maps] /\ own \in [Callers -> Maps]
      /\ store \in [Users -> {Absent, None} \cup (Settings \ {Empty})]
      /\ ArgInv(c) /\ OwnAt(c)
  BY DEF TypeInv, TypeOK, Maps, OwnInv
<1>1. CASE ~Serve(c) /\ ~Served(c)
  <2>1. op'[c].at \in {"idle", "sent"}
    <3>1. ASSUME NEW d \in Callers, Ask(d) PROVE op'[c].at \in {"idle", "sent"}
      BY <1>1, <3>1, AskFrame DEF Served
    <3>2. ASSUME NEW d \in Callers, Serve(d) PROVE op'[c] = op[c]
      BY <1>1, <3>2, ServeFrame
    <3>3. ASSUME NEW q \in Sessions, Connect(q) \/ DisConnect(q) PROVE op'[c] = op[c]
      BY <3>3 DEF Connect, DisConnect
    <3>4. QED
      BY <1>1, <3>1, <3>2, <3>3 DEF Next, vars, Served
  <2>2. QED
    BY <2>1 DEF OwnAt, Served
<1>2. CASE ~Serve(c) /\ Served(c) /\ op[c].kind = "Bind" /\ s \notin raced
  <2>1. /\ op'[c] = op[c] /\ own'[c] = own[c] /\ settings'[s] = settings[s]
        /\ raced \subseteq raced'
    BY <1>2, LeftAlone
  <2>2. QED
    BY <1>t, <1>2, <2>1 DEF OwnAt, Served, Keeps, AsMap
<1>3. CASE ~Serve(c) /\ Served(c) /\ ~(op[c].kind = "Bind" /\ s \notin raced)
  <2>1. op'[c] = op[c] /\ raced \subseteq raced'
    <3>1. ASSUME NEW d \in Callers, Ask(d) PROVE op'[c] = op[c] /\ raced' = raced
      BY <1>3, <3>1, AskFrame DEF Served
    <3>2. ASSUME NEW d \in Callers, Serve(d) PROVE op'[c] = op[c] /\ raced \subseteq raced'
      BY <1>3, <3>2, ServeFrame DEF LookUp
    <3>3. ASSUME NEW q \in Sessions, Connect(q) \/ DisConnect(q)
          PROVE  op'[c] = op[c] /\ raced' = raced
      BY <3>3 DEF Connect, DisConnect
    <3>4. QED
      BY <1>3, <3>1, <3>2, <3>3 DEF Next, vars
  <2>2. QED
    BY <1>3, <2>1 DEF OwnAt
<1>4. CASE Serve(c)
  <2>1. s \in Sessions /\ settings[s] \in Maps /\ own[c] \in Maps
    BY <1>t, <1>4, ServeFrame
  <2>2. CASE LookUp(c)
    <3>1. op'[c].at = "found" /\ op'[c].s = s /\ op'[c].kind = op[c].kind
      BY <2>2, GotoStep DEF LookUp, Places
    <3>2. op[c].kind = "Bind" => own'[c] = AsMap(settings[s])
      BY <1>t, <2>2 DEF LookUp
    <3>3. settings' = settings
      BY <2>2 DEF LookUp, gate
    <3>4. QED
      BY <3>1, <3>2, <3>3 DEF OwnAt, AsMap
  <2>3. CASE BindUser(c)
    <3>1. op'[c].at = "check" /\ op'[c].s = s /\ op'[c].kind = op[c].kind /\ op[c].at = "found"
      BY <2>3, GotoStep DEF BindUser, Places, At
    <3>2. UNCHANGED <<settings, own, raced>>
      BY <2>3 DEF BindUser
    <3>3. QED
      BY <1>t, <3>1, <3>2 DEF OwnAt, Served, AsMap
  <2>4. CASE BindQueryNothing(c)
    <3>1. /\ op'[c].at = "answer" /\ op'[c].s = s /\ op'[c].kind = op[c].kind
          /\ op[c].at = "query"
      BY <2>4, GotoStep DEF BindQueryNothing, Places, At
    <3>2. UNCHANGED <<settings, own, raced>>
      BY <2>4 DEF BindQueryNothing, gate
    <3>3. QED
      BY <1>t, <3>1, <3>2 DEF OwnAt, Served, Keeps, AsMap
  <2>5. CASE BindQuery(c)
    <3> DEFINE old == store[op[c].arg]
               mine == settings[s]
    <3>1. /\ op[c].at = "query" /\ op[c].kind = "Bind"
          /\ op'[c].s = s /\ op'[c].kind = op[c].kind
          /\ op'[c].at \in {"restore", "store", "merge"}
          /\ op'[c].at = "restore" <=> mine = None
          /\ op'[c].arg = IF mine = None THEN old ELSE Merged(mine, old)
          /\ mine \in Maps /\ old \in Maps
      BY <2>5, BindQueryStep DEF BindQuery, At
    <3>2. UNCHANGED <<settings, own, raced>>
      BY <2>5 DEF BindQuery, gate
    <3>3. s \notin raced => own[c] = AsMap(mine)
      BY <1>t, <3>1 DEF OwnAt, Served
    <3>4. ASSUME mine # None PROVE Keeps(AsMap(mine), Merged(mine, old))
      <4>1. Merged(mine, old) # None
        BY <3>1, MapTypes, GateSessionsAssumption
      <4>2. QED
        BY <4>1 DEF Keeps, Merged, AsMap
    <3>5. Keeps(AsMap(mine), mine)
      BY DEF Keeps
    <3>6. QED
      <4> HIDE DEF old, mine
      <4>1. CASE mine = None
        BY <3>1, <3>2, <3>3, <4>1 DEF OwnAt, mine, AsMap
      <4>2. CASE mine # None
        <5>1. op'[c].at \in {"store", "merge"} /\ op'[c].arg = Merged(mine, old)
          BY <3>1, <4>2
        <5>2. s \notin raced => Keeps(own[c], mine) /\ Keeps(own[c], Merged(mine, old))
          BY <3>3, <3>4, <3>5, <4>2
        <5>3. settings'[s] = mine /\ own'[c] = own[c] /\ raced' = raced
          BY <3>2 DEF mine
        <5>4. QED
          BY <3>1, <5>1, <5>2, <5>3 DEF OwnAt, Keeps, AsMap
      <4>3. QED
        BY <4>1, <4>2
  <2>6. CASE BindRestore(c)
    <3>1. /\ op'[c].at = "answer" /\ op'[c].s = s /\ op'[c].kind = op[c].kind
          /\ op[c].at = "restore"
      BY <2>6, GotoStep DEF BindRestore, Places, At
    <3>2. UNCHANGED <<own, raced>>
      BY <2>6 DEF BindRestore
    <3>3. op[c].kind = "Bind" /\ s \notin raced => own[c] = Empty
      BY <1>t, <3>1 DEF OwnAt, Served, AsMap
    <3>4. QED
      BY <3>1, <3>2, <3>3 DEF OwnAt, Keeps, Empty
  <2>7. CASE BindMerge(c)
    <3>1. /\ op'[c].at = "store" /\ op'[c].s = s /\ op'[c].kind = op[c].kind
          /\ op[c].at = "merge"
      BY <2>7, GotoStep DEF BindMerge, Places, At
    <3>2. UNCHANGED <<own, raced>> /\ settings'[s] = op[c].arg
      BY <1>t, <2>1, <2>7 DEF BindMerge
    <3>3. QED
      BY <1>t, <3>1, <3>2 DEF OwnAt, Served, Keeps, AsMap
  <2>8. CASE StoreFor(c) \/ StorageReads(c) \/ StorageWrites(c)
    <3>1. /\ op'[c].at \in {"read", "write", "answer"} /\ op'[c].s = s
          /\ op'[c].kind = op[c].kind /\ op[c].at \in {"store", "read", "write"}
      BY <2>8, StorageStep
    <3>2. UNCHANGED <<own, raced, settings>>
      BY <2>8 DEF StoreFor, StorageReads, StorageWrites, gate
    <3>3. QED
      BY <1>t, <3>1, <3>2 DEF OwnAt, Served, Keeps, AsMap
  <2>9. CASE NotFound(c) \/ Answer(c)
    <3>1. op'[c] = Idle
      BY <2>9, IdleOp, CallStep DEF NotFound, Answer
    <3>2. QED
      BY <3>1 DEF OwnAt, Served, Idle
  <2>10. CASE Update(c) \/ UnBind(c) \/ Set(c) \/ Remove(c) \/ Push(c) \/ Close(c)
    <3>1. op[c].kind # "Bind"
      BY <2>10 DEF Update, UnBind, Set, Remove, Push, Change, Close, At
    <3>2. QED
      BY <1>4, <3>1, ServeFrame DEF OwnAt, Served
  <2>11. CASE BindCheck(c)
    <3> DEFINE at == IF userid[op[c].s] # None THEN "query" ELSE "answer"
    <3>1. at \in {"query", "answer"} /\ Goto(c, at) /\ op[c].at = "check"
      BY <2>11 DEF BindCheck, At
    <3> HIDE DEF at
    <3>2. op'[c].at = at /\ op'[c].s = s /\ op'[c].kind = op[c].kind
      BY <3>1, GotoStep DEF Places
    <3>3. UNCHANGED <<settings, own, raced>>
      BY <2>11 DEF BindCheck, gate
    <3>4. QED
      BY <1>t, <3>1, <3>2, <3>3 DEF OwnAt, Served, Keeps, AsMap
  <2>12. QED
    BY <1>4, <2>2, <2>3, <2>4, <2>5, <2>6, <2>7, <2>8, <2>9, <2>10, <2>11 DEF Serve
<1>5. QED
  BY <1>1, <1>2, <1>3, <1>4

-----------------------------------------------------------------------------
(* The storage.                                                            *)

\* Only calls on a session of the user change what is stored for the user.
LEMMA StoreFrame ==
    ASSUME TypeInv, UserInv, NEW s \in Sessions, userid[s] # None,
           NEW d \in Callers, Serve(d), op[d].s # s, binders'[userid[s]] = {s}
    PROVE  /\ store'[userid[s]] = store[userid[s]] /\ binders[userid[s]] = {s}
           /\ op[d].user # userid[s]
           /\ userid[s] \in overtaken' <=> userid[s] \in overtaken
<1>t. /\ userid \in [Sessions -> Users \cup {None}]
      /\ store \in [Users -> {Absent, None} \cup (Settings \ {Empty})]
      /\ binders \in [Users -> SUBSET Sessions]
      /\ op[d].s \in Sessions
  BY ServeFrame DEF TypeInv, TypeOK
<1>1. binders[userid[s]] \subseteq binders'[userid[s]]
  <2>1. CASE BindUser(d)
    <3>1. binders' = [binders EXCEPT ![op[d].arg] = @ \cup {op[d].s}]
      BY <2>1 DEF BindUser
    <3>2. QED
      BY <1>t, <3>1
  <2>2. CASE UnBind(d)
    BY <2>2 DEF UnBind
  <2>3. QED
    BY <2>1, <2>2, ServeFrame
<1>2. binders[userid[s]] = {s}
  BY <1>1 DEF UserInv
<1>3. op[d].user # userid[s]
  BY <1>2 DEF UserInv
<1>4. CASE StorageWrites(d)
  <2>1. store'[userid[s]] = store[userid[s]]
    BY <1>t, <1>3, <1>4 DEF StorageWrites
  <2>2. \/ overtaken' = overtaken \cup {op[d].user}
        \/ overtaken' = overtaken \ {op[d].user}
        \/ overtaken' = overtaken
    BY <1>4 DEF StorageWrites
  <2>3. QED
    BY <1>2, <1>3, <2>1, <2>2
<1>5. CASE ~StorageWrites(d)
  <2>1. overtaken' = overtaken
    BY <1>5, ServeFrame DEF StorageReads, order
  <2>2. QED
    BY <1>2, <1>3, <1>5, <2>1, ServeFrame
<1>6. QED
  BY <1>4, <1>5

LEMMA StepBind ==
    TypeInv /\ UserInv /\ AloneInv /\ BindInv /\ [Next]_vars => BindInv'
<1> SUFFICES ASSUME TypeInv, UserInv, AloneInv, BindInv, [Next]_vars, NEW c \in Callers
             PROVE  BindAt(c)'
    BY DEF BindInv
<1> DEFINE s == op[c].s
<1>t. /\ userid \in [Sessions -> Users \cup {None}]
      /\ store \in [Users -> {Absent, None} \cup (Settings \ {Empty})]
      /\ ArgInv(c) /\ BindAt(c)
  BY DEF TypeInv, TypeOK, BindInv
<1>r. ~Serve(c) => \/ op'[c] = op[c] /\ raced \subseteq raced'
                   \/ op[c].at = "idle" /\ op'[c].at = "sent"
  <2>1. ASSUME NEW d \in Callers, Ask(d)
        PROVE  raced' = raced /\ (op'[c] = op[c] \/ (op[c].at = "idle" /\ op'[c].at = "sent"))
    BY <2>1, AskFrame
  <2>2. ASSUME NEW d \in Callers, Serve(d), ~Serve(c)
        PROVE  op'[c] = op[c] /\ raced \subseteq raced'
    BY <2>2, ServeFrame DEF LookUp
  <2>3. ASSUME NEW q \in Sessions, Connect(q) \/ DisConnect(q)
        PROVE  op'[c] = op[c] /\ raced' = raced
    BY <2>3 DEF Connect, DisConnect
  <2>4. QED
    BY <2>1, <2>2, <2>3 DEF Next, vars
<1>1. CASE ~Serve(c) /\ ~Served(c)
  BY <1>1, <1>r DEF BindAt, Served
<1>2. CASE ~Serve(c) /\ Served(c) /\ op[c].kind = "Bind"
  <2> SUFFICES ASSUME s \notin raced' PROVE BindAt(c)'
      BY <1>2, <1>r DEF BindAt, Served
  <2>1. op'[c] = op[c] /\ raced \subseteq raced'
    BY <1>2, <1>r DEF Served
  <2>2. s \notin raced /\ s \in Sessions
    BY <1>t, <1>2, <2>1 DEF ArgInv, Served
  <2>3. userid'[s] = userid[s]
    BY <1>2, <2>2, LeftAlone
  <2>4. ASSUME userid[s] # None, binders'[userid[s]] = {s}
        PROVE  store'[userid[s]] = store[userid[s]] /\ binders[userid[s]] = {s}
    <3>1. ASSUME NEW d \in Callers, Ask(d) PROVE UNCHANGED <<store, binders>>
      BY <3>1, AskFrame DEF gate
    <3>2. ASSUME NEW q \in Sessions, Connect(q) \/ DisConnect(q)
          PROVE  UNCHANGED <<store, binders>>
      BY <3>2 DEF Connect, DisConnect
    <3>3. ASSUME NEW d \in Callers, Serve(d), ~Served(d) PROVE UNCHANGED <<store, binders>>
      BY <3>3, ServeFrame DEF gate
    <3>4. ASSUME NEW d \in Callers, Serve(d), Served(d)
          PROVE  store'[userid[s]] = store[userid[s]] /\ binders[userid[s]] = {s}
      <4>1. op[d].s # s
        BY <1>2, <2>2, <3>4 DEF AloneInv
      <4>2. QED
        BY <2>2, <2>4, <3>4, <4>1, StoreFrame
    <3>5. QED
      BY <2>4, <3>1, <3>2, <3>3, <3>4 DEF Next, vars
  <2>5. QED
    BY <1>t, <2>1, <2>2, <2>3, <2>4 DEF BindAt
<1>3. CASE ~Serve(c) /\ Served(c) /\ op[c].kind # "Bind"
  <2> SUFFICES ASSUME s \notin raced', userid'[s] # None, op[c].at \in {"read", "write"}
               PROVE  userid'[s] = op[c].user
      BY <1>t, <1>3, <1>r DEF BindAt, Served, ArgInv
  <2>1. op'[c] = op[c] /\ s \notin raced /\ s \in Sessions
    BY <1>t, <1>3, <1>r DEF Served, ArgInv
  <2>2. userid'[s] = userid[s]
    <3>1. ASSUME NEW d \in Callers, Ask(d) PROVE userid' = userid
      BY <3>1, AskFrame DEF gate
    <3>2. ASSUME NEW q \in Sessions, Connect(q) \/ DisConnect(q) PROVE userid' = userid
      BY <3>2 DEF Connect, DisConnect
    <3>3. ASSUME NEW d \in Callers, BindUser(d) PROVE userid'[s] = userid[s]
      <4>1. Served(d) /\ op[d].kind = "Bind" /\ userid' = [userid EXCEPT ![op[d].s] = op[d].arg]
        BY <3>3 DEF BindUser, At, Served
      <4>2. op[d].s # s
        BY <1>3, <2>1, <4>1 DEF AloneInv
      <4>3. QED
        BY <1>t, <2>1, <4>1, <4>2
    <3>4. ASSUME NEW d \in Callers, UnBind(d) PROVE userid'[s] = userid[s]
      BY <1>t, <2>1, <3>4 DEF UnBind
    <3>5. ASSUME NEW d \in Callers, Serve(d) PROVE userid'[s] = userid[s]
      BY <3>3, <3>4, <3>5, ServeFrame
    <3>6. QED
      BY <3>1, <3>2, <3>5 DEF Next, vars
  <2>3. QED
    BY <1>t, <2>1, <2>2 DEF BindAt
<1>4. CASE Serve(c)
  <2>1. s \in Sessions
    BY <1>4, ServeFrame
  <2>2. CASE BindUser(c)
    <3>1. /\ op'[c].at = "check" /\ op'[c].s = s /\ op'[c].arg = op[c].arg
      BY <2>2, GotoStep DEF BindUser, Places
    <3>2. userid'[s] = op[c].arg
      BY <1>t, <2>1, <2>2 DEF BindUser
    <3>3. QED
      BY <3>1, <3>2 DEF BindAt
  <2>3. CASE BindCheck(c)
    <3> DEFINE at == IF userid[s] # None THEN "query" ELSE "answer"
    <3>1. at \in {"query", "answer"} /\ Goto(c, at) /\ op[c].at = "check"
          /\ UNCHANGED <<userid, raced>>
      BY <2>3 DEF BindCheck, At, gate
    <3> HIDE DEF at
    <3>2. op'[c].at = at /\ op'[c].s = s /\ op'[c].arg = op[c].arg
      BY <3>1, GotoStep DEF Places
    <3>3. QED
      BY <1>t, <3>1, <3>2 DEF BindAt
  <2>4. CASE BindQuery(c)
    <3>1. /\ op[c].at = "query" /\ op'[c].s = s /\ op'[c].at \in {"restore", "store", "merge"}
          /\ op'[c].at = "restore" => op'[c].arg = store[op[c].arg]
          /\ op'[c].user = op[c].arg
      BY <2>4, BindQueryStep DEF BindQuery, At
    <3>2. UNCHANGED <<userid, store, raced, binders>>
      BY <2>4 DEF BindQuery, gate
    <3>3. QED
      BY <1>t, <3>1, <3>2 DEF BindAt
  <2>5. CASE BindMerge(c)
    <3>1. /\ op'[c].at = "store" /\ op'[c].s = s /\ op'[c].user = op[c].user
          /\ op[c].at = "merge" /\ op[c].kind = "Bind" /\ UNCHANGED <<userid, raced>>
      BY <2>5, GotoStep DEF BindMerge, Places, At
    <3>2. QED
      BY <1>t, <3>1 DEF BindAt
  <2>6. CASE StoreFor(c)
    <3>1. /\ op[c].at = "store" /\ op'[c].at = "read" /\ op'[c].s = s
          /\ op'[c].user = IF op[c].kind = "Bind" THEN op[c].user ELSE userid[s]
          /\ UNCHANGED <<userid, raced>>
      BY <2>6, StorageStep DEF StoreFor, gate
    <3>2. QED
      BY <1>t, <3>1 DEF BindAt
  <2>7. CASE StorageReads(c)
    <3>1. /\ op[c].at = "read" /\ op'[c].at = "write" /\ op'[c].s = s
          /\ op'[c].user = op[c].user /\ UNCHANGED <<userid, raced>>
      BY <2>7, StorageStep DEF StorageReads
    <3>2. QED
      BY <1>t, <3>1 DEF BindAt
  <2>8. CASE Set(c) \/ Remove(c) \/ Push(c)
    <3> DEFINE at == IF userid[s] # None THEN "store" ELSE "answer"
    <3>1. /\ at \in {"store", "answer"} /\ Goto(c, at) /\ op[c].kind # "Bind"
      BY <2>8 DEF Set, Remove, Push, Change, At
    <3> HIDE DEF at
    <3>2. op'[c].at = at /\ op'[c].kind # "Bind"
      BY <3>1, GotoStep DEF Places
    <3>3. QED
      BY <3>1, <3>2 DEF BindAt
  <2>9. CASE NotFound(c) \/ Answer(c)
    <3>1. op'[c] = Idle
      BY <2>9, IdleOp, CallStep DEF NotFound, Answer
    <3>2. QED
      BY <3>1 DEF BindAt, Idle
  <2>10. CASE \/ LookUp(c) \/ Update(c) \/ BindQueryNothing(c) \/ BindRestore(c)
              \/ UnBind(c) \/ Close(c) \/ StorageWrites(c)
    <3>1. op'[c].at \in {"found", "answer"}
      BY <2>10, GotoStep, StorageStep DEF Places, LookUp, Update, BindQueryNothing, BindRestore,
             UnBind, Close
    <3>2. QED
      BY <3>1 DEF BindAt
  <2>11. QED
    BY <1>4, <2>2, <2>3, <2>4, <2>5, <2>6, <2>7, <2>8, <2>9, <2>10 DEF Serve
<1>5. QED
  BY <1>1, <1>2, <1>3, <1>4

\* Only the storage's reading and writing make and end a call that is about to write.
LEMMA WriteFrame ==
    ASSUME TypeInv, NEW c \in Callers, Serve(c), ~StorageReads(c), ~StorageWrites(c)
    PROVE  op[c].at # "write" /\ op'[c].at # "write" /\ UNCHANGED order
<1>1. op[c].at # "write"
  BY DEF Serve, NotFound, LookUp, Update, BindUser, BindCheck, BindQueryNothing, BindQuery,
         BindRestore, BindMerge, UnBind, Set, Remove, Push, Change, Close, StoreFor, Answer, At
<1>2. ASSUME NEW at \in Places \ {"write"}, Goto(c, at) PROVE op'[c].at # "write"
  BY <1>2, GotoStep
<1>3. CASE NotFound(c) \/ Answer(c)
  <2>1. op'[c] = Idle
    BY <1>3, IdleOp, CallStep DEF NotFound, Answer
  <2>2. QED
    BY <1>1, <2>1, ServeFrame DEF Idle
<1>4. CASE BindQuery(c)
  BY <1>1, <1>4, BindQueryStep, ServeFrame
<1>5. CASE StoreFor(c)
  BY <1>1, <1>5, StorageStep, ServeFrame
<1>6. CASE Set(c) \/ Remove(c) \/ Push(c)
  <2>1. Goto(c, "store") \/ Goto(c, "answer")
    BY <1>6 DEF Set, Remove, Push, Change
  <2>2. QED
    BY <1>1, <1>2, <2>1, ServeFrame DEF Places
<1>7. CASE \/ LookUp(c) \/ Update(c) \/ BindUser(c) \/ BindCheck(c) \/ BindQueryNothing(c)
           \/ BindRestore(c) \/ BindMerge(c) \/ UnBind(c) \/ Close(c)
  <2>1. \/ Goto(c, "found") \/ Goto(c, "check") \/ Goto(c, "query") \/ Goto(c, "answer")
        \/ Goto(c, "store")
    BY <1>7 DEF LookUp, Update, BindUser, BindCheck, BindQueryNothing, BindRestore,
           BindMerge, UnBind, Close
  <2>2. QED
    BY <1>1, <1>2, <2>1, ServeFrame DEF Places
<1>8. QED
  BY <1>3, <1>4, <1>5, <1>6, <1>7 DEF Serve

LEMMA StepOrder == TypeInv /\ OrderInv /\ [Next]_vars => OrderInv'
<1> SUFFICES ASSUME TypeInv, OrderInv, [Next]_vars PROVE OrderInv'
    OBVIOUS
<1>t. older \in [Callers -> SUBSET Callers]
  BY DEF TypeInv, TypeOK
<1>i. ASSUME UNCHANGED order, \A d \in Callers : Writing(d)' <=> Writing(d) PROVE OrderInv'
  BY <1>i DEF OrderInv, order
<1>1. ASSUME NEW q \in Sessions, Connect(q) \/ DisConnect(q) PROVE OrderInv'
  BY <1>i, <1>1 DEF Connect, DisConnect, Writing
<1>2. ASSUME NEW c \in Callers, Ask(c) PROVE OrderInv'
  BY <1>i, <1>2, AskFrame DEF Writing, gate
<1>3. ASSUME NEW c \in Callers, Serve(c) PROVE OrderInv'
  <2>1. \A d \in Callers \ {c} : Writing(d)' <=> Writing(d)
    BY <1>3, ServeFrame DEF Writing
  <2>2. CASE StorageReads(c)
    <3>1. /\ ~Writing(c) /\ Writing(c)'
          /\ older'[c] = {d \in Callers : Writing(d)}
          /\ \A d \in Callers \ {c} : older'[d] = older[d]
          /\ late' = late
      BY <1>t, <2>2, StorageStep DEF StorageReads, Writing
    <3>2. QED
      BY <2>1, <3>1 DEF OrderInv
  <2>3. CASE StorageWrites(c)
    <3>1. /\ Writing(c) /\ ~Writing(c)'
          /\ older'[c] = {}
          /\ \A d \in Callers \ {c} : older'[d] = older[d] \ {c}
          /\ late' \subseteq (late \ {c}) \cup older[c]
      BY <1>t, <2>3, StorageStep DEF StorageWrites, Writing
    <3>2. QED
      BY <2>1, <3>1 DEF OrderInv
  <2>4. CASE ~StorageReads(c) /\ ~StorageWrites(c)
    BY <1>3, <1>i, <2>1, <2>4, WriteFrame DEF Writing
  <2>5. QED
    BY <2>2, <2>3, <2>4
<1>4. CASE UNCHANGED vars
  BY <1>i, <1>4 DEF vars, Writing
<1>5. QED
  BY <1>1, <1>2, <1>3, <1>4 DEF Next

\* What is stored for the user of a session that has the user alone is never left behind.
LEMMA StepStore == IInv /\ [Next]_vars => StoreInv'
<1> SUFFICES ASSUME IInv, [Next]_vars, NEW s \in Sessions, s \notin raced',
                    userid'[s] # None, binders'[userid'[s]] = {s}, failures' = 0
             PROVE  Kept(s)'
    BY DEF StoreInv
<1>t. /\ TypeInv /\ UserInv /\ AloneInv /\ BindInv /\ OrderInv
      /\ settings \in [Sessions -> Maps]
      /\ userid \in [Sessions -> Users \cup {None}]
      /\ store \in [Users -> {Absent, None} \cup (Settings \ {Empty})]
      /\ op \in [Callers -> Ops] /\ \A c \in Callers : ArgInv(c)
      /\ older \in [Callers -> SUBSET Callers]
  BY DEF IInv, TypeInv, TypeOK, Maps
<1>i. ASSUME s \notin raced, failures = 0, userid'[s] = userid[s],
             binders[userid[s]] = {s}, store'[userid[s]] = store[userid[s]],
             settings'[s] = settings[s],
             userid[s] \in overtaken' <=> userid[s] \in overtaken,
             \A d \in Callers :
                op[d].s = s /\ op[d].at \in {"check", "query", "restore", "merge", "store",
                                             "read", "write"} => op'[d] = op[d],
             \A d \in Callers : op'[d].s = s /\ Writing(d)' => op'[d] = op[d],
             \A d \in Callers : op[d].s = s /\ Writing(d) =>
                (d \in late' <=> d \in late) /\ older'[d] \subseteq older[d]
      PROVE  Kept(s)'
  <2>1. Kept(s)
    BY <1>i DEF IInv, StoreInv
  <2>2. CASE Todo(s)
    <3>1. Todo(s)'
      BY <1>i, <2>2 DEF Todo
    <3>2. QED
      BY <3>1 DEF Kept
  <2>3. CASE \E c \in Callers : Newest(s, c)
    <3>1. PICK c \in Callers : Newest(s, c)
      BY <2>3
    <3>2. op'[c] = op[c] /\ op[c].s = s /\ Writing(c) /\ c \notin late'
      BY <1>i, <3>1 DEF Newest, Writing
    <3>3. Current(c)'
      BY <1>i, <3>1, <3>2 DEF Newest, Current, Decoded, AsMap
    <3>4. ASSUME NEW d \in Callers, op'[d].s = s, Writing(d)' PROVE c \notin older'[d]
      <4>1. op'[d] = op[d] /\ op[d].s = s /\ Writing(d)
        BY <1>i, <3>4 DEF Writing
      <4>2. QED
        BY <1>i, <3>1, <4>1 DEF Newest
    <3>5. Newest(s, c)'
      BY <3>2, <3>3, <3>4 DEF Newest, Writing
    <3>6. QED
      BY <3>5 DEF Kept
  <2>4. CASE Settled(s)
    <3>1. userid'[s] \in overtaken' \/ Stored(s)'
      BY <1>i, <2>4 DEF Settled, Stored, Decoded, AsMap
    <3>2. ASSUME NEW d \in Callers, op'[d].s = s, Writing(d)' PROVE d \in late' \/ Current(d)'
      <4>1. op'[d] = op[d] /\ op[d].s = s /\ Writing(d)
        BY <1>i, <3>2 DEF Writing
      <4>2. QED
        BY <1>i, <2>4, <4>1 DEF Settled, Current, Decoded, AsMap
    <3>3. QED
      BY <3>1, <3>2 DEF Settled, Kept
  <2>5. QED
    BY <2>1, <2>2, <2>3, <2>4 DEF Kept
<1>1. ASSUME NEW q \in Sessions, Connect(q) \/ DisConnect(q) PROVE Kept(s)'
  <2>1. UNCHANGED <<op, userid, store, failures, binders, raced, late, older, overtaken>>
    BY <1>1 DEF Connect, DisConnect, order
  <2>2. settings'[s] = settings[s]
    BY <1>t, <1>1, <2>1 DEF Connect, DisConnect, UserInv
  <2>3. QED
    BY <1>i, <2>1, <2>2
<1>2. ASSUME NEW c \in Callers, Ask(c) PROVE Kept(s)'
  <2>1. /\ UNCHANGED <<userid, store, failures, binders, raced, settings, late, older, overtaken>>
        /\ \A d \in Callers : op'[d] # op[d] => op[d].at = "idle" /\ op'[d].at = "sent"
    BY <1>t, <1>2, AskFrame DEF gate, order
  <2>2. QED
    BY <1>i, <2>1 DEF Writing
<1>3. ASSUME NEW c \in Callers, Serve(c), op[c].s # s PROVE Kept(s)'
  <2>1. op[c].s \in Sessions /\ s \notin raced /\ failures = 0
    BY <1>t, <1>3, ServeFrame DEF LookUp
  <2>2. userid'[s] = userid[s]
    BY <1>t, <1>3, <2>1, ServeFrame DEF BindUser, UnBind
  <2>3. /\ store'[userid[s]] = store[userid[s]] /\ binders[userid[s]] = {s}
        /\ op[c].user # userid[s]
        /\ userid[s] \in overtaken' <=> userid[s] \in overtaken
    BY <1>t, <1>3, <2>2, StoreFrame
  <2>4. /\ settings'[s] = settings[s]
        /\ \A d \in Callers \ {c} : op'[d] = op[d]
        /\ op'[c].s # s \/ op'[c].at = "idle"
    BY <1>t, <1>3, ServeFrame
  <2>5. ASSUME NEW d \in Callers, op[d].s = s, Writing(d)
        PROVE  (d \in late' <=> d \in late) /\ older'[d] \subseteq older[d]
    <3>1. d # c /\ op[d].user = userid[s]
      BY <1>3, <2>1, <2>2, <2>5, <1>t DEF BindInv, BindAt, Writing
    <3>2. CASE StorageReads(c)
      BY <1>t, <3>1, <3>2 DEF StorageReads
    <3>3. CASE StorageWrites(c)
      <4>1. older'[d] = older[d] \ {c}
        BY <3>1, <3>3 DEF StorageWrites
      <4>2. \/ late' = late \ {c}
            \/ late' = (late \ {c}) \cup {e \in older[c] : op[e].user = op[c].user}
        BY <3>3 DEF StorageWrites
      <4>3. QED
        BY <2>3, <3>1, <4>1, <4>2
    <3>4. CASE ~StorageReads(c) /\ ~StorageWrites(c)
      BY <1>3, <1>t, <3>4, WriteFrame DEF order
    <3>5. QED
      BY <3>2, <3>3, <3>4
  <2>6. QED
    BY <1>i, <1>3, <2>1, <2>2, <2>3, <2>4, <2>5 DEF Writing
<1>4. ASSUME NEW c \in Callers, Serve(c), op[c].s = s PROVE Kept(s)'
  <2>1. s \notin raced /\ failures = 0 /\ ArgInv(c) /\ BindAt(c)
    BY <1>t, <1>4, ServeFrame DEF LookUp, BindInv
  <2>f. \A d \in Callers \ {c} : op'[d] = op[d]
    BY <1>t, <1>4, ServeFrame
  <2>2. ASSUME NEW at \in {"check", "query", "store"}, Goto(c, at) PROVE Kept(s)'
    BY <1>t, <1>4, <2>2, GotoStep DEF Kept, Todo, Places
  <2>3. CASE BindUser(c) \/ BindMerge(c)
    BY <2>2, <2>3 DEF BindUser, BindMerge
  <2>4. CASE BindCheck(c)
    <3>1. userid[s] # None
      BY <2>4 DEF BindCheck, gate
    <3>2. Goto(c, "query")
      BY <1>4, <2>4, <3>1 DEF BindCheck
    <3>3. QED
      BY <2>2, <3>2
  <2>5. CASE BindQuery(c)
    BY <1>t, <1>4, <2>5, BindQueryStep DEF Kept, Todo
  <2>6. CASE Set(c) \/ Remove(c) \/ Push(c)
    BY <1>4, <2>2, <2>6 DEF Set, Remove, Push, Change
  <2>7. CASE UnBind(c)
    BY <1>t, <1>4, <2>7 DEF UnBind
  <2>a. ASSUME Served(c), op[c].kind = "Bind", Stored(s)', ~Writing(c)' PROVE Kept(s)'
    <3>1. \A d \in Callers : ~(op'[d].s = s /\ Writing(d)')
      BY <1>4, <1>t, <2>1, <2>f, <2>a DEF AloneInv, Served, Writing
    <3>2. QED
      BY <2>a, <3>1 DEF Kept, Settled
  <2>8. CASE BindQueryNothing(c)
    <3>1. /\ userid' = userid /\ store' = store /\ store[op[c].arg] = Absent
          /\ op[c].at = "query" /\ op[c].kind = "Bind"
      BY <1>t, <2>1, <2>8 DEF BindQueryNothing, gate, At, TypeInv, TypeOK
    <3>2. userid[s] = op[c].arg
      BY <1>4, <2>1, <3>1 DEF BindAt
    <3>3. Stored(s)'
      BY <3>1, <3>2 DEF Stored
    <3>4. ~Writing(c)'
      BY <1>t, <2>8, GotoStep DEF BindQueryNothing, Places, Writing
    <3>5. QED
      BY <2>a, <3>1, <3>3, <3>4 DEF Served
  <2>9. CASE BindRestore(c)
    <3>1. /\ UNCHANGED <<userid, store, binders>>
          /\ settings'[s] = op[c].arg /\ op[c].at = "restore" /\ op[c].kind = "Bind"
      BY <1>t, <1>4, <2>9 DEF BindRestore, At
    <3>2. store[userid[s]] = op[c].arg
      BY <1>4, <2>1, <3>1 DEF BindAt
    <3>3. store[userid[s]] \in {Absent, None} \cup (Settings \ {Empty})
      BY <1>t, <3>1
    <3>4. store[userid[s]] = Absent \/ store[userid[s]] = Decoded(AsMap(op[c].arg))
      BY <3>2, <3>3, RestoredIsStored
    <3>5. Stored(s)'
      BY <3>1, <3>4 DEF Stored, Decoded, AsMap
    <3>6. ~Writing(c)'
      BY <1>t, <2>9, GotoStep DEF BindRestore, Places, Writing
    <3>7. QED
      BY <2>a, <3>1, <3>5, <3>6 DEF Served
  <2>10. CASE StoreFor(c)
    BY <1>t, <1>4, <2>10, StorageStep DEF Kept, Todo
  <2>11. CASE StorageReads(c)
    <3>1. /\ op[c].at = "read" /\ Writing(c)' /\ op'[c].s = s /\ op'[c].image = settings[s]
          /\ settings' = settings /\ late' = late
          /\ older'[c] = {d \in Callers : Writing(d)}
          /\ \A d \in Callers \ {c} : older'[d] = older[d]
      <4>1. /\ op[c].at = "read" /\ op'[c].at = "write" /\ op'[c].s = s
            /\ op'[c].image = settings[s]
        BY <1>t, <1>4, <2>11, StorageStep
      <4>2. /\ settings' = settings /\ late' = late
            /\ older' = [older EXCEPT ![c] = {d \in Callers : op[d].at = "write"}]
        BY <2>11 DEF StorageReads
      <4>3. QED
        BY <1>t, <4>1, <4>2 DEF Writing
    <3>2. c \notin late' /\ \A d \in Callers : c \notin older'[d]
      BY <1>t, <3>1 DEF OrderInv, Writing
    <3>3. settings[s] \in Maps
      BY <1>t
    <3>4. Current(c)'
      BY <3>1, <3>3, SessionDecoded DEF Current, Decoded, AsMap
    <3>5. Newest(s, c)'
      BY <3>1, <3>2, <3>4 DEF Newest
    <3>6. QED
      BY <3>5 DEF Kept
  <2>12. CASE StorageWrites(c)
    <3> DEFINE u == userid[s]
    <3>1. /\ userid' = userid /\ settings' = settings /\ u \in Users /\ Writing(c)
      BY <1>t, <2>12 DEF StorageWrites, Writing
    <3>2. ASSUME NEW d \in Callers, op[d].s = s, Writing(d) PROVE op[d].user = u
      BY <1>t, <2>1, <3>1, <3>2 DEF BindInv, BindAt, Writing
    <3>3. /\ store'[u] = Decoded(op[c].image)
          /\ late' = (late \ {c}) \cup {d \in older[c] : op[d].user = u}
          /\ c \in late => u \in overtaken'
      <4>1. op[c].user = u /\ u # None
        BY <1>4, <3>1, <3>2
      <4>2. failures' # failures + 1
        BY <2>1
      <4>3. QED
        BY <1>t, <2>12, <3>1, <4>1, <4>2 DEF StorageWrites
    <3>4. \A d \in Callers \ {c} : older'[d] = older[d] \ {c}
      BY <2>12 DEF StorageWrites
    <3>5. ~Writing(c)'
      BY <1>t, <2>12, StorageStep DEF Writing
    <3>6. Kept(s)
      BY <1>t, <2>1, <3>1, <2>12 DEF IInv, StoreInv, StorageWrites
    <3> HIDE DEF u
    <3>c. \A d \in Callers \ {c} : Current(d)' <=> Current(d)
      BY <2>f, <3>1 DEF Current, Decoded, AsMap
    <3>7. CASE Todo(s)
      <4>1. Todo(s)'
        BY <2>f, <3>1, <3>7 DEF Todo, Writing
      <4>2. QED
        BY <4>1 DEF Kept
    <3>8. CASE Newest(s, c)
      <4>1. Stored(s)'
        BY <1>4, <3>1, <3>3, <3>8 DEF Newest, Current, Stored, Decoded, AsMap, u
      <4>2. ASSUME NEW d \in Callers, op'[d].s = s, Writing(d)' PROVE d \in late'
        <5>1. d # c /\ op[d].s = s /\ Writing(d)
          BY <2>f, <3>5, <4>2 DEF Writing
        <5>2. d \in older[c] /\ op[d].user = u
          BY <1>t, <3>1, <3>2, <3>8, <5>1 DEF OrderInv, Newest
        <5>3. QED
          BY <3>3, <5>2
      <4>3. QED
        BY <4>1, <4>2 DEF Kept, Settled
    <3>9. ASSUME NEW e \in Callers \ {c}, Newest(s, e) PROVE Kept(s)'
      <4>1. op'[e] = op[e] /\ op[e].s = s /\ Writing(e) /\ Current(e)'
        BY <2>f, <3>9, <3>c DEF Newest
      <4>2. e \notin late'
        BY <1>4, <3>1, <3>3, <3>9 DEF Newest
      <4>3. ASSUME NEW d \in Callers, op'[d].s = s, Writing(d)' PROVE e \notin older'[d]
        BY <2>f, <3>4, <3>5, <3>9, <4>3 DEF Newest, Writing
      <4>4. Newest(s, e)'
        BY <4>1, <4>2, <4>3 DEF Newest, Writing
      <4>5. QED
        BY <4>4 DEF Kept
    <3>10. CASE Settled(s)
      <4>1. c \in late \/ Current(c)
        BY <1>4, <3>1, <3>10 DEF Settled
      <4>2. Current(c) => Stored(s)'
        BY <1>4, <3>1, <3>3 DEF Current, Stored, Decoded, AsMap, u
      <4>3. ASSUME NEW d \in Callers, op'[d].s = s, Writing(d)' PROVE d \in late' \/ Current(d)'
        <5>1. d # c /\ op[d].s = s /\ Writing(d)
          BY <2>f, <3>5, <4>3 DEF Writing
        <5>2. QED
          BY <3>3, <3>10, <3>c, <5>1 DEF Settled
      <4>4. userid'[s] \in overtaken' \/ Stored(s)'
        BY <3>1, <3>3, <4>1, <4>2 DEF u
      <4>5. QED
        BY <4>3, <4>4 DEF Kept, Settled
    <3>11. QED
      BY <3>6, <3>7, <3>8, <3>9, <3>10 DEF Kept
  <2>13. CASE NotFound(c) \/ LookUp(c) \/ Update(c) \/ Close(c) \/ Answer(c)
    <3>1. /\ UNCHANGED <<userid, settings, store, binders, late, older, overtaken>>
          /\ op[c].at \in {"sent", "found", "answer"}
          /\ ~StorageReads(c) /\ ~StorageWrites(c)
      BY <2>13 DEF NotFound, LookUp, Update, Close, Answer, gate, order, At, StorageReads,
             StorageWrites
    <3>2. op'[c].at # "write"
      BY <1>t, <1>4, <3>1, WriteFrame
    <3>3. QED
      BY <1>t, <1>i, <1>4, <2>1, <2>f, <3>1, <3>2 DEF Writing
  <2>14. QED
    BY <1>4, <2>3, <2>4, <2>5, <2>6, <2>7, <2>8, <2>9, <2>10, <2>11, <2>12, <2>13 DEF Serve
<1>5. CASE UNCHANGED vars
  <2>1. UNCHANGED <<op, userid, settings, store, failures, binders, raced, late, older, overtaken>>
    BY <1>5 DEF vars, order
  <2>2. QED
    BY <1>i, <2>1
<1>6. QED
  BY <1>1, <1>2, <1>3, <1>4, <1>5 DEF Next

-----------------------------------------------------------------------------
(* The theorems.                                                           *)

\* The strengthening of the three invariants below is inductive.
THEOREM InvariantHolds == Spec => []IInv
<1>1. IInv /\ [Next]_vars => IInv'
  BY StepType, StepUser, StepAlone, StepOwn, StepBind, StepOrder, StepStore DEF IInv
<1>2. QED
  BY <1>1, InitIInv, PTL DEF Spec

\* The variables keep their types: the gate's table holds only agents that run, and
\* only settings that can be decoded are stored.
THEOREM TypeCorrect == Spec => []TypeOK
<1>1. IInv => TypeOK
  BY DEF IInv, TypeInv
<1>2. QED
  BY <1>1, InvariantHolds, PTL

\* A Bind that shares its session with no other call answers with every setting that
\* it found in the session, whatever was stored for the user.
THEOREM NothingLostByBind == Spec => []BindKeepsOwn
<1>1. IInv => BindKeepsOwn
  BY DEF IInv, OwnInv, OwnAt, BindKeepsOwn, Keeps, At, Served
<1>2. QED
  BY <1>1, InvariantHolds, PTL

\* When every call on a session is answered the storage holds what the session holds,
\* however the calls overlapped, unless an older reading of the session was written after
\* a newer one; the other conditions are those that WriteThrough names.
THEOREM StorageFollows == Spec => []WriteThrough
<1>1. IInv => WriteThrough
  BY DEF IInv, StoreInv, WriteThrough, Kept, Todo, Newest, Settled, Stored, Writing
<1>2. QED
  BY <1>1, InvariantHolds, PTL
=============================================================================
