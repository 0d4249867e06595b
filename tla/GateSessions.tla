---------------------------- MODULE GateSessions ----------------------------
(***************************************************************************)
(* The sessions of a gate: gateHandler keeps the agents of the connected   *)
(* clients in a table and serves, in a goroutine per request, what other   *)
(* modules ask of a session over RPC.  A module works on a copy of the     *)
(* session, decoded from a message, and so does the storage the user of    *)
(* the framework supplies.                                                 *)
(*                                                                         *)
(* Settings are a function from keys to values; an empty map is decoded as *)
(* a nil one (None).                                                       *)
(***************************************************************************)
EXTENDS Naturals, FiniteSets

CONSTANTS Sessions, Callers, Users, Keys, Values, None, Absent,
          MaxCalls,    \* how many calls are made
          MaxFailures  \* how often the storage fails

VARIABLES
    agent,     \* the agent of a session: "none", "connected", "closed" or "ended"
    sessions,  \* gateHandler.sessions: the ids in the table
    userid, settings,  \* of the agent's session, None for a guest and for a nil map
    store,     \* the settings stored for a user, Absent before the first
    copy,      \* the session of a calling module
    op,        \* the call of a module and the goroutine of the gate that serves it
    calls, failures,
    binders,   \* the sessions that were ever bound to a user
    own,       \* the settings a Bind found
    raced,     \* the sessions that a Bind did not have for itself
    older,     \* per call, those whose session was read earlier and is yet to be written
    late,      \* the calls about to write what is older than what is stored
    overtaken  \* the users for whom that was written

order == <<older, late, overtaken>>
vars == <<agent, sessions, userid, settings, store, copy, op, calls, failures, binders, own, raced,
          order>>

Empty == [k \in Keys |-> None]
Settings == [Keys -> Values \cup {None}]
AsMap(m) == IF m = None THEN Empty ELSE m
Decoded(m) == IF m = Empty THEN None ELSE m

\* A nil map is no map.
ASSUME GateSessionsAssumption ==
    /\ MaxCalls \in Nat
    /\ MaxFailures \in Nat
    /\ \A m \in Settings : m # None

Idle == [kind |-> "none", at |-> "idle", s |-> None, arg |-> None, user |-> None,
         image |-> None]

Init ==
    /\ agent = [s \in Sessions |-> "none"]
    /\ sessions = {}
    /\ userid = [s \in Sessions |-> None]
    /\ settings = [s \in Sessions |-> None]
    /\ store \in [Users -> {Absent} \cup {Decoded(m) : m \in Settings}]
    /\ copy = [c \in Callers |-> None]
    /\ op = [c \in Callers |-> Idle]
    /\ calls = 0
    /\ failures = 0
    /\ binders = [u \in Users |-> {}]
    /\ own = [c \in Callers |-> None]
    /\ raced = {}
    /\ older = [c \in Callers |-> {}]
    /\ late = {}
    /\ overtaken = {}

gate == <<agent, sessions, userid, settings, store, binders, order>>

-----------------------------------------------------------------------------
(* The agent's goroutine.                                                  *)

Connect(s) ==
    /\ agent[s] = "none"
    /\ agent' = [agent EXCEPT ![s] = "connected"]
    /\ settings' = [settings EXCEPT ![s] = Empty]
    /\ sessions' = sessions \cup {s}
    /\ UNCHANGED <<userid, store, copy, op, calls, failures, binders, own, raced, order>>

\* A mutated form: the table keeps the agent.
DisConnectKeepsEntry(s) ==
    /\ agent[s] \in {"connected", "closed"}
    /\ agent' = [agent EXCEPT ![s] = "ended"]
    /\ UNCHANGED <<sessions, userid, settings, store, copy, op, calls, failures, binders, own,
                   raced, order>>

\* The connection is lost, or closed by the gate.
DisConnect(s) ==
    /\ agent[s] \in {"connected", "closed"}
    /\ agent' = [agent EXCEPT ![s] = "ended"]
    /\ sessions' = sessions \ {s}
    /\ UNCHANGED <<userid, settings, store, copy, op, calls, failures, binders, own, raced, order>>

\* A message of the client reaches a module with the session as its argument.
Receive(c, s) ==
    /\ op[c].at = "idle"
    /\ copy[c] = None
    /\ agent[s] = "connected"
    /\ copy' = [copy EXCEPT ![c] = [s |-> s, settings |-> Decoded(settings[s])]]
    /\ UNCHANGED <<gate, op, calls, failures, own, raced>>

-----------------------------------------------------------------------------
(* What a module does with its copy.                                       *)

LocalSet(c, k, v) ==
    /\ op[c].at = "idle"
    /\ copy[c] # None
    /\ copy' = [copy EXCEPT ![c].settings = [AsMap(@) EXCEPT ![k] = v]]
    /\ UNCHANGED <<gate, op, calls, failures, own, raced>>

\* delete makes a map of a nil one first.
LocalRemove(c, k) ==
    /\ op[c].at = "idle"
    /\ copy[c] # None
    /\ copy' = [copy EXCEPT ![c].settings = [AsMap(@) EXCEPT ![k] = None]]
    /\ UNCHANGED <<gate, op, calls, failures, own, raced>>

Call(c, kind, arg) ==
    /\ op[c].at = "idle"
    /\ copy[c] # None
    /\ calls < MaxCalls
    /\ calls' = calls + 1
    /\ op' = [op EXCEPT ![c] = [Idle EXCEPT !.kind = kind, !.at = "sent", !.s = copy[c].s,
                                            !.arg = arg]]
    /\ UNCHANGED <<gate, copy, failures, own, raced>>

CallUpdate(c) == Call(c, "Update", None)
CallBind(c, u) == Call(c, "Bind", u)
CallUnBind(c) == Call(c, "UnBind", None)
CallPush(c) == Call(c, "Push", copy[c].settings)
\* These functions of the gate have no method of the session.
CallSet(c, k, v) == Call(c, "Set", [key |-> k, value |-> v])
CallRemove(c, k) == Call(c, "Remove", k)
\* session.Close passes one argument too many and is refused by the engine.
CallClose(c) == Call(c, "Close", None)

-----------------------------------------------------------------------------
(* The goroutine of the gate.                                              *)

Overlapping(c) ==
    {d \in Callers \ {c} : op[d].s = op[c].s /\ op[d].at \notin {"idle", "sent"}}

At(c, kind, at) == op[c].kind = kind /\ op[c].at = at

Goto(c, at) == op' = [op EXCEPT ![c].at = at]

NotFound(c) ==
    /\ op[c].at = "sent"
    /\ op[c].s \notin sessions
    /\ op' = [op EXCEPT ![c] = Idle]
    /\ UNCHANGED <<gate, copy, calls, failures, own, raced>>

LookUp(c) ==
    /\ op[c].at = "sent"
    /\ op[c].s \in sessions
    /\ Goto(c, "found")
    /\ own' = [own EXCEPT ![c] = IF op[c].kind = "Bind" THEN AsMap(settings[op[c].s]) ELSE None]
    /\ raced' = IF \E d, e \in {c} \cup Overlapping(c) : d # e /\ op[d].kind = "Bind"
                THEN raced \cup {op[c].s} ELSE raced
    /\ UNCHANGED <<gate, copy, calls, failures>>

Update(c) ==
    /\ At(c, "Update", "found")
    /\ Goto(c, "answer")
    /\ UNCHANGED <<gate, copy, calls, failures, own, raced>>

BindUser(c) ==
    /\ At(c, "Bind", "found")
    /\ userid' = [userid EXCEPT ![op[c].s] = op[c].arg]
    /\ binders' = [binders EXCEPT ![op[c].arg] = @ \cup {op[c].s}]
    /\ Goto(c, "check")
    /\ UNCHANGED <<agent, sessions, settings, store, copy, calls, failures, own, raced, order>>

\* The user is looked at again: an UnBind in between spares the query.
BindCheck(c) ==
    /\ At(c, "Bind", "check")
    /\ Goto(c, IF userid[op[c].s] # None THEN "query" ELSE "answer")
    /\ UNCHANGED <<gate, copy, calls, failures, own, raced>>

\* Query finds nothing, or fails.
BindQueryNothing(c) ==
    /\ At(c, "Bind", "query")
    /\ \/ store[op[c].arg] = Absent /\ UNCHANGED failures
       \/ failures < MaxFailures /\ failures' = failures + 1
    /\ Goto(c, "answer")
    /\ UNCHANGED <<gate, copy, calls, own, raced>>

\* A mutated form: the stored settings win.
MergedOldWins(mine, old) ==
    [k \in Keys |-> IF AsMap(old)[k] # None THEN AsMap(old)[k] ELSE AsMap(mine)[k]]

\* What the stored settings are merged to: the session's own win.
Merged(mine, old) ==
    [k \in Keys |-> IF AsMap(mine)[k] # None THEN AsMap(mine)[k] ELSE AsMap(old)[k]]

\* The stored session is read and merged; the result is put into the session later.
BindQuery(c) ==
    LET old == store[op[c].arg]
        mine == settings[op[c].s]
    IN  /\ At(c, "Bind", "query")
        /\ old # Absent
        /\ op' = [op EXCEPT ![c].at = IF mine = None THEN "restore"
                                      ELSE IF old = None THEN "store" ELSE "merge",
                            ![c].arg = IF mine = None THEN old ELSE Merged(mine, old),
                            ![c].user = op[c].arg]
        /\ UNCHANGED <<gate, copy, calls, failures, own, raced>>

\* The session had no settings: it takes the stored ones, which need not be stored again.
BindRestore(c) ==
    /\ At(c, "Bind", "restore")
    /\ settings' = [settings EXCEPT ![op[c].s] = op[c].arg]
    /\ Goto(c, "answer")
    /\ UNCHANGED <<agent, sessions, userid, store, copy, calls, failures, binders, own,
                   raced, order>>

BindMerge(c) ==
    /\ At(c, "Bind", "merge")
    /\ settings' = [settings EXCEPT ![op[c].s] = op[c].arg]
    /\ Goto(c, "store")
    /\ UNCHANGED <<agent, sessions, userid, store, copy, calls, failures, binders, own,
                   raced, order>>

UnBind(c) ==
    /\ At(c, "UnBind", "found")
    /\ userid' = [userid EXCEPT ![op[c].s] = None]
    /\ Goto(c, "answer")
    /\ UNCHANGED <<agent, sessions, settings, store, copy, calls, failures, binders, own,
                   raced, order>>

\* Set, Remove and Push change the settings and look at the user to decide whether to store.
Change(c, kind, new) ==
    /\ At(c, kind, "found")
    /\ settings' = [settings EXCEPT ![op[c].s] = new]
    /\ Goto(c, IF userid[op[c].s] # None THEN "store" ELSE "answer")
    /\ UNCHANGED <<agent, sessions, userid, store, copy, calls, failures, binders, own,
                   raced, order>>

Set(c) == Change(c, "Set", [AsMap(settings[op[c].s]) EXCEPT ![op[c].arg.key] = op[c].arg.value])

Remove(c) == Change(c, "Remove", [AsMap(settings[op[c].s]) EXCEPT ![op[c].arg] = None])

\* A mutated form: the settings are pushed without being stored.
PushNotStored(c) ==
    /\ At(c, "Push", "found")
    /\ settings' = [settings EXCEPT ![op[c].s] = op[c].arg]
    /\ Goto(c, "answer")
    /\ UNCHANGED <<agent, sessions, userid, store, copy, calls, failures, binders, own,
                   raced, order>>

Push(c) == Change(c, "Push", op[c].arg)

\* Bind stores for the user it was given; the others look at the session's user again,
\* which it may have lost.
StoreFor(c) ==
    /\ op[c].at = "store"
    /\ op' = [op EXCEPT ![c].at = "read",
                        ![c].user = IF op[c].kind = "Bind" THEN @ ELSE userid[op[c].s]]
    /\ UNCHANGED <<gate, copy, calls, failures, own, raced>>

\* The storage is given the agent's session and no lock: it reads the settings when it
\* encodes them, and writes later.
StorageReads(c) ==
    /\ op[c].at = "read"
    /\ op' = [op EXCEPT ![c].at = "write", ![c].image = settings[op[c].s]]
    /\ older' = [older EXCEPT ![c] = {d \in Callers : op[d].at = "write"}]
    /\ UNCHANGED <<agent, sessions, userid, settings, store, copy, calls, failures, binders, own,
                   raced, late, overtaken>>

\* What was read is written, whatever was written since, or the storage fails, which is logged.
\* What was a session's without a user is stored under the empty user id.
StorageWrites(c) ==
    LET u == op[c].user
    IN  /\ op[c].at = "write"
        /\ \/ /\ store' = IF u = None THEN store ELSE [store EXCEPT ![u] = Decoded(op[c].image)]
              /\ late' = (late \ {c}) \cup {d \in older[c] : op[d].user = u}
              /\ overtaken' = IF c \in late THEN overtaken \cup {u} ELSE overtaken \ {u}
              /\ UNCHANGED failures
           \/ /\ failures < MaxFailures /\ failures' = failures + 1
              /\ late' = late \ {c}
              /\ UNCHANGED <<store, overtaken>>
        /\ older' = [d \in Callers |-> IF d = c THEN {} ELSE older[d] \ {c}]
        /\ op' = [op EXCEPT ![c].at = "answer", ![c].image = None, ![c].user = None]
        /\ UNCHANGED <<agent, sessions, userid, settings, copy, calls, binders, own, raced>>

\* The agent's connection is closed; its goroutine then disconnects.
Close(c) ==
    /\ At(c, "Close", "found")
    /\ agent' = [agent EXCEPT ![op[c].s] = IF @ = "ended" THEN @ ELSE "closed"]
    /\ Goto(c, "answer")
    /\ UNCHANGED <<sessions, userid, settings, store, copy, calls, failures, binders, own,
                   raced, order>>

-----------------------------------------------------------------------------
\* The answer carries the session as it is when it is encoded; the copy takes it over,
\* unless the caller gave up.
Answer(c) ==
    LET s == op[c].s
    IN  /\ op[c].at = "answer"
        /\ \/ /\ op[c].kind \in {"Update", "Bind", "UnBind", "Push"}
              /\ copy' = [copy EXCEPT ![c].settings = Decoded(settings[s])]
           \/ UNCHANGED copy
        /\ op' = [op EXCEPT ![c] = Idle]
        /\ own' = [own EXCEPT ![c] = None]
        /\ UNCHANGED <<gate, calls, failures, raced>>

Serve(c) ==
    \/ NotFound(c) \/ LookUp(c) \/ Update(c)
    \/ BindUser(c) \/ BindCheck(c) \/ BindQueryNothing(c) \/ BindQuery(c)
    \/ BindRestore(c) \/ BindMerge(c) \/ UnBind(c) \/ Set(c) \/ Remove(c) \/ Push(c) \/ Close(c)
    \/ StoreFor(c) \/ StorageReads(c) \/ StorageWrites(c) \/ Answer(c)

Ask(c) ==
    \/ \E s \in Sessions : Receive(c, s)
    \/ \E k \in Keys, v \in Values : LocalSet(c, k, v) \/ CallSet(c, k, v)
    \/ \E k \in Keys : LocalRemove(c, k) \/ CallRemove(c, k)
    \/ \E u \in Users : CallBind(c, u)
    \/ CallUpdate(c) \/ CallUnBind(c) \/ CallPush(c) \/ CallClose(c)

Next ==
    \/ \E s \in Sessions : Connect(s) \/ DisConnect(s)
    \/ \E c \in Callers : Ask(c) \/ Serve(c)

Spec == Init /\ [][Next]_vars

-----------------------------------------------------------------------------
\* The variables keep their types: in particular the table holds only agents that run,
\* and nothing is stored but settings that can be decoded.
TypeOK ==
    /\ agent \in [Sessions -> {"none", "connected", "closed", "ended"}]
    /\ sessions \subseteq {s \in Sessions : agent[s] \in {"connected", "closed"}}
    /\ userid \in [Sessions -> Users \cup {None}]
    /\ settings \in [Sessions -> Settings \cup {None}]
    /\ store \in [Users -> {Absent, None} \cup (Settings \ {Empty})]
    /\ \A c \in Callers :
          /\ copy[c] # None => copy[c].settings \in Settings \cup {None}
          /\ op[c].at \in {"merge", "restore"} => op[c].arg \in Settings \cup {None}
          /\ op[c].image \in Settings \cup {None}
          /\ op[c].user \in Users \cup {None}
          /\ own[c] \in Settings \cup {None}
    /\ raced \subseteq Sessions
    /\ calls \in 0..MaxCalls
    /\ failures \in 0..MaxFailures
    /\ older \in [Callers -> SUBSET Callers] /\ late \subseteq Callers
    /\ overtaken \subseteq Users \cup {None}

\* On a session that no Bind shared with another call, a Bind loses none of the settings
\* the session had: what was stored for the user fills in the others.
BindKeepsOwn ==
    \A c \in Callers :
        At(c, "Bind", "answer") /\ op[c].s \notin raced =>
            \A k \in Keys : own[c][k] # None => AsMap(settings[op[c].s])[k] = own[c][k]

\* Once every call on a session is answered, what is stored for its user is what the
\* session holds, however Set, Remove and Push overlapped, unless what was read of it first
\* was written last: the storage takes no lock, and an older state of the session can land
\* after a newer one. The next call that stores alone repairs that. Besides, the session must
\* be the only one the user had, something must have been stored for the user ever, the
\* storage must not have failed and no Bind have overlapped another call.
WriteThrough ==
    \A s \in Sessions \ raced :
        LET u == userid[s]
        IN  /\ u # None
            /\ binders[u] = {s}
            /\ failures = 0
            /\ u \notin overtaken
            /\ \A c \in Callers : op[c].s = s => op[c].at \in {"idle", "sent"}
            => store[u] \in {Absent, Decoded(AsMap(settings[s]))}
=============================================================================
