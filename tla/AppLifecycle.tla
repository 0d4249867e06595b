---------------------------- MODULE AppLifecycle -----------------------------
(***************************************************************************)
(* A process of the application: app.Run makes a client for every module   *)
(* of the configuration, the module manager starts the modules configured  *)
(* for this process, each Run in a goroutine of its own, and the interrupt *)
(* destroys them in the reverse order before the clients are closed.       *)
(***************************************************************************)
EXTENDS Naturals, Sequences, FiniteSets

CONSTANTS Types, Ids, Processes,
          Here,  \* the ProcessID of this process
          Mods,  \* the types of the modules given to app.Run, in their order
          MaxSettings,  \* how many modules are configured at most
          Nobody

VARIABLES
    conf,     \* the settings of all modules: their types, ids and processes
    stage,    \* where app.Run is
    at,       \* the index it works at
    client,   \* app.serverList: how the client of an id reaches its module
    runMods,
    server,   \* the RPC server of a module: "none", "open" or "done"
    run,      \* the goroutine of a module's Run
    closeSig, wg,
    reached   \* whom the last call of a module reached

vars == <<conf, stage, at, client, runMods, server, run, closeSig, wg, reached>>

Settings == [type : Types, id : Ids, pid : Processes]

\* The configuration is JSON: per type a list of settings.
Init ==
    /\ conf \in {s \in SUBSET Settings : Cardinality(s) <= MaxSettings}
    /\ stage = "wire"
    /\ at = 1
    /\ client = [id \in Ids |-> "none"]
    /\ runMods = <<>>
    /\ server = [t \in Types |-> "none"]
    /\ run = [t \in Types |-> "none"]
    /\ closeSig = [t \in Types |-> 0]
    /\ wg = [t \in Types |-> 0]
    /\ reached = Nobody

-----------------------------------------------------------------------------
(* Start-up.                                                               *)

IdReused == \E s, r \in conf : s # r /\ s.id = r.id

PidReused == \E s, r \in conf : s # r /\ s.type = r.type /\ s.pid = r.pid

\* A mutated form: every client gets a remote transport.
WireRemote ==
    /\ stage = "wire"
    /\ IF IdReused
       THEN stage' = "panicked" /\ UNCHANGED client
       ELSE /\ stage' = "check"
            /\ client' = [id \in Ids |-> IF \E s \in conf : s.id = id THEN "remote" ELSE "none"]
    /\ UNCHANGED <<conf, at, runMods, server, run, closeSig, wg, reached>>

\* app.OnInit. A client of another process gets the remote transports.
Wire ==
    /\ stage = "wire"
    /\ IF IdReused
       THEN stage' = "panicked" /\ UNCHANGED client
       ELSE /\ stage' = "check"
            /\ client' = [id \in Ids |->
                  IF \E s \in conf : s.id = id /\ s.pid # Here THEN "remote"
                  ELSE IF \E s \in conf : s.id = id THEN "unconnected" ELSE "none"]
    /\ UNCHANGED <<conf, at, runMods, server, run, closeSig, wg, reached>>

CheckModuleSettings ==
    /\ stage = "check"
    /\ stage' = IF IdReused \/ PidReused THEN "panicked" ELSE "match"
    /\ UNCHANGED <<conf, at, client, runMods, server, run, closeSig, wg, reached>>

ConfiguredHere(t) == \E s \in conf : s.type = t /\ s.pid = Here

SettingsOf(t) == CHOOSE s \in conf : s.type = t /\ s.pid = Here

\* The modules of the configuration that are to run here, in the order of app.Run.
MatchModule ==
    /\ stage = "match"
    /\ at <= Len(Mods)
    /\ runMods' = IF ConfiguredHere(Mods[at]) THEN Append(runMods, Mods[at]) ELSE runMods
    /\ at' = at + 1
    /\ UNCHANGED <<conf, stage, client, server, run, closeSig, wg, reached>>

Matched ==
    /\ stage = "match"
    /\ at > Len(Mods)
    /\ stage' = "start"
    /\ at' = 1
    /\ UNCHANGED <<conf, client, runMods, server, run, closeSig, wg, reached>>

\* OnInit of the module: its RPC server is made and registered with the client.
InitModule ==
    LET t == runMods[at]
        id == SettingsOf(t).id
    IN  /\ stage = "start"
        /\ at <= Len(runMods)
        /\ server[t] = "none"
        /\ server' = [server EXCEPT ![t] = "open"]
        /\ client' = [client EXCEPT ![id] = "local"]
        /\ UNCHANGED <<conf, stage, at, runMods, run, closeSig, wg, reached>>

StartModule ==
    LET t == runMods[at]
    IN  /\ stage = "start"
        /\ at <= Len(runMods)
        /\ server[t] = "open"
        /\ wg' = [wg EXCEPT ![t] = @ + 1]
        /\ run' = [run EXCEPT ![t] = "running"]
        /\ at' = at + 1
        /\ UNCHANGED <<conf, stage, client, runMods, server, closeSig, reached>>

Started ==
    /\ stage = "start"
    /\ at > Len(runMods)
    /\ stage' = "running"
    /\ UNCHANGED <<conf, at, client, runMods, server, run, closeSig, wg, reached>>

-----------------------------------------------------------------------------
(* The modules.                                                            *)

GetServersByType(t) == {s.id : s \in {r \in conf : r.type = t}}

\* The route takes the hash of the caller modulo the number of servers as an index into a
\* list in the order of a map: it may be any of them.
GetRouteServer(t) == GetServersByType(t)

\* A module whose Run is active calls one of a type; a type without a server is an error.
\* What the call does then is the business of the RPC modules.
RpcCall(t, id) ==
    /\ \E m \in Types : run[m] = "running"
    /\ id \in GetRouteServer(t)
    /\ reached' = [id |-> id, how |-> client[id]]
    /\ UNCHANGED <<conf, stage, at, client, runMods, server, run, closeSig, wg>>

\* A mutated form: Wg.Done is forgotten.
RunReturnsUncounted(t) ==
    /\ run[t] = "running"
    /\ run' = [run EXCEPT ![t] = "returned"]
    /\ UNCHANGED <<conf, stage, at, client, runMods, server, closeSig, wg, reached>>

\* The module's Run returns: when it is told to, or earlier.
RunReturns(t) ==
    /\ run[t] = "running"
    /\ run' = [run EXCEPT ![t] = "returned"]
    /\ wg' = [wg EXCEPT ![t] = @ - 1]
    /\ UNCHANGED <<conf, stage, at, client, runMods, server, closeSig, reached>>

\* The panic is recovered from, past Wg.Done.
RunPanics(t) ==
    /\ run[t] = "running"
    /\ run' = [run EXCEPT ![t] = "panicked"]
    /\ UNCHANGED <<conf, stage, at, client, runMods, server, closeSig, wg, reached>>

-----------------------------------------------------------------------------
(* The interrupt: manager.Destroy and app.OnDestroy.                       *)

Interrupt ==
    /\ stage = "running"
    /\ stage' = "signal"
    /\ at' = Len(runMods)
    /\ UNCHANGED <<conf, client, runMods, server, run, closeSig, wg, reached>>

\* closeSig has room for one: it is never sent to again.
Signal ==
    /\ stage = "signal"
    /\ at > 0
    /\ closeSig[runMods[at]] = 0
    /\ closeSig' = [closeSig EXCEPT ![runMods[at]] = 1]
    /\ stage' = "wait"
    /\ UNCHANGED <<conf, at, client, runMods, server, run, wg, reached>>

\* RPCServerModule.OnDestroy.
OnDestroy(t) == server' = [server EXCEPT ![t] = "done"]

\* A mutated form: a module is destroyed while its Run is on its way out.
DestroyUnwaited ==
    /\ stage = "wait"
    /\ OnDestroy(runMods[at])
    /\ at' = at - 1
    /\ stage' = "signal"
    /\ UNCHANGED <<conf, client, runMods, run, closeSig, wg, reached>>

\* OnDestroy of the module closes its RPC server.
DestroyModule ==
    /\ stage = "wait"
    /\ wg[runMods[at]] = 0
    /\ OnDestroy(runMods[at])
    /\ at' = at - 1
    /\ stage' = "signal"
    /\ UNCHANGED <<conf, client, runMods, run, closeSig, wg, reached>>

CloseClients ==
    /\ stage = "signal"
    /\ at = 0
    /\ client' = [id \in Ids |-> IF client[id] = "none" THEN "none" ELSE "closed"]
    /\ stage' = "exited"
    /\ UNCHANGED <<conf, at, runMods, server, run, closeSig, wg, reached>>

StartNext ==
    \/ Wire \/ CheckModuleSettings \/ MatchModule \/ Matched
    \/ InitModule \/ StartModule \/ Started

DestroyNext == Signal \/ DestroyModule \/ CloseClients

\* A module whose closeSig was sent to returns from Run.
TypeNext(t) == closeSig[t] = 1 /\ RunReturns(t)

Next ==
    \/ StartNext \/ Interrupt \/ DestroyNext
    \/ \E t \in Types : RunReturns(t) \/ RunPanics(t) \/ \E id \in Ids : RpcCall(t, id)

Spec == Init /\ [][Next]_vars

\* In a running process the ids of the modules that run here are reached in-process and
\* those of other processes remotely, each id by one module only. What is configured for
\* this process and was not given to app.Run is not reached at all.
ReachedRightly ==
    /\ \A i, j \in DOMAIN runMods : i # j => runMods[i] # runMods[j]
    /\ stage = "running" =>
          \A s \in conf :
              client[s.id] = IF s.pid # Here THEN "remote"
                             ELSE IF server[s.type] = "open" THEN "local" ELSE "unconnected"

\* A module's RPC server is closed only after its Run has returned, after those of the
\* modules that were started later, and before any client is closed: no call of a module
\* that still runs meets a closed client.
DestroyOrder ==
    /\ \A i, j \in DOMAIN runMods :
          server[runMods[i]] = "done" =>
              /\ run[runMods[i]] = "returned"
              /\ j > i => server[runMods[j]] = "done"
    /\ stage = "exited" => \A i \in DOMAIN runMods : server[runMods[i]] = "done"
    /\ reached # Nobody => reached.how # "closed"
=============================================================================
