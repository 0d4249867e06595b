------------------------------- MODULE Library -------------------------------
(***************************************************************************)
(* What the components above are built on: the MQTT codec, the conversion  *)
(* of RPC values, the logger and its files, and the table of the Redis     *)
(* client's calls.  None of them calls another, so a behaviour is one of   *)
(* one of them.                                                            *)
(***************************************************************************)
EXTENDS Integers, Sequences, FiniteSets

CONSTANTS Base, GatePacks, PeerPacks, MaxPacks,
          WordSize, Args,
          Loggers, Owners, msgChanLen, MaxMsgs,
          Writers, LineLimits, MaxNum, MaxDays, MaxWrites, LastDay, MaxFaults,
          Keys, Vals, Shards, GetShard, MaxChanges

\* A table has finitely many keys, each in a shard; a limit on lines is not zero (which
\* means that there is none), and only so many goroutines log.
ASSUME LibraryAssumption ==
    /\ IsFiniteSet(Keys) /\ GetShard \in [Keys -> Shards]
    /\ IsFiniteSet(Writers) /\ LineLimits \subseteq Nat \ {0}
    /\ MaxNum \in Nat /\ MaxDays \in Nat /\ MaxWrites \in Nat /\ LastDay \in Nat \ {0}

VARIABLES
    part,
    sent, buf, wire, received, failed,                                        \* Codec
    registered, call, args, onWire, held, results,                            \* Values
    asynchronous, settings, logger, msgChan, signalChan, closed, wg, worker,  \* Log
    outputs, files, accepted, owner, due, overlap, panic,
    config, today, current, currentMod, archives, fileWriter,                 \* File
    maxLinesCurLines, dailyOpenDate, timers, deleters, writing, written, expired, orphans,
    crammed, faults,
    items, rlocked, iterating, sized, chans, during, changes                  \* Map

Codec == INSTANCE MqttCodec
Values == INSTANCE ArgsCodec
Log == INSTANCE BeeLogger
File == INSTANCE LogFile
Map == INSTANCE ConcurrentMap

\* A digit is one of at least four, so that the lengths 2 and 3 take one, and what is
\* written is a pack.
ASSUME CodecAssumption ==
    /\ Base \in Nat /\ Base >= 4
    /\ GatePacks \subseteq Codec!WritablePacks /\ PeerPacks \subseteq Codec!ClientPacks

\* A word has a bit for the sign, and a call is made with values that Go has.
ASSUME ValuesAssumption ==
    /\ WordSize \in Nat \ {0} /\ WordSize % 2 = 0
    /\ Args \subseteq Seq(Values!Arguments)

codecVars == <<sent, buf, wire, received, failed>>
valueVars == <<registered, call, args, onWire, held, results>>
logVars == <<asynchronous, settings, logger, msgChan, signalChan, closed, wg, worker, outputs,
             files, accepted, owner, due, overlap, panic>>
fileVars == <<config, today, current, currentMod, archives, fileWriter, maxLinesCurLines,
              dailyOpenDate, timers, deleters, writing, written, expired, orphans, crammed,
              faults>>
mapVars == <<items, rlocked, iterating, sized, chans, during, changes>>
vars == <<part, codecVars, valueVars, logVars, fileVars, mapVars>>

\* A part that does not run starts in one state.
Init ==
    /\ part \in {"codec", "values", "log", "file", "map"}
    /\ Codec!Init
    /\ Values!Init
    /\ part # "values" => args = <<>> /\ registered = [p \in {"caller", "callee"} |-> {}]
    /\ Log!Init
    /\ part # "log" => asynchronous /\ ~settings
    /\ File!Init
    /\ part # "file" => config.MaxLines = 0
    /\ Map!Init
    /\ part # "map" => DOMAIN items = {}

CodecStep == part = "codec" /\ Codec!Next /\ UNCHANGED <<part, valueVars, logVars, fileVars, mapVars>>
ValueStep == part = "values" /\ Values!Next /\ UNCHANGED <<part, codecVars, logVars, fileVars, mapVars>>
LogStep == part = "log" /\ Log!Next /\ UNCHANGED <<part, codecVars, valueVars, fileVars, mapVars>>
FileStep == part = "file" /\ File!Next /\ UNCHANGED <<part, codecVars, valueVars, logVars, mapVars>>
MapStep == part = "map" /\ Map!Next /\ UNCHANGED <<part, codecVars, valueVars, logVars, fileVars>>

Next == CodecStep \/ ValueStep \/ LogStep \/ FileStep \/ MapStep

Spec == Init /\ [][Next]_vars

-----------------------------------------------------------------------------
\* ReadPack reads what WritePack and the clients' libraries wrote, pack by pack, as long as
\* the packs are ones that cross.
InSync == Codec!InSync

\* The values of a call that cross reach the function and come back unharmed.
RoundTrip == Values!RoundTrip

\* Flush and Close return with all that was logged before in the files.
FlushKeeps == Log!FlushKeeps

\* No rotation, failed or not, and no restart loses a line or keeps it twice.
KeptOnce == File!KeptOnce

\* One rotation for every MaxLines lines.
RotatedOnce == File!RotatedOnce

\* An iteration over the table sees every shard as it was at one moment.
ItemsSound == Map!ItemsSound
=============================================================================
