------------------------------ MODULE ArgsCodec ------------------------------
(***************************************************************************)
(* rpc/argsutil and the conversions of utils/params_bytes.go, in the place *)
(* they have in a call: rpcClient converts the arguments, the engine       *)
(* restores them, converts the results of the function (here one that      *)
(* returns its arguments) and the client restores those.                   *)
(* A value is its Go type and its contents; a machine word has WordSize    *)
(* values (2^32 in the code), and an int or int64 has two words.           *)
(***************************************************************************)
EXTENDS Integers, Sequences

CONSTANTS
    WordSize,   \* values of a machine word, an even number
    Args        \* the lists of arguments that calls are made with

VARIABLES
    registered, \* serializers a process was given: [caller, callee -> a set of names]
    call,       \* "none", "sent", "served", "ended" or "error"
    args,       \* the arguments of the call
    onWire,     \* the request or the response: [type, bytes] for every value
    held,       \* what the function was called with
    results     \* what the call returned

argsVars == <<registered, call, args, onWire, held, results>>

Value(kind, v) == [kind |-> kind, v |-> v, entries |-> <<>>]
Map(entries) == [kind |-> "map", v |-> <<>>, entries |-> entries]
Entry(kind, v) == [kind |-> kind, v |-> v]
OnWire(type, bytes) == [type |-> type, bytes |-> bytes, entries |-> <<>>]
Processes == {"caller", "callee"}

\* What ArgsTypeAnd2Bytes tells apart, "session" and "other" being what it leaves to the
\* serializers, and the contents such a value has: an int32 is a word with a sign, an int
\* and an int64 are two.
Kinds == {"nil", "bool", "int", "int32", "long", "float", "double", "bytes", "string", "map",
          "mapstr", "session", "other"}
LongSize == WordSize * WordSize
WithSign(size) == -(size \div 2) .. size \div 2 - 1
Arguments ==
    {x \in [kind : Kinds, v : Seq(Int), entries : Seq([kind : Kinds, v : Seq(Int)])] :
        /\ x.kind # "map" => x.entries = <<>>
        /\ x.kind \in {"nil", "map"} => x.v = <<>>
        /\ x.kind = "int32" => Len(x.v) = 1 /\ x.v[1] \in WithSign(WordSize)
        /\ x.kind \in {"int", "long"} => Len(x.v) = 1 /\ x.v[1] \in WithSign(LongSize)}

-----------------------------------------------------------------------------
\* A mutated form: no number is read as a signed one.
SignedForgotten(u, size) == u

\* uint32(i) and uint64(i), and their reading as a signed number.
Unsigned(i, size) == i % size
Signed(u, size) == IF u >= size \div 2 THEN u - size ELSE u

\* encoding/json: every number comes back as a float64 and bytes as the text of their
\* base64 form; a channel or a function cannot be converted.
Numbers == {"int", "int32", "long", "float", "double"}
Json(e) == CASE e.kind \in Numbers -> Entry("double", e.v)
             [] e.kind = "bytes" -> Entry("string", <<64>> \o e.v)
             [] OTHER -> e
HasJson(m) == \A k \in 1 .. Len(m) : m[k].kind # "other"

\* The gate's serializer, for sessions.
Serialize(x) == IF x.kind = "session" THEN <<OnWire("SESSION", x.v)>> ELSE <<>>
Deserialize(w) == IF w.type = "SESSION" THEN <<Value("session", w.bytes)>> ELSE <<>>

\* The converted value, or none if its type is not allowed. Any other type is left to the
\* serializers the application was given.
ArgsTypeAnd2Bytes(names, x) ==
    CASE x.kind = "nil" -> <<OnWire("null", <<>>)>>
      [] x.kind \in {"int", "int32"} -> <<OnWire(x.kind, <<Unsigned(x.v[1], WordSize)>>)>>
      [] x.kind = "long" -> <<OnWire("long", <<Unsigned(x.v[1], LongSize)>>)>>
      [] x.kind = "map" /\ HasJson(x.entries) ->
            <<[OnWire("map", <<>>) EXCEPT !.entries =
                    [k \in 1 .. Len(x.entries) |-> Json(x.entries[k])]]>>
      [] x.kind \in {"bytes", "string", "bool", "float", "double", "mapstr"} ->
            <<OnWire(x.kind, x.v)>>
      [] OTHER -> IF "SESSION" \in names THEN Serialize(x) ELSE <<>>

\* An int is restored from one word and without a sign.
Bytes2Args(names, w) ==
    CASE w.type = "null" -> <<Value("nil", <<>>)>>
      [] w.type = "int32" -> <<Value("int32", <<Signed(w.bytes[1], WordSize)>>)>>
      [] w.type = "long" -> <<Value("long", <<Signed(w.bytes[1], LongSize)>>)>>
      [] w.type = "map" -> <<Map(w.entries)>>
      [] w.type \in {"int", "bytes", "string", "bool", "float", "double", "mapstr"} ->
            <<Value(w.type, w.bytes)>>
      [] OTHER -> IF "SESSION" \in names THEN Deserialize(w) ELSE <<>>

\* One value after the other; the first that fails fails the call.
Fails(converted) == \E k \in 1 .. Len(converted) : converted[k] = <<>>
Each(converted) == [k \in 1 .. Len(converted) |-> converted[k][1]]
Encoded(p, xs) == [k \in 1 .. Len(xs) |-> ArgsTypeAnd2Bytes(registered[p], xs[k])]
Decoded(p, ws) == [k \in 1 .. Len(ws) |-> Bytes2Args(registered[p], ws[k])]

-----------------------------------------------------------------------------
Init ==
    /\ registered \in [Processes -> SUBSET {"SESSION"}]
    /\ call = "none" /\ args \in Args
    /\ onWire = <<>> /\ held = <<>> /\ results = <<>>

\* rpcClient.Call, SyncCall and CallNR: a session is cloned before it is converted.
Call ==
    /\ call = "none"
    /\ IF Fails(Encoded("caller", args))
       THEN call' = "error" /\ UNCHANGED onWire
       ELSE call' = "sent" /\ onWire' = Each(Encoded("caller", args))
    /\ UNCHANGED <<registered, args, held, results>>

\* _runFunc up to the function: a value that cannot be restored is a ServerFormatError.
Restore ==
    /\ call = "sent"
    /\ IF Fails(Decoded("callee", onWire))
       THEN call' = "error" /\ UNCHANGED held
       ELSE held' = Each(Decoded("callee", onWire)) /\ call' = "held"
    /\ UNCHANGED <<registered, args, onWire, results>>

\* _runFunc after the function.
Return ==
    /\ call = "held"
    /\ IF Fails(Encoded("callee", held))
       THEN call' = "error" /\ UNCHANGED onWire
       ELSE call' = "served" /\ onWire' = Each(Encoded("callee", held))
    /\ UNCHANGED <<registered, args, held, results>>

\* CallArgs and ResolveCallbackChan.
ResolveCallbackChan ==
    /\ call = "served"
    /\ IF Fails(Decoded("caller", onWire))
       THEN call' = "error" /\ UNCHANGED results
       ELSE call' = "ended" /\ results' = Each(Decoded("caller", onWire))
    /\ UNCHANGED <<registered, args, onWire, held>>

Next == Call \/ Restore \/ Return \/ ResolveCallbackChan

-----------------------------------------------------------------------------
\* The values that cross unharmed: an int of one word without a sign, and a map whose
\* contents JSON keeps.
Crosses(x) ==
    /\ x.kind = "int" => x.v[1] \in 0 .. WordSize - 1
    /\ x.kind = "map" => \A k \in 1 .. Len(x.entries) :
                            x.entries[k].kind \in {"string", "bool", "double", "nil"}

\* The function is called with what the caller gave it, as far as that crosses at all, and
\* what has crossed once crosses again unharmed: the caller gets what the function
\* returned. A call fails only for a value that one of the processes has no serializer
\* for.
RoundTrip ==
    /\ held # <<>> => /\ Len(held) = Len(args)
                      /\ \A k \in 1 .. Len(args) : Crosses(args[k]) => held[k] = args[k]
    /\ call = "ended" => /\ Len(results) = Len(held)
                         /\ \A k \in 1 .. Len(held) : results[k] = held[k]
    /\ call = "error" => \E k \in 1 .. Len(args) :
            \/ args[k].kind = "other"
            \/ args[k].kind = "map" /\ ~HasJson(args[k].entries)
            \/ args[k].kind = "session" /\ \E p \in Processes : registered[p] = {}
=============================================================================
