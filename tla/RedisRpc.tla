------------------------------- MODULE RedisRpc -------------------------------
(***************************************************************************)
(* RPC through Redis lists: redisClient (calls, callInfos, a goroutine     *)
(* that takes answers, a goroutine that expires calls, Done) and           *)
(* redisServer.                                                            *)
(*                                                                         *)
(* callInfos is the sharded map: IterBuffered works on a copy, so an entry *)
(* can be settled by whoever holds a copy of it while another goroutine    *)
(* removes it.  Call stores a pointer where on_response_handle asserts a   *)
(* value: the first answer that finds its entry ends the process.          *)
(*                                                                         *)
(* Redis is external: lpush and brpop are atomic, and a command can fail.  *)
(***************************************************************************)

CONSTANTS Calls, NoReply

VARIABLES
    \* of the client
    caller, callInfos, call_chan, expired, isClose, done, panicked,
    matched,     \* the call on_response_handle holds an entry of, after Get
    scan,        \* what on_timeout_handle has left of its copy of the table
    timing,      \* whether on_timeout_handle runs
    popping,     \* whether on_response_handle runs
    sweep,       \* what Done has left of its copy
    missed,      \* the calls that registered when Done had taken its copy
    \* the two lists, and the server
    call_queue, callback_list, server, running

clientVars == <<caller, callInfos, call_chan, expired, missed, isClose, done, matched, scan,
                timing, popping, sweep>>
serverVars == <<call_queue, callback_list, server, running>>
vars == <<clientVars, serverVars, panicked>>

Returned == {"error", "sent", "reply", "timeout", "closed"}

TypeOK ==
    /\ caller \in [Calls -> {"idle", "checked", "registered", "waiting"} \cup Returned]
    /\ call_chan \in [Calls -> {"empty", "reply", "timeout", "closed"}]
    /\ callInfos \subseteq Calls /\ expired \subseteq Calls
    /\ matched \subseteq Calls /\ \A c, d \in matched : c = d
    /\ scan \subseteq Calls /\ sweep \subseteq Calls /\ missed \subseteq Calls
    /\ call_queue \subseteq Calls /\ callback_list \subseteq Calls /\ running \subseteq Calls
    /\ done \in {"idle", "deleted", "closing", "joined", "sweeping", "finished"}
    /\ isClose \in BOOLEAN /\ timing \in BOOLEAN /\ popping \in BOOLEAN
    /\ server \in {"open", "closing", "gone"}

Init ==
    /\ caller = [c \in Calls |-> "idle"]
    /\ call_chan = [c \in Calls |-> "empty"]
    /\ callInfos = {} /\ expired = {}
    /\ isClose = FALSE /\ done = "idle" /\ panicked = "no"
    /\ matched = {} /\ scan = {} /\ sweep = {} /\ missed = {}
    /\ timing = TRUE /\ popping = TRUE
    /\ call_queue = {} /\ callback_list = {} /\ running = {}
    /\ server = "open"

Alive == panicked = "no"

Move(c, from, to) ==
    /\ Alive
    /\ caller[c] = from
    /\ caller' = [caller EXCEPT ![c] = to]

\* Send to the channel of c, which has room for one message, and close it.
Settle(c, how) ==
    /\ call_chan' = [call_chan EXCEPT ![c] = how]
    /\ panicked' = IF call_chan[c] # "empty" THEN "call_chan" ELSE "no"

-----------------------------------------------------------------------------
(* Call and CallNR, which does not look at isClose.                        *)

Refuse(c) ==
    /\ isClose /\ c \notin NoReply
    /\ Move(c, "idle", "error")
    /\ UNCHANGED <<callInfos, call_chan, expired, missed, isClose, done, matched, scan, timing,
                   popping, sweep, serverVars, panicked>>

Check(c) ==
    /\ ~isClose \/ c \in NoReply
    /\ Move(c, "idle", IF c \in NoReply THEN "registered" ELSE "checked")
    /\ UNCHANGED <<callInfos, call_chan, expired, missed, isClose, done, matched, scan, timing,
                   popping, sweep, serverVars, panicked>>

Register(c) ==
    /\ Move(c, "checked", "registered")
    /\ callInfos' = callInfos \cup {c}
    /\ missed' = IF done \in {"sweeping", "finished"} THEN missed \cup {c} ELSE missed
    /\ UNCHANGED <<call_chan, expired, isClose, done, matched, scan, timing, popping, sweep,
                   serverVars, panicked>>

\* lpush, or its error. The entry stays in callInfos; CallArgsNR drops the error.
Push(c) ==
    /\ \/ /\ Move(c, "registered", IF c \in NoReply THEN "sent" ELSE "waiting")
          /\ call_queue' = call_queue \cup {c}
       \/ /\ Move(c, "registered", IF c \in NoReply THEN "sent" ELSE "error")
          /\ UNCHANGED call_queue
    /\ UNCHANGED <<callInfos, call_chan, expired, missed, isClose, done, matched, scan, timing,
                   popping, sweep, callback_list, server, running, panicked>>

Receive(c) ==
    /\ call_chan[c] # "empty"
    /\ Move(c, "waiting", call_chan[c])
    /\ UNCHANGED <<callInfos, call_chan, expired, missed, isClose, done, matched, scan, timing,
                   popping, sweep, serverVars, panicked>>

Expire(c) ==
    /\ Alive
    /\ c \in callInfos \ expired
    /\ expired' = expired \cup {c}
    /\ UNCHANGED <<caller, callInfos, call_chan, missed, isClose, done, matched, scan, timing,
                   popping, sweep, serverVars, panicked>>

-----------------------------------------------------------------------------
(* on_timeout_handle: the copy of IterBuffered, and one entry of it.       *)

Copy ==
    /\ Alive
    /\ timing /\ scan = {}
    /\ callInfos # {}
    /\ scan' = callInfos
    /\ UNCHANGED <<caller, callInfos, call_chan, expired, missed, isClose, done, matched, timing,
                   popping, sweep, serverVars, panicked>>

ScanOne(c) ==
    /\ Alive
    /\ c \in scan
    /\ scan' = scan \ {c}
    /\ IF c \in expired
       THEN Settle(c, "timeout") /\ callInfos' = callInfos \ {c}
       ELSE UNCHANGED <<call_chan, callInfos, panicked>>
    /\ UNCHANGED <<caller, expired, missed, isClose, done, matched, timing, popping, sweep,
                   serverVars>>

-----------------------------------------------------------------------------
(* on_response_handle: blocked in brpop until an answer is there; isClose  *)
(* is only looked at after one.                                            *)

\* callInfos.Get, or a warning when the entry is gone.
PopAnswer(c) ==
    /\ Alive
    /\ popping /\ matched = {}
    /\ c \in callback_list
    /\ callback_list' = callback_list \ {c}
    /\ matched' = callInfos \cap {c}
    /\ popping' = (matched' # {} \/ ~isClose)
    /\ UNCHANGED <<caller, callInfos, call_chan, expired, missed, isClose, done, scan, timing,
                   sweep, call_queue, server, running, panicked>>

\* callInfos.Remove, and the assertion that the stored pointer is a ClientCallInfo.
AssertMatched(c) ==
    /\ Alive
    /\ c \in matched
    /\ matched' = {}
    /\ callInfos' = callInfos \ {c}
    /\ panicked' = "assertion"
    /\ UNCHANGED <<caller, call_chan, expired, missed, isClose, done, scan, timing, popping, sweep,
                   serverVars>>

-----------------------------------------------------------------------------
DoneDelete ==
    /\ Alive
    /\ done = "idle"
    /\ done' = "deleted"
    /\ callback_list' = {}
    /\ UNCHANGED <<caller, callInfos, call_chan, expired, missed, isClose, matched, scan, timing,
                   popping, sweep, call_queue, server, running, panicked>>

DoneMark ==
    /\ Alive
    /\ done = "deleted"
    /\ done' = "closing"
    /\ isClose' = TRUE
    /\ UNCHANGED <<caller, callInfos, call_chan, expired, missed, matched, scan, timing, popping,
                   sweep, serverVars, panicked>>

\* A mutated form: Done does not wait for the scan to end.
DoneJoinAnytime ==
    /\ Alive
    /\ done = "closing"
    /\ done' = "joined"
    /\ timing' = FALSE
    /\ UNCHANGED <<caller, callInfos, call_chan, expired, missed, isClose, matched, scan, popping,
                   sweep, serverVars, panicked>>

\* timeout_done <- nil: taken when the goroutine is between two scans.
DoneJoin ==
    /\ Alive
    /\ done = "closing"
    /\ scan = {}
    /\ done' = "joined"
    /\ timing' = FALSE
    /\ UNCHANGED <<caller, callInfos, call_chan, expired, missed, isClose, matched, scan, popping,
                   sweep, serverVars, panicked>>

DoneCopy ==
    /\ Alive
    /\ done = "joined"
    /\ done' = "sweeping"
    /\ sweep' = callInfos
    /\ UNCHANGED <<caller, callInfos, call_chan, expired, missed, isClose, matched, scan, timing,
                   popping, serverVars, panicked>>

\* A mutated form: Done takes the entry out of the table and leaves its channel open.
DoneLeavesOpen(c) ==
    /\ Alive
    /\ done = "sweeping" /\ c \in sweep
    /\ sweep' = sweep \ {c}
    /\ callInfos' = callInfos \ {c}
    /\ UNCHANGED <<caller, call_chan, expired, missed, isClose, done, matched, scan, timing,
                   popping, serverVars, panicked>>

DoneOne(c) ==
    /\ Alive
    /\ done = "sweeping" /\ c \in sweep
    /\ sweep' = sweep \ {c}
    /\ Settle(c, "closed")
    /\ callInfos' = callInfos \ {c}
    /\ UNCHANGED <<caller, expired, missed, isClose, done, matched, scan, timing, popping,
                   serverVars>>

DoneReturn ==
    /\ Alive
    /\ done = "sweeping" /\ sweep = {}
    /\ done' = "finished"
    /\ UNCHANGED <<caller, callInfos, call_chan, expired, missed, isClose, matched, scan, timing,
                   popping, sweep, serverVars, panicked>>

-----------------------------------------------------------------------------
(* redisServer.on_request_handle, the function, and Callback.              *)

\* The pop that was blocked when the server was closed can still take a request.
TakeRequest(c) ==
    /\ Alive
    /\ c \in call_queue
    /\ server # "gone"
    /\ call_queue' = call_queue \ {c}
    /\ server' = IF server = "closing" THEN "gone" ELSE server
    /\ running' = IF c \in NoReply THEN running ELSE running \cup {c}
    /\ UNCHANGED <<clientVars, callback_list, panicked>>

\* Callback: lpush of the answer, or its error.
Callback(c) ==
    /\ Alive
    /\ c \in running
    /\ running' = running \ {c}
    /\ \E failed \in BOOLEAN :
          callback_list' = IF failed THEN callback_list ELSE callback_list \cup {c}
    /\ UNCHANGED <<clientVars, call_queue, server, panicked>>

\* StopConsume, and Shutdown, which does the same.
StopConsume ==
    /\ Alive
    /\ server = "open"
    /\ server' = "closing"
    /\ UNCHANGED <<clientVars, call_queue, callback_list, running, panicked>>

\* brpop returns with an error, its connection being closed.
PopFails ==
    /\ Alive
    /\ server = "closing"
    /\ server' = "gone"
    /\ UNCHANGED <<clientVars, call_queue, callback_list, running, panicked>>

-----------------------------------------------------------------------------
CallerNext(c) == Register(c) \/ Push(c) \/ Receive(c)
DoneNext == DoneMark \/ DoneJoin \/ DoneCopy \/ DoneReturn \/ \E c \in Calls : DoneOne(c)

Next ==
    \/ \E c \in Calls : Refuse(c) \/ Check(c) \/ CallerNext(c) \/ Expire(c) \/ ScanOne(c)
                        \/ PopAnswer(c) \/ AssertMatched(c) \/ TakeRequest(c) \/ Callback(c)
    \/ Copy \/ DoneDelete \/ DoneNext \/ StopConsume \/ PopFails

Spec == Init /\ [][Next]_vars

-----------------------------------------------------------------------------
\* No channel of a call is sent to or closed a second time: the scan and Done work on
\* copies of the table, and Done waits for the scan to end before it takes its own.
SettledOnce == panicked # "call_chan"

\* How a started call ends: it returns and its entry leaves the table, even when its lpush
\* failed; a call that is in the table when Done takes its copy ends as well, whatever the
\* scan and the server do. Two ends are excepted: the answer that kills the process, and a
\* call that passed the check and registered when Done had taken its copy.
Ended(c) ==
    \/ caller[c] \in Returned /\ c \notin callInfos
    \/ ~Alive
    \/ c \in missed
=============================================================================
