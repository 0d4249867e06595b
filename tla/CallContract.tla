---------------------------- MODULE CallContract ----------------------------
(***************************************************************************)
(* What an RPC client promises the code that calls through it, whatever    *)
(* transport carries the request: a call is refused at once, or it is      *)
(* opened and later settled, once, by one of three outcomes (the server's  *)
(* answer, the deadline, the client being shut down), and the outcome      *)
(* never changes afterwards.  Calls that want no answer are not tracked.   *)
(***************************************************************************)
CONSTANT Calls

VARIABLE outcome

Settled == {"reply", "timeout", "closed"}

TypeOK == outcome \in [Calls -> {"none", "open", "refused"} \cup Settled]

Init == outcome = [c \in Calls |-> "none"]

Open(c) ==
    /\ outcome[c] = "none"
    /\ outcome' = [outcome EXCEPT ![c] = "open"]

Refuse(c) ==
    /\ outcome[c] = "none"
    /\ outcome' = [outcome EXCEPT ![c] = "refused"]

Settle(c) ==
    /\ outcome[c] = "open"
    /\ \E how \in Settled : outcome' = [outcome EXCEPT ![c] = how]

Next == \E c \in Calls : Open(c) \/ Refuse(c) \/ Settle(c)

Spec == Init /\ [][Next]_outcome
=============================================================================
