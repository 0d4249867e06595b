-------------------------- MODULE LocalClient_proofs --------------------------
(***************************************************************************)
(* Proofs about LocalClient, for any number of calls and any capacity of   *)
(* result_chan: its type invariant, that every call is settled at most     *)
(* once, and that it implements CallContract.                              *)
(***************************************************************************)
EXTENDS LocalClient, TLAPS

\* The channel of a call that nobody has settled.
Fresh == [buf |-> "empty", open |-> TRUE]

\* A call in the table is under way and unsettled.
TableInv ==
    /\ callInfos \cap NoReply = {}
    /\ \A c \in callInfos : /\ caller[c] \in {"writing", "awaiting"}
                            /\ call_chan[c] = Fresh

\* Calls that have not been registered have a fresh channel.
CallerInv ==
    \A c \in Calls :
        /\ caller[c] \in {"idle", "checked"} \/ c \in NoReply => call_chan[c] = Fresh
        /\ c \in NoReply => caller[c] \notin {"checked", "awaiting", "closed", "reply", "timeout"}
        /\ caller[c] = "sent" => c \in NoReply

\* What on_response_handle holds in its hands belongs to it alone.
ResponseInv ==
    /\ on_response.at = "exit" <=> done \notin {"idle", "stop"}
    /\ on_response.at \in {"select", "exit", "scan"} => on_response.cid = None
    /\ on_response.at \in {"select", "exit", "lookup", "reply"} => on_response.todo = {}
    /\ on_response.at \in {"lookup", "reply", "timeout", "close"} =>
          on_response.cid \in Calls
    /\ on_response.todo \subseteq callInfos
    /\ on_response.at \in {"reply", "timeout"} =>
          /\ on_response.cid \notin callInfos
          /\ on_response.cid \notin NoReply
          /\ caller[on_response.cid] \in {"writing", "awaiting"}
          /\ call_chan[on_response.cid] = Fresh
    /\ on_response.at = "close" =>
          /\ on_response.cid \notin callInfos
          /\ on_response.cid \notin NoReply
          /\ call_chan[on_response.cid].open
          /\ \/ /\ caller[on_response.cid] \in {"writing", "awaiting"}
                /\ call_chan[on_response.cid].buf # "empty"
             \/ caller[on_response.cid] \in {"reply", "timeout"}

\* What Done still has to close is in the table, and on_response_handle is gone.
SweepInv == sweep \subseteq callInfos /\ (done # "sweep" => sweep = {})

\* A channel that is closed and empty under a caller that waits was closed by Done.
ClosedInv ==
    \A c \in Calls :
        \/ caller[c] = "closed"
        \/ caller[c] \in {"writing", "awaiting"} /\ call_chan[c] = [buf |-> "empty", open |-> FALSE]
        => done \in {"sweep", "finished"}

IInv ==
    /\ TypeOK
    /\ TableInv
    /\ CallerInv
    /\ ResponseInv
    /\ SweepInv
    /\ ClosedInv
    /\ panicked # "call_chan"

-----------------------------------------------------------------------------
LEMMA InitIInv == Init => IInv
<1> SUFFICES ASSUME Init PROVE IInv
    OBVIOUS
<1>1. TypeOK
  <2>1. <<>> \in Seq(Calls) /\ Len(<<>>) = 0
      OBVIOUS
  <2>2. result_chan \in [buf : Seq(Calls), open : BOOLEAN] /\ Len(result_chan.buf) <= ResultCap
      BY <2>1, LocalClientAssumption DEF Init
  <2>3. QED
      BY <2>2 DEF Init, TypeOK, CallerState, Returned, Channel, Causes, Selecting
<1>2. TableInv /\ CallerInv /\ SweepInv /\ ClosedInv
    BY DEF Init, TableInv, CallerInv, SweepInv, ClosedInv, Fresh
<1>3. ResponseInv
    BY DEF Init, ResponseInv, Selecting
<1>4. QED
    BY <1>1, <1>2, <1>3 DEF IInv, Init

\* What the three kinds of update of a call's channel do to it, and to no other.
LEMMA SendToCall ==
    ASSUME TypeOK, NEW c \in Calls, NEW b \in {"empty", "reply", "timeout"},
           call_chan' = [call_chan EXCEPT ![c].buf = b]
    PROVE  /\ call_chan' \in [Calls -> Channel]
           /\ call_chan'[c] = [buf |-> b, open |-> call_chan[c].open]
           /\ \A d \in Calls \ {c} : call_chan'[d] = call_chan[d]
<1>1. call_chan[c] \in Channel
    BY DEF TypeOK
<1>2. [call_chan[c] EXCEPT !.buf = b] = [buf |-> b, open |-> call_chan[c].open]
    BY <1>1 DEF Channel
<1>3. QED
    BY <1>1, <1>2 DEF TypeOK, Channel

LEMMA CloseCall ==
    ASSUME TypeOK, NEW c \in Calls,
           call_chan' = [call_chan EXCEPT ![c].open = FALSE]
    PROVE  /\ call_chan' \in [Calls -> Channel]
           /\ call_chan'[c] = [buf |-> call_chan[c].buf, open |-> FALSE]
           /\ \A d \in Calls \ {c} : call_chan'[d] = call_chan[d]
<1>1. call_chan[c] \in Channel
    BY DEF TypeOK
<1>2. [call_chan[c] EXCEPT !.open = FALSE] = [buf |-> call_chan[c].buf, open |-> FALSE]
  <2>1. ASSUME NEW x \in Channel, NEW o \in BOOLEAN
        PROVE  [x EXCEPT !.open = o] = [buf |-> x.buf, open |-> o]
      BY DEF Channel
  <2>2. QED
      BY <1>1, <2>1
<1>3. QED
    BY <1>1, <1>2 DEF TypeOK, Channel

LEMMA StepIInv == IInv /\ [Next]_vars => IInv'
<1> SUFFICES ASSUME IInv, [Next]_vars PROVE IInv'
    OBVIOUS
<1> USE LocalClientAssumption DEF IInv, TypeOK, CallerState, Returned, Channel, Causes, Selecting,
          Alive, clientVars
<1>1. ASSUME NEW c \in Calls, Refuse(c) PROVE IInv'
    BY <1>1 DEF Refuse, TableInv, CallerInv, ResponseInv, SweepInv, ClosedInv, Fresh
<1>2. ASSUME NEW c \in Calls, Check(c) PROVE IInv'
    BY <1>2 DEF Check, TableInv, CallerInv, ResponseInv, SweepInv, ClosedInv, Fresh
<1>3. ASSUME NEW c \in Calls, Register(c) PROVE IInv'
  <2>1. /\ c \notin NoReply /\ call_chan[c] = Fresh /\ c \notin callInfos
        /\ on_response.at \in {"reply", "timeout", "close"} => on_response.cid # c
      BY <1>3 DEF Register, CallerInv, TableInv, ResponseInv
  <2>2. TypeOK'
      BY <1>3, <2>1 DEF Register
  <2>3. TableInv'
    <3>1. ASSUME NEW d \in callInfos' PROVE caller'[d] \in {"writing", "awaiting"} /\ call_chan'[d] = Fresh
      <4>1. CASE d = c
          BY <1>3, <2>1, <4>1 DEF Register
      <4>2. CASE d # c
          BY <1>3, <4>2 DEF Register, TableInv
      <4>3. QED
          BY <4>1, <4>2
    <3>2. QED
        BY <1>3, <2>1, <3>1 DEF Register, TableInv
  <2>4. CallerInv'
      BY <1>3, <2>1 DEF Register, CallerInv, Fresh
  <2>5. ResponseInv'
      BY <1>3, <2>1 DEF Register, ResponseInv, Fresh
  <2>6. SweepInv'
      BY <1>3, <2>1 DEF Register, SweepInv
  <2>7. ClosedInv'
    <3>1. ASSUME NEW d \in Calls, d # c PROVE caller'[d] = caller[d] /\ call_chan'[d] = call_chan[d]
        BY <1>3, <3>1 DEF Register
    <3>2. caller'[c] = "writing" /\ call_chan'[c].open
        BY <1>3, <2>1 DEF Register, Fresh
    <3>3. done' = done
        BY <1>3 DEF Register
    <3>4. QED
        BY <3>1, <3>2, <3>3 DEF ClosedInv
  <2>8. QED
      BY <1>3, <2>1, <2>2, <2>3, <2>4, <2>5, <2>6, <2>7 DEF Register
<1>4. ASSUME NEW c \in Calls, Accepted(c) PROVE IInv'
    BY <1>4 DEF Accepted, WriteReturns, AfterWrite, TableInv, CallerInv, ResponseInv, SweepInv, ClosedInv, Fresh
<1>5. ASSUME NEW c \in Calls, Ignored(c) PROVE IInv'
    BY <1>5 DEF Ignored, WriteReturns, AfterWrite, TableInv, CallerInv, ResponseInv, SweepInv, ClosedInv, Fresh
<1>6. ASSUME NEW c \in Calls, Receive(c) PROVE IInv'
  <2>1. /\ call_chan' \in [Calls -> Channel]
        /\ call_chan'[c] = [buf |-> "empty", open |-> call_chan[c].open]
        /\ \A d \in Calls \ {c} : call_chan'[d] = call_chan[d]
      BY <1>6, SendToCall DEF Receive
  <2>2. c \notin callInfos /\ c \notin NoReply /\ call_chan[c].buf \in {"reply", "timeout"}
      BY <1>6 DEF Receive, TableInv, CallerInv, Fresh
  <2>3. TypeOK'
      BY <1>6, <2>1, <2>2 DEF Receive
  <2>4. TableInv'
      BY <1>6, <2>1, <2>2 DEF Receive, TableInv, Fresh
  <2>5. CallerInv'
    <3>1. ASSUME NEW d \in Calls, d # c PROVE caller'[d] = caller[d] /\ call_chan'[d] = call_chan[d]
        BY <1>6, <2>1, <3>1 DEF Receive
    <3>2. caller'[c] \in {"reply", "timeout"}
        BY <1>6, <2>2 DEF Receive
    <3>3. QED
        BY <2>2, <3>1, <3>2 DEF CallerInv
  <2>6. ResponseInv'
      BY <1>6, <2>1, <2>2 DEF Receive, ResponseInv, TableInv, Fresh
  <2>7. SweepInv'
      BY <1>6, <2>1, <2>2 DEF Receive, SweepInv
  <2>8. ClosedInv'
      BY <1>6, <2>1, <2>2 DEF Receive, ClosedInv, Fresh
  <2>9. QED
      BY <1>6, <2>1, <2>2, <2>3, <2>4, <2>5, <2>6, <2>7, <2>8 DEF Receive
<1>7. ASSUME NEW c \in Calls, ReceiveClosed(c) PROVE IInv'
    BY <1>7 DEF ReceiveClosed, TableInv, CallerInv, ResponseInv, SweepInv, ClosedInv, Fresh
<1>8. ASSUME NEW c \in Calls, Expire(c) PROVE IInv'
    BY <1>8 DEF Expire, TableInv, CallerInv, ResponseInv, SweepInv, ClosedInv, Fresh
<1>9. ASSUME NEW c \in Calls, Scan(c) PROVE IInv'
    BY <1>9 DEF Scan, Proceed, TableInv, CallerInv, ResponseInv, SweepInv, ClosedInv, Fresh
<1>10. ASSUME NEW c \in Calls, Deliver(c) PROVE IInv'
  <2>1. c \notin callInfos /\ c \notin NoReply /\ call_chan[c] = Fresh /\ caller[c] \in {"writing", "awaiting"}
      BY <1>10 DEF Deliver, ResponseInv
  <2>2. /\ call_chan' = [call_chan EXCEPT ![c].buf = on_response.at]
        /\ on_response' = [on_response EXCEPT !.at = "close"]
        /\ UNCHANGED <<caller, callInfos, result_chan, isClose, done, sweep, expired, inflight, panicked>>
      BY <1>10, <2>1 DEF Deliver, Fresh
  <2>3. /\ call_chan' \in [Calls -> Channel]
        /\ call_chan'[c] = [buf |-> on_response.at, open |-> TRUE]
        /\ \A d \in Calls \ {c} : call_chan'[d] = call_chan[d]
      BY <1>10, <2>1, <2>2, SendToCall DEF Deliver, Fresh
  <2>4. on_response.at \in {"reply", "timeout"} /\ on_response.cid = c
      BY <1>10 DEF Deliver
  <2>5. TypeOK'
      BY <2>1, <2>2, <2>3, <2>4
  <2>6. TableInv'
      BY <2>1, <2>2, <2>3, <2>4 DEF TableInv, Fresh
  <2>7. CallerInv'
      BY <2>1, <2>2, <2>3, <2>4 DEF CallerInv, Fresh
  <2>8. ResponseInv'
      BY <2>1, <2>2, <2>3, <2>4 DEF ResponseInv, TableInv, Fresh
  <2>9. SweepInv'
      BY <2>1, <2>2, <2>3, <2>4 DEF SweepInv
  <2>10. ClosedInv'
      BY <2>1, <2>2, <2>3, <2>4 DEF ClosedInv, Fresh
  <2>11. QED
      BY <2>1, <2>2, <2>3, <2>4, <2>5, <2>6, <2>7, <2>8, <2>9, <2>10
<1>11. ASSUME NEW c \in Calls, CloseDelivered(c) PROVE IInv'
  <2>1. c \notin callInfos /\ c \notin NoReply /\ call_chan[c].open
      BY <1>11 DEF CloseDelivered, ResponseInv
  <2>2. /\ call_chan' = [call_chan EXCEPT ![c].open = FALSE]
        /\ on_response' = Proceed(on_response.todo)
        /\ UNCHANGED <<caller, callInfos, result_chan, isClose, done, sweep, expired, inflight, panicked>>
      BY <1>11, <2>1 DEF CloseDelivered, CloseChan
  <2>3. /\ call_chan' \in [Calls -> Channel]
        /\ call_chan'[c] = [buf |-> call_chan[c].buf, open |-> FALSE]
        /\ \A d \in Calls \ {c} : call_chan'[d] = call_chan[d]
      BY <2>2, CloseCall
  <2>4. on_response.at = "close" /\ on_response.cid = c
      BY <1>11 DEF CloseDelivered
  <2>5. TypeOK'
      BY <2>1, <2>2, <2>3, <2>4 DEF Proceed
  <2>6. TableInv'
      BY <2>1, <2>2, <2>3, <2>4 DEF Proceed, TableInv, Fresh
  <2>7. CallerInv'
    <3>1. caller[c] \in {"writing", "awaiting", "reply", "timeout"}
        BY <2>4 DEF ResponseInv
    <3>2. QED
        BY <2>1, <2>2, <2>3, <3>1 DEF CallerInv
  <2>8. ResponseInv'
      BY <2>1, <2>2, <2>3, <2>4 DEF Proceed, ResponseInv, TableInv, Fresh
  <2>9. SweepInv'
      BY <2>1, <2>2, <2>3, <2>4 DEF Proceed, SweepInv
  <2>10. ClosedInv'
      BY <2>1, <2>2, <2>3, <2>4 DEF Proceed, ClosedInv, ResponseInv
  <2>11. QED
      BY <2>1, <2>2, <2>3, <2>4, <2>5, <2>6, <2>7, <2>8, <2>9, <2>10 DEF Proceed
<1>12. ASSUME NEW c \in Calls, DoneSweep(c) PROVE IInv'
  <2>1. c \in callInfos /\ c \notin NoReply /\ call_chan[c] = Fresh /\ caller[c] \in {"writing", "awaiting"}
      BY <1>12 DEF DoneSweep, SweepInv, TableInv
  <2>2. /\ call_chan' = [call_chan EXCEPT ![c].open = FALSE]
        /\ callInfos' = callInfos \ {c}
        /\ sweep' = sweep \ {c}
        /\ UNCHANGED <<caller, result_chan, isClose, on_response, done, expired, inflight, panicked>>
      BY <1>12, <2>1 DEF DoneSweep, CloseChan, Fresh
  <2>3. /\ call_chan' \in [Calls -> Channel]
        /\ call_chan'[c] = [buf |-> "empty", open |-> FALSE]
        /\ \A d \in Calls \ {c} : call_chan'[d] = call_chan[d]
    <3>1. call_chan[c].buf = "empty"
        BY <2>1 DEF Fresh
    <3>2. QED
        BY <2>2, <3>1, CloseCall
  <2>4. done = "sweep" /\ on_response.at = "exit" /\ on_response.todo = {}
      BY <1>12 DEF DoneSweep, ResponseInv
  <2>5. TypeOK'
      BY <2>1, <2>2, <2>3, <2>4
  <2>6. TableInv'
      BY <2>1, <2>2, <2>3, <2>4 DEF TableInv, Fresh
  <2>7. CallerInv'
      BY <2>1, <2>2, <2>3, <2>4 DEF CallerInv, Fresh
  <2>8. ResponseInv'
      BY <2>1, <2>2, <2>3, <2>4 DEF ResponseInv, TableInv, Fresh
  <2>9. SweepInv'
      BY <2>1, <2>2, <2>3, <2>4 DEF SweepInv
  <2>10. ClosedInv'
      BY <2>1, <2>2, <2>3, <2>4 DEF ClosedInv, Fresh
  <2>11. QED
      BY <2>1, <2>2, <2>3, <2>4, <2>5, <2>6, <2>7, <2>8, <2>9, <2>10
<1>13. ASSUME NEW c \in Calls, ServerReplies(c) PROVE IInv'
  <2>1. result_chan' = [buf |-> Append(result_chan.buf, c), open |-> TRUE]
      BY <1>13 DEF ServerReplies
  <2>2. /\ Append(result_chan.buf, c) \in Seq(Calls)
        /\ Len(Append(result_chan.buf, c)) <= ResultCap
      BY <1>13 DEF ServerReplies
  <2>3. result_chan' \in [buf : Seq(Calls), open : BOOLEAN] /\ Len(result_chan'.buf) <= ResultCap
      BY <2>1, <2>2
  <2>4. TypeOK'
      BY <1>13, <2>3 DEF ServerReplies
  <2>5. TableInv'
      BY <1>13, <2>3 DEF ServerReplies, TableInv, Fresh
  <2>6. CallerInv'
      BY <1>13, <2>3 DEF ServerReplies, CallerInv, Fresh
  <2>7. ResponseInv'
      BY <1>13, <2>3 DEF ServerReplies, ResponseInv, TableInv, Fresh
  <2>8. SweepInv'
      BY <1>13, <2>3 DEF ServerReplies, SweepInv
  <2>9. ClosedInv'
      BY <1>13, <2>3 DEF ServerReplies, ClosedInv, Fresh
  <2>10. QED
      BY <1>13, <2>3, <2>4, <2>5, <2>6, <2>7, <2>8, <2>9 DEF ServerReplies
<1>14. ASSUME NEW c \in Calls, ServerPanics(c) PROVE IInv'
    BY <1>14 DEF ServerPanics, TableInv, CallerInv, ResponseInv, SweepInv, ClosedInv, Fresh
<1>15. ASSUME NEW c \in Calls, ServerForgets(c) PROVE IInv'
    BY <1>15 DEF ServerForgets, TableInv, CallerInv, ResponseInv, SweepInv, ClosedInv, Fresh
<1>16. CASE TakeResult
  <2>1. result_chan' = [buf |-> Tail(result_chan.buf), open |-> result_chan.open]
      BY <1>16 DEF TakeResult
  <2>2. /\ Head(result_chan.buf) \in Calls
        /\ Tail(result_chan.buf) \in Seq(Calls)
        /\ Len(Tail(result_chan.buf)) <= ResultCap
      BY <1>16 DEF TakeResult
  <2>3. result_chan' \in [buf : Seq(Calls), open : BOOLEAN] /\ Len(result_chan'.buf) <= ResultCap
      BY <2>1, <2>2
  <2>4. TypeOK'
      BY <1>16, <2>2, <2>3 DEF TakeResult
  <2>5. TableInv'
      BY <1>16, <2>2, <2>3 DEF TakeResult, TableInv, Fresh
  <2>6. CallerInv'
      BY <1>16, <2>2, <2>3 DEF TakeResult, CallerInv, Fresh
  <2>7. ResponseInv'
      BY <1>16, <2>2, <2>3 DEF TakeResult, ResponseInv, TableInv, Fresh
  <2>8. SweepInv'
      BY <1>16, <2>2, <2>3 DEF TakeResult, SweepInv
  <2>9. ClosedInv'
      BY <1>16, <2>2, <2>3 DEF TakeResult, ClosedInv, Fresh
  <2>10. QED
      BY <1>16, <2>2, <2>3, <2>4, <2>5, <2>6, <2>7, <2>8, <2>9 DEF TakeResult
<1>17. CASE Lookup
    BY <1>17 DEF Lookup, TableInv, CallerInv, ResponseInv, SweepInv, ClosedInv, Fresh
<1>18. CASE TimerFires
    BY <1>18 DEF TimerFires, TableInv, CallerInv, ResponseInv, SweepInv, ClosedInv, Fresh
<1>19. CASE DoneStop
    BY <1>19 DEF DoneStop, TableInv, CallerInv, ResponseInv, SweepInv, ClosedInv, Fresh
<1>20. CASE DoneJoin
    BY <1>20 DEF DoneJoin, TableInv, CallerInv, ResponseInv, SweepInv, ClosedInv, Fresh
<1>21. CASE DoneCloseResults
    BY <1>21 DEF DoneCloseResults, TableInv, CallerInv, ResponseInv, SweepInv, ClosedInv, Fresh
<1>22. CASE DoneItems
    BY <1>22 DEF DoneItems, TableInv, CallerInv, ResponseInv, SweepInv, ClosedInv, Fresh
<1>23. CASE DoneReturn
    BY <1>23 DEF DoneReturn, TableInv, CallerInv, ResponseInv, SweepInv, ClosedInv, Fresh
<1>24. CASE ServerDies
    BY <1>24 DEF ServerDies, TableInv, CallerInv, ResponseInv, SweepInv, ClosedInv, Fresh
<1>25. CASE UNCHANGED vars
    BY <1>25 DEF vars, TableInv, CallerInv, ResponseInv, SweepInv, ClosedInv, Fresh
<1>26. QED
    BY <1>1, <1>2, <1>3, <1>4, <1>5, <1>6, <1>7, <1>8, <1>9, <1>10, <1>11, <1>12, <1>13, <1>14, <1>15, <1>16, <1>17, <1>18, <1>19, <1>20, <1>21, <1>22, <1>23, <1>24, <1>25 DEF Next, CallerNext, ServerNext, ResponseNext, DoneNext

THEOREM InvariantHolds == Spec => []IInv
BY InitIInv, StepIInv, PTL DEF Spec

-----------------------------------------------------------------------------
\* The state of the client is always of its type.
THEOREM TypeCorrect == Spec => []TypeOK
BY InvariantHolds, PTL DEF IInv

\* No call is settled twice: nothing is sent on a closed call_chan, none is closed
\* twice, and on_response_handle finds room in the one it sends on, whatever the
\* order of results, timeouts, late results and Done.
THEOREM NeverSettledTwice == Spec => []SettledOnce
<1>1. IInv => SettledOnce
    BY DEF IInv, SettledOnce, ResponseInv, Fresh
<1>2. QED
    BY <1>1, InvariantHolds, PTL

\* "rpc client closed" is returned only by a client on which Done was called.
THEOREM OnlyDoneCloses == Spec => []ClosedOnlyByDone
<1>1. IInv => ClosedOnlyByDone
    BY DEF IInv, ClosedOnlyByDone, ClosedInv
<1>2. QED
    BY <1>1, InvariantHolds, PTL

-----------------------------------------------------------------------------
(* Refinement: each step of the client is, seen through outcomeOf, a step  *)
(* of CallContract or no step at all.                                      *)

LEMMA InitContract == Init => Contract!Init
BY DEF Init, Contract!Init, outcomeOf, Returned

\* A step that changes nothing but possibly one call c changes one outcome at most.
LEMMA OneOutcome ==
    ASSUME NEW c \in Calls,
           \A d \in Calls \ {c} : caller'[d] = caller[d] /\ call_chan'[d] = call_chan[d]
    PROVE  \A d \in (Calls \ NoReply) \ {c} : outcomeOf'[d] = outcomeOf[d]
BY DEF outcomeOf

LEMMA StepContract == IInv /\ [Next]_vars => [Contract!Next]_outcomeOf
<1> SUFFICES ASSUME IInv, [Next]_vars PROVE [Contract!Next]_outcomeOf
    OBVIOUS
<1>a. ASSUME UNCHANGED <<caller, call_chan>> PROVE UNCHANGED outcomeOf
    BY <1>a DEF outcomeOf
<1>b. ASSUME NEW c \in Calls \ NoReply, NEW o,
             \A d \in Calls \ {c} : caller'[d] = caller[d] /\ call_chan'[d] = call_chan[d],
             outcomeOf'[c] = o
      PROVE  outcomeOf' = [outcomeOf EXCEPT ![c] = o]
  <2>1. \A d \in (Calls \ NoReply) \ {c} : outcomeOf'[d] = outcomeOf[d]
      BY <1>b, OneOutcome
  <2>2. /\ outcomeOf = [d \in Calls \ NoReply |-> outcomeOf[d]]
        /\ outcomeOf' = [d \in Calls \ NoReply |-> outcomeOf'[d]]
      BY DEF outcomeOf
  <2>3. QED
      BY <1>b, <2>1, <2>2
<1>c. ASSUME NEW c \in NoReply,
             \A d \in Calls \ {c} : caller'[d] = caller[d] /\ call_chan'[d] = call_chan[d]
      PROVE  UNCHANGED outcomeOf
    BY <1>c, LocalClientAssumption DEF outcomeOf
<1>1. ASSUME NEW c \in Calls, Refuse(c) PROVE [Contract!Next]_outcomeOf
  <2>1. \A d \in Calls \ {c} : caller'[d] = caller[d] /\ call_chan'[d] = call_chan[d]
      BY <1>1 DEF Refuse, IInv, TypeOK
  <2>2. CASE c \in NoReply
      BY <1>c, <2>1, <2>2
  <2>3. CASE c \notin NoReply
    <3>1. outcomeOf[c] = "none" /\ outcomeOf'[c] = "refused"
        BY <1>1, <2>3 DEF Refuse, IInv, TypeOK, outcomeOf, Returned
    <3>2. outcomeOf' = [outcomeOf EXCEPT ![c] = "refused"]
        BY <1>b, <2>1, <2>3, <3>1
    <3>3. QED
        BY <2>3, <3>1, <3>2 DEF Contract!Next, Contract!Refuse
  <2>4. QED
      BY <2>2, <2>3
<1>2. ASSUME NEW c \in Calls, Check(c) PROVE [Contract!Next]_outcomeOf
  <2>1. \A d \in Calls \ {c} : caller'[d] = caller[d] /\ call_chan'[d] = call_chan[d]
      BY <1>2 DEF Check, IInv, TypeOK
  <2>2. CASE c \in NoReply
      BY <1>c, <2>1, <2>2
  <2>3. CASE c \notin NoReply
    <3>1. outcomeOf[c] = "none" /\ outcomeOf'[c] = "none"
        BY <1>2, <2>3 DEF Check, IInv, TypeOK, outcomeOf, Returned
    <3>2. QED
        BY <2>1, <2>3, <3>1, OneOutcome DEF outcomeOf
  <2>4. QED
      BY <2>2, <2>3
<1>3. ASSUME NEW c \in Calls, Register(c) PROVE [Contract!Next]_outcomeOf
  <2>1. \A d \in Calls \ {c} : caller'[d] = caller[d] /\ call_chan'[d] = call_chan[d]
      BY <1>3 DEF Register, IInv, TypeOK
  <2>2. c \notin NoReply /\ call_chan[c] = Fresh
      BY <1>3 DEF Register, IInv, CallerInv
  <2>3. outcomeOf[c] = "none" /\ outcomeOf'[c] = "open"
      BY <1>3, <2>2 DEF Register, IInv, TypeOK, outcomeOf, Returned, Fresh
  <2>4. outcomeOf' = [outcomeOf EXCEPT ![c] = "open"]
      BY <1>b, <2>1, <2>2, <2>3
  <2>5. QED
      BY <2>2, <2>3, <2>4 DEF Contract!Next, Contract!Open
<1>4. ASSUME NEW c \in Calls, WriteReturns(c) PROVE [Contract!Next]_outcomeOf
  <2>1. \A d \in Calls \ {c} : caller'[d] = caller[d] /\ call_chan'[d] = call_chan[d]
      BY <1>4 DEF WriteReturns, IInv, TypeOK
  <2>2. CASE c \in NoReply
      BY <1>c, <2>1, <2>2
  <2>3. CASE c \notin NoReply
    <3>1. outcomeOf'[c] = outcomeOf[c]
        BY <1>4, <2>3 DEF WriteReturns, AfterWrite, IInv, TypeOK, outcomeOf, Returned
    <3>2. QED
        BY <2>1, <2>3, <3>1, OneOutcome DEF outcomeOf
  <2>4. QED
      BY <2>2, <2>3
<1>5. ASSUME NEW c \in Calls, Receive(c) PROVE [Contract!Next]_outcomeOf
  <2>1. \A d \in Calls \ {c} : caller'[d] = caller[d] /\ call_chan'[d] = call_chan[d]
      BY <1>5 DEF Receive, IInv, TypeOK
  <2>2. c \notin NoReply /\ call_chan[c].buf \in {"reply", "timeout"}
      BY <1>5 DEF Receive, IInv, TypeOK, Channel, CallerInv, Fresh
  <2>3. outcomeOf'[c] = outcomeOf[c]
      BY <1>5, <2>2 DEF Receive, IInv, TypeOK, outcomeOf, Returned
  <2>4. QED
      BY <2>1, <2>2, <2>3, OneOutcome DEF outcomeOf
<1>6. ASSUME NEW c \in Calls, ReceiveClosed(c) PROVE [Contract!Next]_outcomeOf
  <2>1. \A d \in Calls \ {c} : caller'[d] = caller[d] /\ call_chan'[d] = call_chan[d]
      BY <1>6 DEF ReceiveClosed, IInv, TypeOK
  <2>2. c \notin NoReply
      BY <1>6 DEF ReceiveClosed, IInv, CallerInv
  <2>3. outcomeOf'[c] = outcomeOf[c]
      BY <1>6, <2>2 DEF ReceiveClosed, IInv, TypeOK, outcomeOf, Returned
  <2>4. QED
      BY <2>1, <2>2, <2>3, OneOutcome DEF outcomeOf
<1>7. ASSUME NEW c \in Calls, Deliver(c) PROVE [Contract!Next]_outcomeOf
  <2>1. /\ c \notin NoReply /\ call_chan[c] = Fresh /\ caller[c] \in {"writing", "awaiting"}
        /\ on_response.at \in {"reply", "timeout"}
      BY <1>7 DEF Deliver, IInv, ResponseInv
  <2>2. /\ call_chan' = [call_chan EXCEPT ![c].buf = on_response.at]
        /\ caller' = caller
      BY <1>7, <2>1 DEF Deliver, Fresh
  <2>3. /\ call_chan'[c].buf = on_response.at
        /\ \A d \in Calls \ {c} : caller'[d] = caller[d] /\ call_chan'[d] = call_chan[d]
    <3>1. TypeOK /\ on_response.at \in {"empty", "reply", "timeout"}
        BY <2>1 DEF IInv
    <3>2. /\ call_chan'[c] = [buf |-> on_response.at, open |-> call_chan[c].open]
          /\ \A d \in Calls \ {c} : call_chan'[d] = call_chan[d]
        BY <2>2, <3>1, SendToCall
    <3>3. QED
        BY <2>2, <3>2
  <2>4. outcomeOf[c] = "open" /\ outcomeOf'[c] = on_response.at
      BY <2>1, <2>2, <2>3 DEF outcomeOf, Returned, Fresh
  <2>5. outcomeOf' = [outcomeOf EXCEPT ![c] = on_response.at]
      BY <1>b, <2>1, <2>3, <2>4
  <2>6. QED
      BY <2>1, <2>4, <2>5 DEF Contract!Next, Contract!Settle, Contract!Settled
<1>8. ASSUME NEW c \in Calls, CloseDelivered(c) PROVE [Contract!Next]_outcomeOf
  <2>1. /\ call_chan[c].open
        /\ c \notin NoReply
        /\ \/ caller[c] \in {"writing", "awaiting"} /\ call_chan[c].buf # "empty"
           \/ caller[c] \in {"reply", "timeout"}
      BY <1>8 DEF CloseDelivered, IInv, ResponseInv
  <2>2. call_chan' = [call_chan EXCEPT ![c].open = FALSE] /\ caller' = caller
      BY <1>8, <2>1 DEF CloseDelivered, CloseChan
  <2>3. /\ call_chan'[c].buf = call_chan[c].buf
        /\ \A d \in Calls \ {c} : caller'[d] = caller[d] /\ call_chan'[d] = call_chan[d]
    <3>1. /\ call_chan'[c] = [buf |-> call_chan[c].buf, open |-> FALSE]
          /\ \A d \in Calls \ {c} : call_chan'[d] = call_chan[d]
        BY <2>2, CloseCall DEF IInv
    <3>2. QED
        BY <2>2, <3>1
  <2>4. outcomeOf'[c] = outcomeOf[c]
      BY <2>1, <2>2, <2>3 DEF outcomeOf, Returned
  <2>5. QED
      BY <2>1, <2>3, <2>4, OneOutcome DEF outcomeOf
<1>9. ASSUME NEW c \in Calls, DoneSweep(c) PROVE [Contract!Next]_outcomeOf
  <2>1. c \notin NoReply /\ call_chan[c] = Fresh /\ caller[c] \in {"writing", "awaiting"}
      BY <1>9 DEF DoneSweep, IInv, SweepInv, TableInv
  <2>2. call_chan' = [call_chan EXCEPT ![c].open = FALSE] /\ caller' = caller
      BY <1>9, <2>1 DEF DoneSweep, CloseChan, Fresh
  <2>3. /\ call_chan'[c].buf = call_chan[c].buf
        /\ call_chan'[c].open = FALSE
        /\ \A d \in Calls \ {c} : caller'[d] = caller[d] /\ call_chan'[d] = call_chan[d]
    <3>1. /\ call_chan'[c] = [buf |-> call_chan[c].buf, open |-> FALSE]
          /\ \A d \in Calls \ {c} : call_chan'[d] = call_chan[d]
        BY <2>2, CloseCall DEF IInv
    <3>2. QED
        BY <2>2, <3>1
  <2>4. outcomeOf[c] = "open" /\ outcomeOf'[c] = "closed"
      BY <2>1, <2>2, <2>3 DEF outcomeOf, Returned, Fresh
  <2>5. outcomeOf' = [outcomeOf EXCEPT ![c] = "closed"]
      BY <1>b, <2>1, <2>3, <2>4
  <2>6. QED
      BY <2>1, <2>4, <2>5 DEF Contract!Next, Contract!Settle, Contract!Settled
<1>10. ASSUME \/ \E c \in Calls : Expire(c) \/ ServerNext(c) \/ Scan(c)
              \/ TakeResult \/ Lookup \/ TimerFires \/ ServerDies
              \/ DoneStop \/ DoneJoin \/ DoneCloseResults \/ DoneItems \/ DoneReturn
              \/ UNCHANGED vars
       PROVE  [Contract!Next]_outcomeOf
  <2>1. UNCHANGED <<caller, call_chan>>
      BY <1>10 DEF Expire, ServerNext, ServerReplies, ServerPanics, ServerForgets, Scan,
                   TakeResult, Lookup, TimerFires, ServerDies, DoneStop, DoneJoin,
                   DoneCloseResults, DoneItems, DoneReturn, vars, clientVars
  <2>2. QED
      BY <1>a, <2>1
<1>11. QED
    BY <1>1, <1>2, <1>3, <1>4, <1>5, <1>6, <1>7, <1>8, <1>9, <1>10
       DEF Next, CallerNext, Accepted, Ignored, ResponseNext, DoneNext

\* The client implements CallContract: a call is opened once, settled at most once,
\* and its outcome never changes.
THEOREM RefinesContract == Spec => ImplementsContract
BY InvariantHolds, InitContract, StepContract, PTL DEF Spec, ImplementsContract, Contract!Spec
=============================================================================
