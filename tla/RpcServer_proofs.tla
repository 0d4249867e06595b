--------------------------- MODULE RpcServer_proofs ---------------------------
(***************************************************************************)
(* Proofs about RpcServer, for any set of requests, finite or not, and any *)
(* capacities: its type invariant, the accounting of slots and of the wait *)
(* group, that a request is answered at most once, and what Done keeps of  *)
(* the requests it waited for.                                             *)
(***************************************************************************)
EXTENDS RpcServer, FiniteSetTheorems, SequenceTheorems, TLAPS

\* The requests at one of the stages in S.
Region(S) == {r \in Reqs : task[r] \in S}

\* What is in a queue, and that nothing is in it twice.
Elems(q) == {q[i] : i \in 1..Len(q)}
Distinct(q) == \A i, j \in 1..Len(q) : q[i] = q[j] => i = j

Queued == Elems(callback_chan.buf)

SlotInv == IsFiniteSet(Region(HoldsSlot)) /\ ch = Cardinality(Region(HoldsSlot))

GroupInv == IsFiniteSet(Region(Counted)) /\ wg = Cardinality(Region(Counted))

\* What Done waits for can only move forward, and is through when Done goes on.
DoneInv ==
    /\ done \in {"idle", "stopped"} => counted = {}
    /\ \A r \in counted : task[r] \in Counted \cup {"releasing", "ended"}
    /\ done \in {"drained", "deaf", "mute", "finished"} =>
          \A r \in counted : task[r] \in {"releasing", "ended"}
    /\ on_callback.at = "exit" => done \in {"mute", "finished"}

\* A result is in one place at a time: in the queue, in the hands of
\* on_callback_handle, or sent.
QueueInv ==
    /\ Distinct(callback_chan.buf)
    /\ \A r \in Queued : task[r] \in Answered /\ answers[r] = 0
    /\ on_callback.at = "callback" =>
          /\ on_callback.req \in Reqs \ NoReply
          /\ on_callback.req \notin Queued
          /\ task[on_callback.req] \in Answered
          /\ answers[on_callback.req] = 0
    /\ \A r \in Reqs : answers[r] # 0 =>
          answers[r] = 1 /\ task[r] \in Answered /\ r \notin NoReply

\* A result that is wanted does not vanish on its way.
KeptInv ==
    \A r \in Reqs \ NoReply :
        task[r] \in Answered =>
            \/ answers[r] = 1
            \/ r \in Queued
            \/ on_callback.at = "callback" /\ on_callback.req = r

IInv ==
    /\ TypeOK
    /\ SlotInv
    /\ GroupInv
    /\ DoneInv
    /\ QueueInv
    /\ KeptInv

-----------------------------------------------------------------------------
(* Lemmas about the two data structures: regions and queues.               *)

LEMMA StaysPut ==
    ASSUME NEW S, NEW r \in Reqs, NEW from, NEW to, TypeOK, Moves(r, from, to),
           from \in S <=> to \in S
    PROVE  Region(S)' = Region(S)
<1>1. \A q \in Reqs : task'[q] \in S <=> task[q] \in S
    BY DEF TypeOK, Moves
<1>2. QED
    BY <1>1 DEF Region

LEMMA GoesIn ==
    ASSUME NEW S, NEW r \in Reqs, NEW from, NEW to, TypeOK, Moves(r, from, to),
           from \notin S, to \in S, IsFiniteSet(Region(S))
    PROVE  /\ IsFiniteSet(Region(S)')
           /\ Cardinality(Region(S)') = Cardinality(Region(S)) + 1
<1>1. Region(S)' = Region(S) \cup {r} /\ r \notin Region(S)
    BY DEF TypeOK, Moves, Region
<1>2. QED
    BY <1>1, FS_AddElement

LEMMA GoesOut ==
    ASSUME NEW S, NEW r \in Reqs, NEW from, NEW to, TypeOK, Moves(r, from, to),
           from \in S, to \notin S, IsFiniteSet(Region(S))
    PROVE  /\ IsFiniteSet(Region(S)')
           /\ Cardinality(Region(S)) \in Nat \ {0}
           /\ Cardinality(Region(S)') = Cardinality(Region(S)) - 1
<1>1. Region(S)' = Region(S) \ {r} /\ r \in Region(S)
    BY DEF TypeOK, Moves, Region
<1>2. Cardinality(Region(S)) \in Nat \ {0}
    BY <1>1, FS_CardinalityType, FS_EmptySet
<1>3. QED
    BY <1>1, <1>2, FS_RemoveElement

LEMMA QueueAppend ==
    ASSUME NEW q \in Seq(Reqs), NEW r \in Reqs
    PROVE  /\ Append(q, r) \in Seq(Reqs)
           /\ Len(Append(q, r)) = Len(q) + 1
           /\ Elems(Append(q, r)) = Elems(q) \cup {r}
           /\ Distinct(q) /\ r \notin Elems(q) => Distinct(Append(q, r))
<1> DEFINE p == Append(q, r)
<1>1. /\ Len(q) \in Nat /\ p \in Seq(Reqs) /\ Len(p) = Len(q) + 1
      /\ \A i \in 1..Len(q) : p[i] = q[i]
      /\ p[Len(q) + 1] = r
    BY AppendProperties, LenProperties
<1> HIDE DEF p
<1>2. \A i \in 1..Len(p) : i \in 1..Len(q) \/ i = Len(q) + 1
    BY <1>1
<1>3. 1..Len(q) \subseteq 1..Len(p) /\ Len(q) + 1 \in 1..Len(p)
    BY <1>1
<1>4. Elems(p) = Elems(q) \cup {r}
    BY <1>1, <1>2, <1>3 DEF Elems
<1>5. ASSUME Distinct(q), r \notin Elems(q) PROVE Distinct(p)
  <2> SUFFICES ASSUME NEW i \in 1..Len(p), NEW j \in 1..Len(p), p[i] = p[j] PROVE i = j
      BY DEF Distinct
  <2>1. \A k \in 1..Len(q) : q[k] # r
      BY <1>5 DEF Elems
  <2>2. QED
      BY <1>1, <1>2, <1>5, <2>1 DEF Distinct
<1>6. QED
    BY <1>1, <1>4, <1>5 DEF p

LEMMA QueueTail ==
    ASSUME NEW q \in Seq(Reqs), q # <<>>
    PROVE  /\ Head(q) \in Elems(q) /\ Head(q) \in Reqs
           /\ Tail(q) \in Seq(Reqs)
           /\ Len(Tail(q)) = Len(q) - 1
           /\ Elems(q) = Elems(Tail(q)) \cup {Head(q)}
           /\ Distinct(q) => Distinct(Tail(q)) /\ Head(q) \notin Elems(Tail(q))
<1> DEFINE p == Tail(q)
<1>1. /\ Len(q) \in Nat \ {0} /\ Head(q) \in Reqs /\ p \in Seq(Reqs) /\ Len(p) = Len(q) - 1
      /\ \A i \in 1..Len(p) : p[i] = q[i + 1]
      /\ Head(q) = q[1]
    BY HeadTailProperties, EmptySeq
<1> HIDE DEF p
<1>2. /\ \A i \in 1..Len(p) : i + 1 \in 1..Len(q) /\ i + 1 # 1
      /\ 1 \in 1..Len(q)
    BY <1>1
<1>3. \A i \in 1..Len(q) : i = 1 \/ (i - 1 \in 1..Len(p) /\ p[i - 1] = q[i])
    BY <1>1
<1>4. Elems(q) = Elems(p) \cup {Head(q)}
  <2>1. Elems(q) \subseteq Elems(p) \cup {Head(q)}
      BY <1>1, <1>3 DEF Elems
  <2>2. Elems(p) \cup {Head(q)} \subseteq Elems(q)
      BY <1>1, <1>2 DEF Elems
  <2>3. QED
      BY <2>1, <2>2
<1>5. ASSUME Distinct(q) PROVE Distinct(p) /\ Head(q) \notin Elems(p)
  <2>1. Distinct(p)
    <3> SUFFICES ASSUME NEW i \in 1..Len(p), NEW j \in 1..Len(p), p[i] = p[j] PROVE i = j
        BY DEF Distinct
    <3>1. i + 1 = j + 1
        BY <1>1, <1>2, <1>5 DEF Distinct
    <3>2. QED
        BY <3>1
  <2>2. ASSUME NEW i \in 1..Len(p), p[i] = Head(q) PROVE FALSE
      BY <1>1, <1>2, <1>5, <2>2 DEF Distinct
  <2>3. QED
      BY <2>1, <2>2 DEF Elems
<1>6. QED
    BY <1>1, <1>4, <1>5 DEF p, Elems

LEMMA QueueSize ==
    ASSUME NEW q \in Seq(Reqs)
    PROVE  IsFiniteSet(Elems(q)) /\ Cardinality(Elems(q)) <= Len(q)
<1> DEFINE f == [i \in 1..Len(q) |-> q[i]]
<1>1. Len(q) \in Nat
    BY LenProperties
<1>2. f \in Surjection(1..Len(q), Elems(q))
    BY DEF Elems, Surjection
<1>3. IsFiniteSet(1..Len(q)) /\ Cardinality(1..Len(q)) = Len(q)
    BY <1>1, FS_Interval
<1>4. QED
    BY <1>2, <1>3, FS_Surjection

LEMMA CloseChannel ==
    ASSUME NEW c \in Channel
    PROVE  [c EXCEPT !.open = FALSE] = [buf |-> c.buf, open |-> FALSE]
<1>1. ASSUME NEW x \in Channel, NEW o \in BOOLEAN
      PROVE  [x EXCEPT !.open = o] = [buf |-> x.buf, open |-> o]
    BY DEF Channel
<1>2. QED
    BY <1>1

-----------------------------------------------------------------------------
(* The inductive invariant, one lemma per conjunct.                        *)

LEMMA InitIInv == Init => IInv
<1> SUFFICES ASSUME Init PROVE IInv
    OBVIOUS
<1> USE RpcServerAssumption DEF Init, Selecting
<1>1. <<>> \in Seq(Reqs) /\ Len(<<>>) = 0 /\ Elems(<<>>) = {} /\ Distinct(<<>>)
    BY DEF Elems, Distinct
<1>2. TypeOK
  <2>1. callback_chan \in Channel /\ result_chan \in Channel
      BY <1>1 DEF Channel
  <2>2. Len(callback_chan.buf) <= CallbackCap /\ Len(result_chan.buf) <= ReplyCap
      BY <1>1
  <2>3. on_callback \in [at : {"select", "callback", "exit"}, req : Reqs \cup {None}]
      OBVIOUS
  <2>4. task \in [Reqs -> Early \cup Accepted] /\ panicked \in Causes
      BY DEF Early, Causes
  <2>5. /\ ch = 0 /\ wg = 0
        /\ fn = [r \in Reqs |-> "none"] /\ answers = [r \in Reqs |-> 0]
        /\ isClose = FALSE /\ on_call = "select" /\ done = "idle"
        /\ counted = {} /\ expired = {}
      OBVIOUS
  <2> HIDE DEF Init
  <2>6. /\ fn \in [Reqs -> {"none", "executing", "returning", "ended"}]
        /\ answers \in [Reqs -> Nat]
      BY <2>5
  <2>7. ch \in 0..MaxCoroutine
      BY <2>5
  <2>8. QED
      BY <2>1, <2>2, <2>3, <2>4, <2>5, <2>6, <2>7 DEF TypeOK
<1>3. Region(HoldsSlot) = {} /\ Region(Counted) = {}
    BY DEF Region, HoldsSlot, Counted
<1>4. SlotInv /\ GroupInv
    BY <1>3, FS_EmptySet DEF SlotInv, GroupInv
<1>5. DoneInv /\ QueueInv
    BY <1>1 DEF DoneInv, QueueInv, Queued
<1>6. KeptInv
    BY DEF KeptInv, Answered
<1>7. QED
    BY <1>2, <1>4, <1>5, <1>6 DEF IInv

LEMMA StepType == TypeOK /\ GroupInv /\ [Next]_vars => TypeOK'
<1> SUFFICES ASSUME TypeOK, GroupInv, [Next]_vars PROVE TypeOK'
    OBVIOUS
<1> USE RpcServerAssumption DEF TypeOK, Early, Accepted, Causes, Selecting, Alive
<1>1. ASSUME NEW r \in Reqs,
             \/ Refuse(r) \/ Send(r) \/ Expire(r) \/ Drop(r) \/ Spawn(r)
             \/ Reject(r) \/ Admit(r) \/ FailEarly(r) \/ TimeOut(r)
      PROVE  TypeOK'
    BY <1>1 DEF Refuse, Send, Expire, Drop, Spawn, Reject, Admit, FailEarly, TimeOut, Moves,
                serverVars, engineVars
<1>2. ASSUME NEW r \in Reqs, Wait(r) \/ Enter(r) \/ Finish(r) PROVE TypeOK'
  <2>1. task' \in [Reqs -> Early \cup Accepted]
      BY <1>2 DEF Wait, Enter, Finish, Moves
  <2>2. ch' \in 0..MaxCoroutine /\ wg' \in Nat
      BY <1>2 DEF Wait, Enter, Finish
  <2>3. QED
      BY <1>2, <2>1, <2>2 DEF Wait, Enter, Finish
<1>3. ASSUME NEW r \in Reqs, StartFn(r) \/ FnReturns(r) \/ FnPanics(r) \/ TakeOut(r)
      PROVE  TypeOK'
  <2>1. CASE FnPanics(r)
      BY <2>1 DEF FnPanics, serverVars, engineVars
  <2>2. CASE StartFn(r) \/ FnReturns(r) \/ TakeOut(r)
    <3>1. task' \in [Reqs -> Early \cup Accepted]
        BY <2>2 DEF StartFn, FnReturns, TakeOut, Moves
    <3>2. fn' \in [Reqs -> {"none", "executing", "returning", "ended"}]
        BY <2>2 DEF StartFn, FnReturns, TakeOut
    <3>3. QED
        BY <2>2, <3>1, <3>2 DEF StartFn, FnReturns, TakeOut
  <2>3. QED
      BY <1>3, <2>1, <2>2
<1>4. ASSUME NEW r \in Reqs, PutOutcome(r) PROVE TypeOK'
  <2>1. /\ callback_chan' = [callback_chan EXCEPT !.buf = Append(callback_chan.buf, r)]
        /\ Len(callback_chan.buf) < CallbackCap
        /\ task' \in [Reqs -> Early \cup Accepted]
        /\ UNCHANGED <<fn, ch, wg, isClose, on_call, on_callback, done,
                       counted, answers, result_chan, expired, panicked>>
      BY <1>4 DEF PutOutcome, PutResult, Moves
  <2>2. callback_chan' = [buf |-> Append(callback_chan.buf, r), open |-> callback_chan.open]
      BY <2>1 DEF Channel
  <2>3. /\ Append(callback_chan.buf, r) \in Seq(Reqs)
        /\ Len(Append(callback_chan.buf, r)) <= CallbackCap
      BY <2>1, QueueAppend, LenProperties DEF Channel
  <2>4. callback_chan' \in Channel /\ Len(callback_chan'.buf) <= CallbackCap
      BY <2>2, <2>3 DEF Channel
  <2>5. QED
      BY <2>1, <2>4
<1>5. ASSUME NEW r \in Reqs, PutPanics(r) PROVE TypeOK'
    BY <1>5 DEF PutPanics, serverVars, engineVars
<1>6. ASSUME NEW r \in Reqs, Leave(r) PROVE TypeOK'
  <2>1. Cardinality(Region(Counted)) \in Nat \ {0}
      BY <1>6, GoesOut DEF Leave, GroupInv, Counted
  <2>2. wg' \in Nat
      BY <1>6, <2>1 DEF Leave, GroupInv
  <2>3. QED
      BY <1>6, <2>2 DEF Leave, Moves
<1>7. CASE TakeCallback
  <2>1. /\ callback_chan' = [callback_chan EXCEPT !.buf = Tail(callback_chan.buf)]
        /\ callback_chan.buf # <<>>
        /\ on_callback' \in {Selecting, [at |-> "callback", req |-> Head(callback_chan.buf)]}
        /\ UNCHANGED <<task, fn, ch, wg, isClose, on_call, done, counted, answers,
                       result_chan, expired, panicked>>
      BY <1>7 DEF TakeCallback
  <2>2. callback_chan' = [buf |-> Tail(callback_chan.buf), open |-> callback_chan.open]
      BY <2>1 DEF Channel
  <2>3. /\ Head(callback_chan.buf) \in Reqs
        /\ Tail(callback_chan.buf) \in Seq(Reqs)
        /\ Len(Tail(callback_chan.buf)) <= CallbackCap
      BY <2>1, QueueTail, LenProperties DEF Channel
  <2>4. callback_chan' \in Channel /\ Len(callback_chan'.buf) <= CallbackCap
      BY <2>2, <2>3 DEF Channel
  <2>5. QED
      BY <2>1, <2>3, <2>4
<1>8. ASSUME NEW r \in Reqs, Callback(r) PROVE TypeOK'
  <2>1. result_chan' = [buf |-> Append(result_chan.buf, r), open |-> result_chan.open]
      BY <1>8 DEF Callback, Channel
  <2>2. /\ Append(result_chan.buf, r) \in Seq(Reqs)
        /\ Len(Append(result_chan.buf, r)) <= ReplyCap
      BY <1>8, QueueAppend, LenProperties DEF Callback, Channel
  <2>3. result_chan' \in Channel /\ Len(result_chan'.buf) <= ReplyCap
      BY <2>1, <2>2 DEF Channel
  <2>4. QED
      BY <1>8, <2>3 DEF Callback, engineVars
<1>9. CASE CallbackPanics \/ ClientDies
    BY <1>9 DEF CallbackPanics, ClientDies, serverVars, engineVars
<1>10. CASE DoneStop \/ DoneWait \/ DoneDeafen
    BY <1>10 DEF DoneStop, DoneWait, DoneDeafen, engineVars
<1>11. CASE DoneMute
  <2>1. on_callback' = [at |-> "exit", req |-> on_callback.req]
      BY <1>11 DEF DoneMute
  <2>2. QED
      BY <1>11, <2>1 DEF DoneMute, engineVars
<1>12. CASE DoneClose
  <2>1. callback_chan' = [callback_chan EXCEPT !.open = FALSE]
      BY <1>12 DEF DoneClose
  <2>2. callback_chan' = [buf |-> callback_chan.buf, open |-> FALSE]
      BY <2>1, CloseChannel
  <2>3. callback_chan' \in Channel /\ Len(callback_chan'.buf) <= CallbackCap
      BY <2>2 DEF Channel
  <2>4. QED
      BY <1>12, <2>3 DEF DoneClose
<1>13. CASE ClientTakes
  <2>1. result_chan' = [buf |-> Tail(result_chan.buf), open |-> result_chan.open]
      BY <1>13 DEF ClientTakes, Channel
  <2>2. /\ Tail(result_chan.buf) \in Seq(Reqs)
        /\ Len(Tail(result_chan.buf)) <= ReplyCap
      BY <1>13, QueueTail, LenProperties DEF ClientTakes, Channel
  <2>3. result_chan' \in Channel /\ Len(result_chan'.buf) <= ReplyCap
      BY <2>1, <2>2 DEF Channel
  <2>4. QED
      BY <1>13, <2>3 DEF ClientTakes, serverVars, engineVars
<1>14. CASE ClientCloses
  <2>1. result_chan' = [result_chan EXCEPT !.open = FALSE]
      BY <1>14 DEF ClientCloses
  <2>2. result_chan' = [buf |-> result_chan.buf, open |-> FALSE]
      BY <2>1, CloseChannel
  <2>3. result_chan' \in Channel /\ Len(result_chan'.buf) <= ReplyCap
      BY <2>2 DEF Channel
  <2>4. QED
      BY <1>14, <2>3 DEF ClientCloses, serverVars, engineVars
<1>15. CASE UNCHANGED vars
    BY <1>15 DEF vars, serverVars, engineVars
<1>16. QED
    BY <1>1, <1>2, <1>3, <1>4, <1>5, <1>6, <1>7, <1>8, <1>9, <1>10, <1>11, <1>12, <1>13,
       <1>14, <1>15
    DEF Next, CallNext, RunNext, FnNext, CallbackNext, DoneNext

\* The steps that touch neither a request's stage, nor the counters, nor the queue;
\* and which of these the steps of the other goroutines leave alone.
LEMMA OtherSteps ==
    /\ \A r \in Reqs : Expire(r) \/ FnReturns(r) \/ FnPanics(r) \/ PutPanics(r) =>
          UNCHANGED <<task, ch, wg, callback_chan, on_callback, done, counted, answers>>
    /\ CallbackPanics \/ ClientTakes \/ ClientCloses \/ ClientDies \/ UNCHANGED vars =>
          UNCHANGED <<task, ch, wg, callback_chan, on_callback, done, counted, answers>>
    /\ DoneStop \/ DoneWait \/ DoneDeafen =>
          UNCHANGED <<task, ch, wg, callback_chan, on_callback, answers>>
    /\ DoneMute => UNCHANGED <<task, ch, wg, callback_chan, answers>>
    /\ DoneClose => UNCHANGED <<task, ch, wg, on_callback, answers>>
    /\ TakeCallback \/ (\E r \in Reqs : Callback(r)) => UNCHANGED <<task, ch, wg, done, counted>>
    BY DEF Expire, FnReturns, FnPanics, PutPanics, CallbackPanics, ClientTakes, ClientCloses,
           ClientDies, DoneStop, DoneWait, DoneDeafen, DoneMute, DoneClose, TakeCallback,
           Callback, vars, serverVars, engineVars

LEMMA StepSlot == TypeOK /\ SlotInv /\ [Next]_vars => SlotInv'
<1> SUFFICES ASSUME TypeOK, SlotInv, [Next]_vars PROVE SlotInv'
    OBVIOUS
<1> USE DEF SlotInv, HoldsSlot
<1>1. ASSUME NEW r \in Reqs, Wait(r) PROVE SlotInv'
    BY <1>1, GoesIn DEF Wait
<1>2. ASSUME NEW r \in Reqs, Finish(r) PROVE SlotInv'
    BY <1>2, GoesOut DEF Finish
<1>3. ASSUME NEW r \in Reqs, Refuse(r) \/ Send(r) \/ Drop(r) \/ Spawn(r) \/ Reject(r) \/ Admit(r)
      PROVE  SlotInv'
    BY <1>3, StaysPut DEF Refuse, Send, Drop, Spawn, Reject, Admit
<1>4. ASSUME NEW r \in Reqs, Enter(r) \/ FailEarly(r) \/ StartFn(r) \/ TakeOut(r) \/ TimeOut(r) \/ Leave(r)
      PROVE  SlotInv'
    BY <1>4, StaysPut DEF Enter, FailEarly, StartFn, TakeOut, TimeOut, Leave
<1>5. ASSUME NEW r \in Reqs, PutOutcome(r) PROVE SlotInv'
    BY <1>5, StaysPut DEF PutOutcome, PutResult
<1>6. CASE UNCHANGED <<task, ch>>
    BY <1>6 DEF Region
<1>7. QED
    BY <1>1, <1>2, <1>3, <1>4, <1>5, <1>6, OtherSteps DEF Next, CallNext, RunNext, FnNext, CallbackNext, DoneNext

LEMMA StepGroup == TypeOK /\ GroupInv /\ [Next]_vars => GroupInv'
<1> SUFFICES ASSUME TypeOK, GroupInv, [Next]_vars PROVE GroupInv'
    OBVIOUS
<1> USE DEF GroupInv, Counted
<1>1. ASSUME NEW r \in Reqs, Enter(r) PROVE GroupInv'
    BY <1>1, GoesIn DEF Enter
<1>2. ASSUME NEW r \in Reqs, Leave(r) PROVE GroupInv'
    BY <1>2, GoesOut DEF Leave
<1>3. ASSUME NEW r \in Reqs, Refuse(r) \/ Send(r) \/ Drop(r) \/ Spawn(r) \/ Reject(r) \/ Admit(r)
      PROVE  GroupInv'
    BY <1>3, StaysPut DEF Refuse, Send, Drop, Spawn, Reject, Admit
<1>4. ASSUME NEW r \in Reqs, FailEarly(r) \/ StartFn(r) \/ TakeOut(r) \/ TimeOut(r) \/ Wait(r) \/ Finish(r)
      PROVE  GroupInv'
    BY <1>4, StaysPut DEF FailEarly, StartFn, TakeOut, TimeOut, Wait, Finish
<1>5. ASSUME NEW r \in Reqs, PutOutcome(r) PROVE GroupInv'
    BY <1>5, StaysPut DEF PutOutcome, PutResult
<1>6. CASE UNCHANGED <<task, wg>>
    BY <1>6 DEF Region
<1>7. QED
    BY <1>1, <1>2, <1>3, <1>4, <1>5, <1>6, OtherSteps DEF Next, CallNext, RunNext, FnNext, CallbackNext, DoneNext

LEMMA StepDone == TypeOK /\ GroupInv /\ DoneInv /\ [Next]_vars => DoneInv'
<1> SUFFICES ASSUME TypeOK, GroupInv, DoneInv, [Next]_vars PROVE DoneInv'
    OBVIOUS
<1>1. ASSUME NEW r \in Reqs, NEW from, NEW to, Moves(r, from, to),
             UNCHANGED <<done, counted, on_callback>>,
             from \in Counted => to \in Counted \cup {"releasing", "ended"},
             from \in {"releasing", "ended"} => to \in {"releasing", "ended"}
      PROVE  DoneInv'
  <2>1. \A q \in Reqs : task'[q] = IF q = r THEN to ELSE task[q]
      BY <1>1 DEF TypeOK, Moves
  <2>2. task[r] = from /\ counted \subseteq Reqs
      BY <1>1 DEF TypeOK, Moves
  <2>3. QED
      BY <1>1, <2>1, <2>2 DEF DoneInv
<1>2. ASSUME NEW r \in Reqs, Refuse(r) \/ Send(r) \/ Drop(r) \/ Spawn(r) \/ Reject(r) \/ Admit(r)
      PROVE  DoneInv'
    BY <1>1, <1>2 DEF Refuse, Send, Drop, Spawn, Reject, Admit, Counted
<1>3. ASSUME NEW r \in Reqs,
             \/ Wait(r) \/ Enter(r) \/ FailEarly(r) \/ StartFn(r) \/ TakeOut(r) \/ TimeOut(r)
             \/ Finish(r)
      PROVE  DoneInv'
    BY <1>1, <1>3 DEF Wait, Enter, FailEarly, StartFn, TakeOut, TimeOut, Finish, Counted
<1>4. ASSUME NEW r \in Reqs, PutOutcome(r) PROVE DoneInv'
    BY <1>1, <1>4 DEF PutOutcome, PutResult, Counted
<1>5. ASSUME wg' = 0, GroupInv' PROVE \A r \in Reqs : task'[r] \notin Counted
  <2>1. Region(Counted)' = {}
      BY <1>5, FS_EmptySet DEF GroupInv
  <2>2. QED
      BY <2>1 DEF Region
<1>6. ASSUME NEW r \in Reqs, Leave(r) PROVE DoneInv'
  <2>1. /\ \A q \in Reqs : task'[q] = IF q = r THEN "releasing" ELSE task[q]
        /\ task[r] = "deferred" /\ counted \subseteq Reqs
        /\ UNCHANGED <<counted, on_callback>>
        /\ done' = done \/ (done = "waiting" /\ done' = "drained" /\ wg' = 0)
      BY <1>6 DEF Leave, TypeOK, Moves
  <2>2. \A q \in counted' : task'[q] \in Counted \cup {"releasing", "ended"}
      BY <2>1 DEF DoneInv
  <2>3. done' = "drained" /\ done # "drained" => \A q \in counted' : task'[q] \in {"releasing", "ended"}
      BY <1>5, <2>1, <2>2, StepGroup
  <2>4. QED
      BY <2>1, <2>2, <2>3 DEF DoneInv, Counted
<1>7. CASE DoneWait
  <2>1. /\ task' = task
        /\ counted' = {r \in Reqs : task[r] \in Counted}
        /\ done' = IF wg = 0 THEN "drained" ELSE "waiting"
        /\ on_callback' = on_callback /\ done = "stopped" /\ wg' = wg
      BY <1>7 DEF DoneWait, engineVars
  <2>2. wg' = 0 => counted' = {}
      BY <1>5, <2>1, StepGroup
  <2>3. QED
      BY <2>1, <2>2 DEF DoneInv
<1>8. CASE DoneStop \/ DoneDeafen \/ DoneMute \/ DoneClose
    BY <1>8 DEF DoneStop, DoneDeafen, DoneMute, DoneClose, DoneInv, engineVars, TypeOK
<1>9. CASE TakeCallback \/ (\E r \in Reqs : Callback(r))
    BY <1>9 DEF TakeCallback, Callback, DoneInv, engineVars, Selecting
<1>10. CASE UNCHANGED <<task, done, counted, on_callback>>
    BY <1>10 DEF DoneInv
<1>11. QED
    BY <1>2, <1>3, <1>4, <1>6, <1>7, <1>8, <1>9, <1>10, OtherSteps
    DEF Next, CallNext, RunNext, FnNext, CallbackNext, DoneNext

LEMMA StepQueue == TypeOK /\ QueueInv /\ KeptInv /\ [Next]_vars => QueueInv' /\ KeptInv'
<1> SUFFICES ASSUME TypeOK, QueueInv, KeptInv, [Next]_vars PROVE QueueInv' /\ KeptInv'
    OBVIOUS
<1>1. ASSUME UNCHANGED <<callback_chan, on_callback, answers>>,
             \A r \in Reqs : task'[r] \in Answered <=> task[r] \in Answered
      PROVE  QueueInv' /\ KeptInv'
  <2>1. Queued' = Queued /\ Queued \subseteq Reqs
      BY <1>1, ElementOfSeq DEF Queued, Elems, TypeOK, Channel
  <2>2. QueueInv'
      BY <1>1, <2>1 DEF QueueInv
  <2>3. KeptInv'
      BY <1>1, <2>1 DEF KeptInv
  <2>4. QED
      BY <2>2, <2>3
<1>2. ASSUME NEW r \in Reqs, NEW from, NEW to, Moves(r, from, to),
             UNCHANGED <<callback_chan, on_callback, answers>>,
             from \in Answered <=> to \in Answered
      PROVE  QueueInv' /\ KeptInv'
  <2>1. \A q \in Reqs : task'[q] = IF q = r THEN to ELSE task[q]
      BY <1>2 DEF TypeOK, Moves
  <2>2. task[r] = from
      BY <1>2 DEF Moves
  <2>3. QED
      BY <1>1, <1>2, <2>1, <2>2
<1>3. ASSUME NEW r \in Reqs, Refuse(r) \/ Send(r) \/ Drop(r) \/ Spawn(r) \/ Reject(r) \/ Admit(r)
      PROVE  QueueInv' /\ KeptInv'
    BY <1>2, <1>3 DEF Refuse, Send, Drop, Spawn, Reject, Admit, Answered
<1>4. ASSUME NEW r \in Reqs, Wait(r) \/ Enter(r) \/ FailEarly(r) \/ StartFn(r) \/ TakeOut(r) \/ TimeOut(r)
      PROVE  QueueInv' /\ KeptInv'
    BY <1>2, <1>4 DEF Wait, Enter, FailEarly, StartFn, TakeOut, TimeOut, Answered
<1>5. ASSUME NEW r \in Reqs, Leave(r) \/ Finish(r) PROVE QueueInv' /\ KeptInv'
    BY <1>2, <1>5 DEF Leave, Finish, Answered
<1>6. ASSUME NEW r \in Reqs, PutOutcome(r) PROVE QueueInv' /\ KeptInv'
  <2> DEFINE q == callback_chan.buf
  <2>1. PICK from, to : Moves(r, from, to) /\ from \notin Answered /\ to \in Answered
      BY <1>6 DEF PutOutcome, PutResult, Answered
  <2>2. /\ callback_chan' = [callback_chan EXCEPT !.buf = Append(q, r)]
        /\ on_callback' = on_callback /\ answers' = answers
      BY <1>6 DEF PutOutcome, PutResult
  <2>3. task[r] \notin Answered /\ task'[r] \in Answered
      BY <2>1 DEF Moves, TypeOK
  <2>4. \A p \in Reqs : p # r => task'[p] = task[p]
      BY <2>1 DEF Moves, TypeOK
  <2>5. q \in Seq(Reqs) /\ callback_chan'.buf = Append(q, r)
      BY <2>2 DEF TypeOK, Channel
  <2>6. Queued' = Queued \cup {r}
      BY <2>5, QueueAppend DEF Queued
  <2>7. /\ r \notin Queued /\ Queued \subseteq Reqs
        /\ answers[r] = 0
        /\ on_callback.at = "callback" => on_callback.req # r
      BY <2>3, <2>5, ElementOfSeq DEF QueueInv, Queued, Elems
  <2>8. Distinct(callback_chan'.buf)
      BY <2>5, <2>7, QueueAppend DEF QueueInv, Queued
  <2>9. QueueInv'
      BY <2>2, <2>3, <2>4, <2>6, <2>7, <2>8 DEF QueueInv
  <2>10. KeptInv'
      BY <2>2, <2>4, <2>6 DEF KeptInv
  <2>11. QED
      BY <2>9, <2>10
<1>7. CASE TakeCallback
  <2> DEFINE q == callback_chan.buf
             r == Head(q)
  <2>1. /\ callback_chan' = [callback_chan EXCEPT !.buf = Tail(q)] /\ q # <<>>
        /\ on_callback.at = "select"
        /\ on_callback' = IF r \in NoReply THEN Selecting ELSE [at |-> "callback", req |-> r]
        /\ answers' = answers /\ task' = task
      BY <1>7 DEF TakeCallback
  <2>2. q \in Seq(Reqs) /\ callback_chan'.buf = Tail(q)
      BY <2>1 DEF TypeOK, Channel
  <2>3. r \in Reqs /\ Queued = Queued' \cup {r} /\ r \notin Queued' /\ Distinct(callback_chan'.buf)
      BY <2>1, <2>2, QueueTail DEF Queued, QueueInv
  <2> HIDE DEF q, r
  <2>4. QueueInv'
      BY <2>1, <2>3 DEF QueueInv, Selecting
  <2>5. KeptInv'
      BY <2>1, <2>3 DEF KeptInv, Selecting
  <2>6. QED
      BY <2>4, <2>5
<1>8. ASSUME NEW r \in Reqs, Callback(r) PROVE QueueInv' /\ KeptInv'
  <2>1. /\ on_callback.at = "callback" /\ on_callback.req = r
        /\ on_callback'.at = "select"
        /\ answers' = [answers EXCEPT ![r] = answers[r] + 1]
        /\ callback_chan' = callback_chan /\ task' = task
      BY <1>8 DEF Callback, Selecting, engineVars
  <2>2. answers[r] = 0 /\ r \notin NoReply /\ r \notin Queued /\ task[r] \in Answered
      BY <2>1 DEF QueueInv
  <2>3. /\ answers'[r] = 1
        /\ \A p \in Reqs : p # r => answers'[p] = answers[p]
      BY <2>1, <2>2 DEF TypeOK
  <2>4. Queued' = Queued /\ Queued \subseteq Reqs
      BY <2>1, ElementOfSeq DEF Queued, Elems, TypeOK, Channel
  <2>5. QueueInv'
      BY <2>1, <2>2, <2>3, <2>4 DEF QueueInv
  <2>6. KeptInv'
      BY <2>1, <2>3, <2>4 DEF KeptInv
  <2>7. QED
      BY <2>5, <2>6
<1>9. CASE DoneMute
  <2>1. /\ on_callback.at = "select" /\ on_callback'.at = "exit"
        /\ UNCHANGED <<task, callback_chan, answers>>
      BY <1>9 DEF DoneMute, engineVars, TypeOK
  <2>2. Queued' = Queued
      BY <2>1 DEF Queued
  <2>3. QueueInv'
      BY <2>1, <2>2 DEF QueueInv
  <2>4. KeptInv'
      BY <2>1, <2>2 DEF KeptInv
  <2>5. QED
      BY <2>3, <2>4
<1>10. CASE DoneClose
  <2>1. callback_chan'.buf = callback_chan.buf
      BY <1>10, CloseChannel DEF DoneClose, TypeOK
  <2>2. UNCHANGED <<task, on_callback, answers>>
      BY <1>10 DEF DoneClose
  <2>3. Queued' = Queued
      BY <2>1 DEF Queued
  <2>4. QueueInv'
      BY <2>1, <2>2, <2>3 DEF QueueInv
  <2>5. KeptInv'
      BY <2>2, <2>3 DEF KeptInv
  <2>6. QED
      BY <2>4, <2>5
<1>11. CASE UNCHANGED <<task, callback_chan, on_callback, answers>>
    BY <1>1, <1>11
<1>12. QED
    BY <1>3, <1>4, <1>5, <1>6, <1>7, <1>8, <1>9, <1>10, <1>11, OtherSteps
    DEF Next, CallNext, RunNext, FnNext, CallbackNext, DoneNext

LEMMA StepIInv == IInv /\ [Next]_vars => IInv'
    BY StepType, StepSlot, StepGroup, StepDone, StepQueue DEF IInv

-----------------------------------------------------------------------------
(* The theorems.                                                           *)

\* The invariant of the engine: regions, queue and history agree in every state.
THEOREM InvariantHolds == Spec => []IInv
<1>1. Init => IInv
    BY InitIInv
<1>2. IInv /\ [Next]_vars => IInv'
    BY StepIInv
<1>3. QED
    BY <1>1, <1>2, PTL DEF Spec

\* Every variable keeps its type; in particular ch stays within its capacity and the
\* counter of wg is never negative.
THEOREM TypeCorrect == Spec => []TypeOK
<1>1. IInv => TypeOK
    BY DEF IInv
<1>2. QED
    BY <1>1, InvariantHolds, PTL

\* ch and wg are always exactly what the requests inside runFunc have taken.
THEOREM AccountsBalance == Spec => []Accounting
<1>1. IInv => Accounting
    BY DEF IInv, SlotInv, GroupInv, Region, Accounting
<1>2. QED
    BY <1>1, InvariantHolds, PTL

\* No request is answered twice, and none that wants no answer is answered.
THEOREM NeverAnsweredTwice == Spec => []AnsweredOnce
<1>1. IInv => AnsweredOnce
    BY DEF IInv, QueueInv, AnsweredOnce, TypeOK
<1>2. QED
    BY <1>1, InvariantHolds, PTL

\* What wg counted when Done began to wait has queued its result before Done goes on.
THEOREM DoneDrains == Spec => []DrainedBeforeClose
<1>1. IInv => DrainedBeforeClose
    BY DEF IInv, DoneInv, DrainedBeforeClose, Answered
<1>2. QED
    BY <1>1, InvariantHolds, PTL

\* Done leaves at most CallbackCap results of the requests it waited for unsent.
THEOREM DoneLosesFew == Spec => []FewAnswersLost
<1>1. ASSUME IInv, on_callback.at = "exit"
      PROVE  Cardinality({r \in counted \ NoReply : answers[r] = 0}) <= CallbackCap
  <2> DEFINE lost == {r \in counted \ NoReply : answers[r] = 0}
  <2>1. counted \subseteq Reqs /\ \A r \in counted : task[r] \in Answered
      BY <1>1 DEF IInv, TypeOK, DoneInv, Answered
  <2>2. lost \subseteq Queued
      BY <1>1, <2>1 DEF IInv, KeptInv
  <2>3. callback_chan.buf \in Seq(Reqs) /\ Len(callback_chan.buf) <= CallbackCap
      BY <1>1 DEF IInv, TypeOK, Channel
  <2>4. IsFiniteSet(Queued) /\ Cardinality(Queued) <= Len(callback_chan.buf)
      BY <2>3, QueueSize DEF Queued
  <2>5. IsFiniteSet(lost) /\ Cardinality(lost) <= Cardinality(Queued)
      BY <2>2, <2>4, FS_Subset
  <2>6. /\ Cardinality(lost) \in Nat /\ Cardinality(Queued) \in Nat
        /\ Len(callback_chan.buf) \in Nat /\ CallbackCap \in Nat
      BY <2>3, <2>4, <2>5, FS_CardinalityType, LenProperties, RpcServerAssumption
  <2>7. QED
      BY <2>3, <2>4, <2>5, <2>6
<1>2. IInv => FewAnswersLost
    BY <1>1 DEF FewAnswersLost
<1>3. QED
    BY <1>2, InvariantHolds, PTL
=============================================================================
