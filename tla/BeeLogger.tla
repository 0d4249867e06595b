------------------------------ MODULE BeeLogger ------------------------------
(***************************************************************************)
(* log/log.go, log/beego_logger.go and log/beego/log.go: the logger of the *)
(* process.  Messages are queued and written by one goroutine; Flush,      *)
(* Reset and Close talk to it through signalChan and a wait group.         *)
(***************************************************************************)
EXTENDS Integers, Sequences, FiniteSets, SequencesExt

CONSTANTS
    Loggers,    \* goroutines that log
    Owners,     \* goroutines that call Flush, Reset or Close
    msgChanLen,
    MaxMsgs     \* bound: messages of a goroutine

VARIABLES
    asynchronous,
    settings,   \* conf.Log has a "file" entry, or not
    logger,     \* per goroutine: the message it cannot queue, if any, and how many it logged
    msgChan, signalChan, closed,   \* closed: the channels that are
    wg,
    worker,     \* the goroutine startLogger: "select", the signal it serves, or "over"
    outputs,    \* the adapters
    files,      \* adapter -> the messages written
    accepted,   \* messages queued, or written if not asynchronous
    owner,      \* per owner: what it calls and the step it is at
    due,        \* what was accepted when it called
    overlap,    \* calls of owners overlapped, or came after Close
    panic

logVars == <<asynchronous, settings, logger, msgChan, signalChan, closed, wg, worker, outputs,
             files, accepted, owner, due, overlap, panic>>

LevelEmergency == 0
LevelError == 3
LevelWarn == 4
LevelNotice == 5
LevelDebug == 7

Files == {"error_file", "access_file"}
Adapters == Files \cup {"console"}

\* NewBeegoLogger: the levels of the two files. Configured ones are given a "maxlevel",
\* which the file writer does not know; the console takes every level.
MinLevel(f) == IF ~settings /\ f = "access_file" THEN LevelNotice ELSE LevelEmergency
MaxLevel(f) == IF f # "error_file" THEN LevelDebug
               ELSE IF settings THEN LevelError ELSE LevelWarn
Takes(f, msg) == msg.level \in MinLevel(f) .. MaxLevel(f)

NoCall == [call |-> "none", at |-> "idle"]

\* InitBeego without debug: NewLogger, Async and SetLogger. Before it LogBeego makes a
\* logger that is not asynchronous and writes to the console.
Init ==
    /\ asynchronous \in BOOLEAN
    /\ settings \in IF asynchronous THEN BOOLEAN ELSE {FALSE}
    /\ logger = [l \in Loggers |-> [count |-> 0, pending |-> <<>>]]
    /\ msgChan = <<>> /\ signalChan = <<>> /\ closed = {}
    /\ wg = IF asynchronous THEN 1 ELSE 0
    /\ worker = IF asynchronous THEN "select" ELSE "over"
    /\ outputs = IF asynchronous THEN Files ELSE {"console"}
    /\ files = [f \in Adapters |-> <<>>]
    /\ accepted = {}
    /\ owner = [o \in Owners |-> NoCall]
    /\ due = [o \in Owners |-> {}]
    /\ overlap = FALSE /\ panic = FALSE

-----------------------------------------------------------------------------
writeToLoggers(adapters, msg) ==
    files' = [f \in Adapters |->
        IF f \in adapters /\ Takes(f, msg) THEN Append(files[f], msg) ELSE files[f]]

\* Debug to Emergency and writeMsg; SetLevel is never called, so every level is logged.
\* A logger that SetLogger was not called for sets the console when it has lost it.
writeMsg(l, level) ==
    /\ logger[l].pending = <<>> /\ logger[l].count < MaxMsgs
    /\ LET msg == [by |-> l, nr |-> logger[l].count + 1, level |-> level]
       IN  IF asynchronous
           THEN /\ logger' = [logger EXCEPT ![l] = [count |-> @.count + 1, pending |-> <<msg>>]]
                /\ UNCHANGED <<files, accepted, outputs>>
           ELSE /\ logger' = [logger EXCEPT ![l].count = @ + 1]
                /\ outputs' = outputs \cup {"console"}
                /\ writeToLoggers(outputs', msg)
                /\ accepted' = accepted \cup {msg}
    /\ UNCHANGED <<asynchronous, settings, msgChan, signalChan, closed, wg, worker, owner, due,
                   overlap, panic>>

\* bl.msgChan <- lm waits for room and panics if the channel is closed.
Queue(l) ==
    /\ logger[l].pending # <<>>
    /\ "msgChan" \in closed \/ Len(msgChan) < msgChanLen
    /\ IF "msgChan" \in closed
       THEN panic' = TRUE /\ UNCHANGED <<msgChan, accepted, logger>>
       ELSE /\ msgChan' = msgChan \o logger[l].pending
            /\ accepted' = accepted \cup Range(logger[l].pending)
            /\ logger' = [logger EXCEPT ![l].pending = <<>>]
            /\ UNCHANGED panic
    /\ UNCHANGED <<asynchronous, settings, signalChan, closed, wg, worker, outputs, files, owner,
                   due, overlap>>

\* startLogger: a message or a signal, whichever the select takes.
TakeMessage ==
    /\ worker = "select" /\ msgChan # <<>>
    /\ writeToLoggers(outputs, msgChan[1]) /\ msgChan' = Tail(msgChan)
    /\ UNCHANGED <<asynchronous, settings, logger, signalChan, closed, wg, worker, outputs,
                   accepted, owner, due, overlap, panic>>

TakeSignal ==
    /\ worker = "select" /\ signalChan # <<>>
    /\ worker' = signalChan[1] /\ signalChan' = Tail(signalChan)
    /\ UNCHANGED <<asynchronous, settings, logger, msgChan, closed, wg, outputs, files, accepted,
                   owner, due, overlap, panic>>

\* flush takes what is queued, one message at a time, until nothing is.
FlushNext ==
    /\ worker \in {"flush", "close"} /\ msgChan # <<>>
    /\ writeToLoggers(outputs, msgChan[1]) /\ msgChan' = Tail(msgChan)
    /\ UNCHANGED <<asynchronous, settings, logger, signalChan, closed, wg, worker, outputs,
                   accepted, owner, due, overlap, panic>>

\* A mutated form: flush does not take what is queued.
FlushedEarly ==
    /\ worker \in {"flush", "close"}
    /\ worker' = IF worker = "close" THEN "over" ELSE "select"
    /\ outputs' = IF worker = "close" THEN {} ELSE outputs
    /\ IF wg = 0 THEN panic' = TRUE /\ UNCHANGED wg
       ELSE wg' = wg - 1 /\ UNCHANGED panic
    /\ UNCHANGED <<asynchronous, settings, logger, msgChan, signalChan, closed, files, accepted,
                   owner, due, overlap>>

Flushed ==
    /\ worker \in {"flush", "close"} /\ msgChan = <<>>
    /\ worker' = IF worker = "close" THEN "over" ELSE "select"
    /\ outputs' = IF worker = "close" THEN {} ELSE outputs
    /\ IF wg = 0 THEN panic' = TRUE /\ UNCHANGED wg
       ELSE wg' = wg - 1 /\ UNCHANGED panic
    /\ UNCHANGED <<asynchronous, settings, logger, msgChan, signalChan, closed, files, accepted,
                   owner, due, overlap>>

-----------------------------------------------------------------------------
Busy(o) == owner[o].at \notin {"idle", "done"}
Goto(o, at) == owner' = [owner EXCEPT ![o].at = at]

\* Flush, Reset and Close; Close is what log.Close calls. Without the goroutine they do
\* their work themselves.
Ask(o, call) ==
    /\ owner[o].at = "idle"
    /\ due' = [due EXCEPT ![o] = accepted]
    /\ overlap' = (overlap \/ \E p \in Owners : Busy(p) \/ owner[p].call = "close")
    /\ owner' = [owner EXCEPT ![o] =
            [call |-> call, at |-> IF asynchronous THEN "signal" ELSE "flushed"]]
    /\ UNCHANGED <<asynchronous, settings, logger, msgChan, signalChan, closed, wg, worker,
                   outputs, files, accepted, panic>>

Signal(o) ==
    /\ owner[o].at = "signal"
    /\ "signalChan" \in closed \/ signalChan = <<>>
    /\ IF "signalChan" \in closed
       THEN panic' = TRUE /\ UNCHANGED <<signalChan, owner>>
       ELSE /\ signalChan' = <<IF owner[o].call = "close" THEN "close" ELSE "flush">>
            /\ Goto(o, "wait") /\ UNCHANGED panic
    /\ UNCHANGED <<asynchronous, settings, logger, msgChan, closed, wg, worker, outputs, files,
                   accepted, due, overlap>>

Wait(o) ==
    /\ owner[o].at = "wait" /\ wg = 0
    /\ Goto(o, IF owner[o].call = "close" THEN "flushed" ELSE "add")
    /\ UNCHANGED <<asynchronous, settings, logger, msgChan, signalChan, closed, wg, worker,
                   outputs, files, accepted, due, overlap, panic>>

AddAgain(o) ==
    /\ owner[o].at = "add"
    /\ wg' = wg + 1
    /\ Goto(o, "flushed")
    /\ UNCHANGED <<asynchronous, settings, logger, msgChan, signalChan, closed, worker, outputs,
                   files, accepted, due, overlap, panic>>

\* What each does after the flush: Reset and a Close without the goroutine destroy the
\* adapters, Close closes the channels.
CloseChans == IF asynchronous THEN {"msgChan", "signalChan"} ELSE {"signalChan"}
Finish(o) ==
    /\ owner[o].at = "flushed"
    /\ IF owner[o].call = "close" /\ "signalChan" \in closed
       THEN panic' = TRUE /\ UNCHANGED <<outputs, closed, owner>>
       ELSE /\ outputs' = IF owner[o].call = "flush" THEN outputs ELSE {}
            /\ closed' = IF owner[o].call = "close" THEN closed \cup CloseChans ELSE closed
            /\ Goto(o, "done") /\ UNCHANGED panic
    /\ UNCHANGED <<asynchronous, settings, logger, msgChan, signalChan, wg, worker, files,
                   accepted, due, overlap>>

Next ==
    /\ ~panic
    /\ \/ \E l \in Loggers :
            \/ \E level \in {LevelError, LevelWarn, LevelDebug} : writeMsg(l, level)
            \/ Queue(l)
       \/ TakeMessage \/ TakeSignal \/ FlushNext \/ Flushed
       \/ \E o \in Owners :
            \/ \E call \in {"flush", "reset", "close"} : Ask(o, call)
            \/ Signal(o) \/ Wait(o) \/ AddAgain(o) \/ Finish(o)

-----------------------------------------------------------------------------
Written == UNION {Range(files[f]) : f \in Adapters}

\* Whoever flushes or closes the logger has all that was accepted before in the files when
\* the call returns, whatever is logged meanwhile, if the calls do not overlap and none
\* follows a Close or Reset; and the goroutine is not brought down by anything but such
\* calls and messages logged while the channel is being closed. Without a "file" setting
\* every message is in one file once.
FlushKeeps ==
    /\ ~overlap =>
          /\ \A o \in Owners :
                (/\ owner[o].at = "done"
                 /\ \A p \in Owners \ {o} : owner[p].call \in {"none", "flush"}) =>
                due[o] \subseteq Written
          /\ panic => "msgChan" \in closed /\ \E l \in Loggers : logger[l].pending # <<>>
    /\ ~settings => Range(files["error_file"]) \cap Range(files["access_file"]) = {}
    /\ \A f \in Adapters : Cardinality(Range(files[f])) = Len(files[f])
=============================================================================
