------------------------------- MODULE LogFile -------------------------------
(***************************************************************************)
(* log/beego/file.go: the log file of fileLogWriter and the files it is    *)
(* renamed to when it has MaxLines lines or a day is over.  A line is the  *)
(* number of the message in the order of the writing; sizes are counted    *)
(* the way lines are, and files of one level are all there is.             *)
(***************************************************************************)
EXTENDS Integers, Sequences, FiniteSets, Functions

CONSTANTS
    Writers,    \* goroutines that call WriteMsg, one if the logger is asynchronous
    LineLimits, \* values of MaxLines of the configurations that have one
    MaxNum,     \* the last number of a name (999 in the code)
    MaxDays,    \* days a file is kept for
    MaxWrites,  \* bound: messages
    LastDay,    \* bound: the last day
    MaxFaults   \* bound: restarts, renames and opens that fail

VARIABLES
    config,     \* [MaxLines, Daily]: what the file is rotated for
    today,
    current,    \* lines of the file called Filename, or Missing
    currentMod, \* the day it was written to last
    archives,   \* name -> [lines, mod]; a name is a day and a number
    fileWriter, \* "open" on the file called Filename, "closed", or "unlinked"
    maxLinesCurLines, dailyOpenDate,
    timers,     \* per day, how many goroutines dailyRotate wait for its end
    deleters,   \* goroutines deleteOldLog
    writing,    \* per writer: the step it is at and the day of its message
    written,    \* number of messages written
    expired,    \* lines of the files that were deleted
    orphans,    \* lines written to a file that had been deleted
    crammed,    \* history: lines whose writer found the file due and no name for it
    faults

rotatedVars == <<current, currentMod, archives, fileWriter, maxLinesCurLines, dailyOpenDate,
                 deleters, faults>>
fileVars == <<rotatedVars, config, today, timers, writing, written, expired, orphans, crammed>>

Missing == <<-1>>
Idle == [at |-> "idle", day |-> 0]

\* A mutated form: the limit is one line too high.
NeedRotateLate(day) ==
    \/ config.MaxLines > 0 /\ maxLinesCurLines > config.MaxLines
    \/ config.Daily /\ day # dailyOpenDate

needRotate(day) ==
    \/ config.MaxLines > 0 /\ maxLinesCurLines >= config.MaxLines
    \/ config.Daily /\ day # dailyOpenDate

\* A configuration has a limit on the lines, a rotation by days, or both.
Init ==
    /\ config \in [MaxLines : {0} \cup LineLimits, Daily : BOOLEAN]
    /\ config.MaxLines > 0 \/ config.Daily
    /\ today = 1 /\ current = <<>> /\ currentMod = 1 /\ archives = <<>>
    /\ fileWriter = "open" /\ maxLinesCurLines = 0 /\ dailyOpenDate = 1
    /\ timers = [d \in 1 .. LastDay |-> IF config.Daily /\ d = 1 THEN 1 ELSE 0]
    /\ deleters = 0
    /\ writing = [w \in Writers |-> Idle]
    /\ written = 0 /\ expired = {} /\ orphans = {} /\ crammed = {} /\ faults = 0

-----------------------------------------------------------------------------
\* startLogger: the file is created or appended to, its lines are counted, and one more
\* goroutine waits for the end of the day. When it cannot be opened everything stays, the
\* writer as well, which doRotate has closed unless there was no file.
startLogger(lines, waiting, opens) ==
    IF opens
    THEN /\ current' = IF lines = Missing THEN <<>> ELSE lines
         /\ currentMod' = IF lines = Missing THEN today ELSE currentMod
         /\ fileWriter' = "open"
         /\ maxLinesCurLines' = Len(current')
         /\ dailyOpenDate' = today
         /\ timers' = [waiting EXCEPT ![today] = @ + (IF config.Daily THEN 1 ELSE 0)]
    ELSE /\ current' = lines
         /\ fileWriter' = IF current = Missing THEN fileWriter ELSE "closed"
         /\ timers' = waiting
         /\ UNCHANGED <<currentMod, maxLinesCurLines, dailyOpenDate>>

\* The names tried, in order: of the message's day if files are numbered, else of the day
\* the file was opened, first without a number.
Names(day) ==
    IF config.MaxLines > 0
    THEN [k \in 1 .. MaxNum |-> <<day, k>>]
    ELSE [k \in 1 .. MaxNum + 1 |-> <<dailyOpenDate, k - 1>>]

\* A mutated form: names that are taken are not passed over.
FreeUnchecked(day) == DOMAIN Names(day)
Free(day) == {k \in DOMAIN Names(day) : Names(day)[k] \notin DOMAIN archives}
NextName(day) == Names(day)[CHOOSE k \in Free(day) : \A j \in Free(day) : k <= j]

Archived(name) ==
    [n \in DOMAIN archives \cup {name} |->
        IF n = name THEN [lines |-> current, mod |-> currentMod] ELSE archives[n]]

\* doRotate: without a free name nothing is touched; with one the file is closed, renamed
\* and opened anew, and each of the two may fail. A file that is missing is only opened.
NoName(day) == current # Missing /\ Free(day) = {}
doRotate(day, waiting) ==
    IF NoName(day)
    THEN UNCHANGED rotatedVars /\ timers' = waiting
    ELSE \E renames, opens \in BOOLEAN :
            /\ faults' = faults + (IF renames /\ opens THEN 0 ELSE 1)
            /\ faults' <= MaxFaults
            /\ deleters' = deleters + 1
            /\ IF current # Missing /\ renames
               THEN archives' = Archived(NextName(day)) /\ startLogger(Missing, waiting, opens)
               ELSE startLogger(current, waiting, opens) /\ UNCHANGED archives

\* A mutated form: the need is not checked again under the lock.
RotateUnchecked(day, waiting) == doRotate(day, waiting)

RotateIfNeeded(day, waiting) ==
    IF needRotate(day) THEN doRotate(day, waiting)
    ELSE UNCHANGED rotatedVars /\ timers' = waiting

-----------------------------------------------------------------------------
Goto(w, at, day) == writing' = [writing EXCEPT ![w] = [at |-> at, day |-> day]]

\* A message bears the day it was logged on, which may be over when it is written.
WriteMsg(w) ==
    /\ writing[w] = Idle
    /\ Goto(w, "check", today)
    /\ UNCHANGED <<rotatedVars, config, today, timers, written, expired, orphans, crammed>>

\* Under the read lock.
Check(w) ==
    /\ writing[w].at = "check"
    /\ Goto(w, IF needRotate(writing[w].day) THEN "rotate" ELSE "write", writing[w].day)
    /\ UNCHANGED <<rotatedVars, config, today, timers, written, expired, orphans, crammed>>

\* Under the lock, which was free in between. The message is written in any case: "cram" is
\* the same step as "write", told apart for the history.
Rotate(w) ==
    LET day == writing[w].day
    IN  /\ writing[w].at = "rotate"
        /\ RotateIfNeeded(day, timers)
        /\ Goto(w, IF needRotate(day) /\ NoName(day) THEN "cram" ELSE "write", day)
        /\ UNCHANGED <<config, today, written, expired, orphans, crammed>>

\* Under the lock, which was free again. A write to a closed file fails, one to a deleted
\* file does not.
Write(w) ==
    /\ writing[w].at \in {"write", "cram"} /\ written < MaxWrites
    /\ Goto(w, "idle", 0)
    /\ IF fileWriter = "closed"
       THEN UNCHANGED <<written, current, currentMod, maxLinesCurLines, orphans, crammed>>
       ELSE /\ written' = written + 1
            /\ crammed' = crammed \cup (IF writing[w].at = "cram" THEN {written'} ELSE {})
            /\ maxLinesCurLines' = maxLinesCurLines + 1
            /\ IF fileWriter = "open"
               THEN /\ current' = Append(current, written') /\ currentMod' = today
                    /\ UNCHANGED orphans
               ELSE orphans' = orphans \cup {written'} /\ UNCHANGED <<current, currentMod>>
    /\ UNCHANGED <<config, today, archives, fileWriter, dailyOpenDate, timers, deleters,
                   expired, faults>>

\* Every opening of the file starts one of these, and none is ever stopped.
dailyRotate(d) ==
    /\ timers[d] > 0 /\ today > d
    /\ RotateIfNeeded(today, [timers EXCEPT ![d] = @ - 1])
    /\ UNCHANGED <<config, today, writing, written, expired, orphans, crammed>>

\* A file is deleted MaxDays after it was last written to, the one being written as well.
Old(mod) == mod + MaxDays < today
deleteOldLog ==
    LET old == {n \in DOMAIN archives : Old(archives[n].mod)}
        stale == current # Missing /\ Old(currentMod)
    IN  /\ deleters > 0 /\ deleters' = deleters - 1
        /\ archives' = [n \in DOMAIN archives \ old |-> archives[n]]
        /\ expired' = expired \cup (UNION {Range(archives[n].lines) : n \in old})
                              \cup (IF stale THEN Range(current) ELSE {})
        /\ current' = IF stale THEN Missing ELSE current
        /\ fileWriter' = IF stale /\ fileWriter = "open" THEN "unlinked" ELSE fileWriter
        /\ UNCHANGED <<config, today, currentMod, maxLinesCurLines, dailyOpenDate, timers,
                       writing, written, orphans, crammed, faults>>

\* The process dies and is started again, with the file that is there.
Restart ==
    /\ faults < MaxFaults /\ faults' = faults + 1
    /\ writing' = [w \in Writers |-> Idle]
    /\ deleters' = 0
    /\ startLogger(current, [d \in 1 .. LastDay |-> 0], TRUE)
    /\ UNCHANGED <<config, today, archives, written, expired, orphans, crammed>>

\* Names and the age of files depend on the day whatever the file is rotated for.
NextDay ==
    /\ today < LastDay
    /\ today' = today + 1
    /\ UNCHANGED <<rotatedVars, config, timers, writing, written, expired, orphans, crammed>>

Next ==
    \/ \E w \in Writers : WriteMsg(w) \/ Check(w) \/ Rotate(w) \/ Write(w)
    \/ \E d \in 1 .. LastDay : dailyRotate(d)
    \/ deleteOldLog
    \/ Restart
    \/ NextDay

-----------------------------------------------------------------------------
Current == <<0, 0>>
Held == (IF current = Missing THEN {} ELSE {Current}) \cup DOMAIN archives
Lines(f) == IF f = Current THEN current ELSE archives[f].lines
Places(n) ==
    {p \in Held \X (1 .. MaxWrites) : p[2] <= Len(Lines(p[1])) /\ Lines(p[1])[p[2]] = n}

\* Every message that WriteMsg wrote is in one file, once, however writers, the timers of
\* the days, a failed rename or open and a restart interleave, until that file is deleted
\* for its age. One that is written after the file has been deleted is in no file.
KeptOnce ==
    \A n \in 1 .. written :
        IF n \in expired \cup orphans THEN Places(n) = {} ELSE Cardinality(Places(n)) = 1

\* A limit on the lines rotates once for every MaxLines lines: no file is put away that has
\* fewer, though several writers find the limit reached, nor one that has more than the
\* others could add after having found room. Only a writer that finds the limit reached and
\* every name of its day taken adds to the file beyond that: such lines are not counted.
Uncrammed(lines) == {k \in DOMAIN lines : lines[k] \notin crammed}
RotatedOnce ==
    ~config.Daily =>
        \A n \in DOMAIN archives :
            /\ Len(archives[n].lines) >= config.MaxLines
            /\ faults = 0 =>
                   Cardinality(Uncrammed(archives[n].lines))
                        < config.MaxLines + Cardinality(Writers)
=============================================================================
