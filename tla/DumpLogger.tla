----------------------------- MODULE DumpLogger -----------------------------
(***************************************************************************)
(* One category of DumpService.java's periodic dumps: the fields mXThread  *)
(* and mXRunnable, the handlers that start, stop and restart it, and the   *)
(* run method of LogRunnable.  The handlers run on the main thread (the    *)
(* user's switches, initLog, a change of path) and, through onReStartLog,  *)
(* on the thread of a DeleteTask; nothing synchronises the two, so every   *)
(* read or write of a field is a step of its own.                          *)
(*                                                                         *)
(* A runnable and a thread are numbers; 0 is null.                         *)
(***************************************************************************)
EXTENDS Integers, Sequences

CONSTANT MaxRunnables       \* bound: LogRunnables created

ASSUME DumpLoggerAssumption == MaxRunnables \in Nat

VARIABLES
  category,     \* closesPrevious: audio; root: procrank and top
  mThread, mRunnable,
  mClose,       \* the runnables whose mClose is set
  target,       \* the runnable a thread was made with
  at,           \* where a thread is in run()
  interrupted,  \* the threads with a pending interrupt
  todo,         \* the statements a caller has still to execute
  made,         \* runnables made so far; the one a caller is making
  making,
  thrown,       \* an exception has ended the process
  wanted,       \* history: the category's setting
  raced         \* history: callers overlapped, or a start found a logger that
                \* its category does not close

fields == <<mThread, mRunnable>>
runs == <<mClose, target, at, interrupted>>
loggerVars == <<category, fields, runs, todo, made, making, thrown, wanted, raced>>

Ids == 1..MaxRunnables
Callers == {"main", "task"}
Quiet == \A c \in Callers : todo[c] = <<>>
\* The loggers that go on dumping.
Open == {t \in Ids : at[t] \in {"check", "dump", "sleep"} /\ target[t] # 0 /\ target[t] \notin mClose
                     /\ t \notin interrupted}

LoggerInit ==
  /\ category \in [closesPrevious : BOOLEAN, root : BOOLEAN]
  /\ mThread = 0 /\ mRunnable = 0
  /\ mClose = {} /\ interrupted = {}
  /\ target = [t \in Ids |-> 0] /\ at = [t \in Ids |-> "none"]
  /\ todo = [c \in Callers |-> <<>>]
  /\ made = 0 /\ making = [c \in Callers |-> 0]
  /\ thrown = FALSE /\ wanted = FALSE /\ raced = FALSE

(***************************************************************************)
(* The handlers, as the statements they execute.                           *)
(***************************************************************************)
\* handleXLogEnable(false): closeThread, closeRunnable and the assignments.
StopStatements == <<"interrupt", "threadNull", "close", "runnableNull">>
\* startX
StartStatements ==
  (IF category.closesPrevious THEN <<"testPrevious", "closePrevious">> ELSE <<>>)
    \o <<"newRunnable", "newThread", "start">>

Call(c, statements) ==
  /\ ~thrown /\ todo[c] = <<>> /\ made + (IF Quiet THEN 0 ELSE 1) < MaxRunnables
  /\ todo' = [todo EXCEPT ![c] = statements]
  /\ raced' = (raced \/ ~Quiet \/ (Head(statements) = "newRunnable" /\ mRunnable # 0))
  /\ UNCHANGED <<category, fields, runs, made, making, thrown>>

\* The switch of the category's page, and initLog when the setting is on.
Enable == Call("main", StartStatements) /\ wanted' = TRUE
Disable == Call("main", StopStatements) /\ wanted' = FALSE

\* Mutant: the old logger is stopped and no new one started.
RestartLogStops(c) ==
  /\ mThread # 0
  /\ Call(c, StopStatements)
  /\ UNCHANGED wanted

\* onRestartLog, from handleLogPathChange (main) or a DeleteTask.
RestartLog(c) ==
  /\ mThread # 0
  /\ Call(c, StopStatements \o StartStatements)
  /\ UNCHANGED wanted

Throw ==
  /\ thrown' = TRUE
  /\ at' = [t \in Ids |-> "none"]
  /\ todo' = [c \in Callers |-> <<>>]
  /\ UNCHANGED <<fields, mClose, target, interrupted, made, making>>

\* The next statement of caller c.
Execute(c, statement) ==
  /\ todo[c] # <<>> /\ Head(todo[c]) = statement
  /\ todo' = [todo EXCEPT ![c] = Tail(@)]
  /\ UNCHANGED thrown

Interrupt(c) ==
  /\ Execute(c, "interrupt")
  /\ interrupted' = interrupted \cup ({mThread} \ {0})
  /\ UNCHANGED <<fields, mClose, target, at, made, making>>

CloseRunnable(c) ==
  /\ Execute(c, "close")
  /\ mClose' = mClose \cup ({mRunnable} \ {0})
  /\ UNCHANGED <<fields, target, at, interrupted, made, making>>

AssignNull(c) ==
  /\ \/ Execute(c, "threadNull") /\ mThread' = 0 /\ UNCHANGED mRunnable
     \/ Execute(c, "runnableNull") /\ mRunnable' = 0 /\ UNCHANGED mThread
  /\ UNCHANGED <<runs, made, making>>

\* if (mAudioRunnable != null) mAudioRunnable.close(): the field is read twice.
ClosePrevious(c) ==
  \/ /\ Execute(c, "testPrevious") /\ mRunnable # 0
     /\ UNCHANGED <<fields, runs, made, making>>
  \/ /\ todo[c] # <<>> /\ Head(todo[c]) = "testPrevious" /\ mRunnable = 0
     /\ todo' = [todo EXCEPT ![c] = Tail(Tail(@))]
     /\ UNCHANGED <<fields, runs, made, making, thrown>>
  \/ /\ Execute(c, "closePrevious") /\ mRunnable # 0
     /\ mClose' = mClose \cup {mRunnable}
     /\ UNCHANGED <<fields, target, at, interrupted, made, making>>
  \/ /\ todo[c] # <<>> /\ Head(todo[c]) = "closePrevious" /\ mRunnable = 0
     /\ Throw

NewRunnable(c) ==
  /\ Execute(c, "newRunnable")
  /\ made' = made + 1 /\ making' = [making EXCEPT ![c] = made + 1]
  /\ mRunnable' = made + 1
  /\ UNCHANGED <<mThread, runs>>

\* The constructor's argument is read from the field.
NewThread(c) ==
  /\ Execute(c, "newThread")
  /\ mThread' = making[c]
  /\ target' = [target EXCEPT ![making[c]] = mRunnable]
  /\ at' = [at EXCEPT ![making[c]] = "new"]
  /\ UNCHANGED <<mRunnable, mClose, interrupted, made, making>>

\* mXThread.start() on the field's thread, which may be null or started already.
Startable == mThread # 0 /\ at[mThread] = "new"
StartThread(c) ==
  \/ /\ Startable
     /\ Execute(c, "start")
     /\ at' = [at EXCEPT ![mThread] = "check"]
     /\ UNCHANGED <<fields, mClose, target, interrupted, made, making>>
  \/ /\ ~Startable
     /\ todo[c] # <<>> /\ Head(todo[c]) = "start"
     /\ Throw

Caller(c) ==
  /\ Interrupt(c) \/ CloseRunnable(c) \/ AssignNull(c) \/ ClosePrevious(c)
       \/ NewRunnable(c) \/ NewThread(c) \/ StartThread(c)
  /\ UNCHANGED <<category, wanted, raced>>

(***************************************************************************)
(* LogRunnable.run.                                                        *)
(***************************************************************************)
RunGoto(t, s) == at' = [at EXCEPT ![t] = s]

\* Mutant: only the interrupt is looked at.
RunCheckInterrupt(t) ==
  /\ at[t] = "check"
  /\ RunGoto(t, IF target[t] = 0 \/ t \in interrupted THEN "done" ELSE "dump")
  /\ UNCHANGED <<mClose, interrupted>>

RunCheck(t) ==
  /\ at[t] = "check"
  /\ RunGoto(t, IF target[t] = 0 \/ t \in interrupted \/ target[t] \in mClose THEN "done" ELSE "dump")
  /\ UNCHANGED <<mClose, interrupted>>

\* The command is run; when a directory or the command fails the thread sleeps
\* a second instead of mDelayTime.  Util.setCmd, which runs the root commands,
\* swallows an interrupt.
RunDump(t) ==
  /\ at[t] = "dump"
  /\ RunGoto(t, IF target[t] \in mClose THEN "check" ELSE "sleep")
  /\ interrupted' \in {interrupted} \cup (IF category.root THEN {interrupted \ {t}} ELSE {})
  /\ UNCHANGED mClose

RunSleep(t) ==
  /\ at[t] = "sleep"
  /\ \/ /\ t \in interrupted
        /\ interrupted' = interrupted \ {t}
        /\ mClose' = mClose \cup {target[t]}
        /\ RunGoto(t, "done")
     \/ /\ t \notin interrupted
        /\ RunGoto(t, "check")
        /\ UNCHANGED <<mClose, interrupted>>

Run(t) ==
  /\ RunCheck(t) \/ RunDump(t) \/ RunSleep(t)
  /\ UNCHANGED <<category, fields, target, todo, made, making, thrown, wanted, raced>>

LoggerNext ==
  \/ Enable \/ Disable
  \/ \E c \in Callers : RestartLog(c) \/ Caller(c)
  \/ \E t \in Ids : Run(t)

LoggerFairness ==
  /\ \A c \in Callers : WF_loggerVars(Caller(c))
  /\ \A t \in Ids : WF_loggerVars(Run(t))

LoggerSpec == LoggerInit /\ [][LoggerNext]_loggerVars /\ LoggerFairness

(***************************************************************************)
(* Properties.                                                             *)
(***************************************************************************)
\* Type invariant.
LoggerTypeOK ==
  /\ category \in [closesPrevious : BOOLEAN, root : BOOLEAN]
  /\ mThread \in 0..made /\ mRunnable \in 0..made /\ made \in 0..MaxRunnables
  /\ mClose \subseteq Ids /\ interrupted \subseteq Ids
  /\ target \in [Ids -> 0..made]
  /\ at \in [Ids -> {"none", "new", "check", "dump", "sleep", "done"}]
  /\ making \in [Callers -> 0..made]
  /\ {thrown, wanted, raced} \subseteq BOOLEAN

\* A category that is switched on keeps a logger that dumps, however the restart
\* of a DeleteTask overlaps the calls of the main thread.  As long as callers do not
\* overlap and no start finds an unclosed logger, there is at most one, and none once
\* the category is switched off.
LoggersMatch ==
  Quiet =>
    /\ wanted /\ ~thrown => Open # {}
    /\ ~raced => ~thrown /\ (\A t, u \in Open : t = u) /\ (~wanted => Open = {})

\* A logger whose runnable was closed ends, even when its interrupt was swallowed.
ClosedEnds == \A t \in Ids : (target[t] \in mClose) ~> (at[t] \in {"none", "new", "done"})
=============================================================================
