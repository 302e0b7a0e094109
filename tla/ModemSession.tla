---------------------------- MODULE ModemSession ----------------------------
(***************************************************************************)
(* The modem log service: log/ModemLogService.java, the AT command scripts *)
(* of log/ModemLogTrigger.java and the serial port engine they drive,      *)
(* tool/SerialPortControl.java.                                            *)
(*                                                                         *)
(* Everything but the reader thread runs on the main looper, so a handler  *)
(* is one step; what interleaves are the messages in the looper's queue,   *)
(* the delayed runnables (response time-out, delayed check, stopSelf), the *)
(* reader threads and the intents that start the service.                  *)
(*                                                                         *)
(* One instance of the service is modelled.  Each start that finds no      *)
(* control makes a new SerialPortControl and a ModemLogTrigger holding it, *)
(* so both have the same number.  A delayed runnable may fire at any time  *)
(* after it was posted.  A text of the modem is reduced to whether it      *)
(* contains the success key of the command, decided when it is handled;    *)
(* the toasts and the broadcast of a time-out are left out.                *)
(***************************************************************************)
EXTENDS Integers, Sequences, FiniteSets

CONSTANTS
  Actions,     \* actions of the starting intents, of "start", "i2c", "check", "other"
  AutoPcm,     \* Settings.isAutoPcm()
  I2cDelay,    \* I2S_CMD: for each command, whether it is in DELAYCHECK
  MaxTime,     \* mMaxTime: how often a command is sent at most
  Faults,      \* whether the device may vanish and writes may fail
  MaxStart,    \* bound: starting intents
  MaxText      \* bound: texts read from the modem

ASSUME ScriptAssumption ==
  /\ AutoPcm \in BOOLEAN /\ Faults \in BOOLEAN
  /\ I2cDelay \in Seq(BOOLEAN)
  /\ MaxTime \in Nat \ {0}
  /\ MaxStart \in Nat /\ MaxText \in Nat

Ctl == 1..MaxStart

VARIABLES
  ctl,         \* the SerialPortControl objects
  reader,      \* their reader threads
  made,        \* how many were made
  mIndex,      \* per trigger: next command of I2S_CMD
  control,     \* the service's mSerialPortControl, 0 for null
  mTrigger,    \* the service's mTrigger, 0 for null
  queue,       \* the looper's messages
  stops,       \* delayed stopSelf runnables
  stopping,    \* stopSelf was called
  qxdm, offline, \* the two properties of modem logging
  crashed,     \* an uncaught NullPointerException ended the process
  lost,        \* controls whose sendRepeatCommand returned without sending
  starts, texts  \* counted against the bounds

service == <<made, control, mTrigger, stops, stopping>>
props   == <<qxdm, offline>>
counted == <<starts, texts>>
vars == <<ctl, reader, made, mIndex, control, mTrigger, queue, stops, stopping,
          qxdm, offline, crashed, lost, starts, texts>>

(***************************************************************************)
(* Messages.                                                               *)
(***************************************************************************)
PcmCmds == {"pcm0", "pcm1", "pcm2", "pcm3", "pcm4", "pcm5"}
Cmds  == {"ready", "rate", "level", "trace", "check2", "i2s"} \cup PcmCmds
Modes == {"start", "i2c", "check"}

Start(a)          == [what |-> "START", action |-> a]
AtResult(i)       == [what |-> "AT", ctl |-> i]
SerialNull(i)     == [what |-> "NULL", ctl |-> i]
Result(ok, m, c)  == [what |-> "RESULT", ok |-> ok, mode |-> m, cmd |-> c]
CloseHandle       == [what |-> "CLOSE"]
TimeOut           == [what |-> "TIMEOUT"]
Destroy           == [what |-> "DESTROY"]

\* The I2S commands are those of the mode "i2c", and no others are.
Paired(m, c) == (m = "i2c") <=> (c = "i2s")

Message ==
  [what : {"START"}, action : Actions] \cup [what : {"AT", "NULL"}, ctl : Ctl]
    \cup {r \in [what : {"RESULT"}, ok : BOOLEAN, mode : Modes, cmd : Cmds] :
             Paired(r.mode, r.cmd)}
    \cup {CloseHandle, TimeOut, Destroy}

\* The looper takes its next message; rest is what stays behind it.
Takes(what) == ~crashed /\ queue # << >> /\ Head(queue).what = what
rest == Tail(queue)

(***************************************************************************)
(* SerialPortControl.                                                      *)
(***************************************************************************)
Fields == [handler : BOOLEAN, port : BOOLEAN, mClose : BOOLEAN, timeouts : Nat,
           delayed : BOOLEAN, message : BOOLEAN, fresh : BOOLEAN, times : 0..MaxTime,
           cmd : Cmds, mode : Modes, repeat : BOOLEAN, check : BOOLEAN]

Control == {c \in Fields : Paired(c.mode, c.cmd)}

\* The constructor.  message: mMessage contains the key; fresh: so does what
\* was added to it since the last sendCommand.
NewControl ==
  [handler |-> TRUE, port |-> FALSE, mClose |-> FALSE, timeouts |-> 0,
   delayed |-> FALSE, message |-> FALSE, fresh |-> FALSE, times |-> 0,
   cmd |-> "ready", mode |-> "start", repeat |-> TRUE, check |-> TRUE]

\* Mutant: close() leaves the port open.
ClosedHalf(c) == [c EXCEPT !.mClose = TRUE, !.handler = FALSE]

\* close(): the handler and the port go, posted runnables stay.
Closed(c) == [c EXCEPT !.mClose = TRUE, !.handler = FALSE, !.port = FALSE]

\* Commands without mRepeate, and those whose answer is checked 300 ms later.
Once(c, n) == c \in PcmCmds \/ (c = "i2s" /\ I2cDelay[n])
Later(c, n) == c \in {"pcm3", "pcm4", "pcm5"} \/ (c = "i2s" /\ I2cDelay[n])

\* ModemLogTrigger.sendCommand and SerialPortControl.sendCommand on control i,
\* whose fields are o by now, after the messages q.  n is the position of an
\* "i2s" command.
SendCommand(i, o, c, m, n, q) ==
  LET sent == [o EXCEPT !.repeat = ~Once(c, n), !.check = ~Later(c, n), !.cmd = c,
                        !.mode = m, !.times = 1, !.handler = TRUE, !.fresh = FALSE]
  IN \/ /\ ctl' = [ctl EXCEPT ![i] = [sent EXCEPT !.timeouts = @ + 1]]
        /\ queue' = q
     \* the device is gone: seen by the trigger, or only by the control
     \/ /\ Faults
        /\ ctl' = [ctl EXCEPT ![i] = o]
        /\ queue' \in {q \o <<CloseHandle, CloseHandle>>, Append(q, CloseHandle)}
     \* write throws
     \/ /\ Faults /\ o.port
        /\ ctl' = [ctl EXCEPT ![i] = [sent EXCEPT !.times = 0]]
        /\ queue' = Append(q, CloseHandle)

\* Mutant: one repetition too many.
ExhaustedLate(c) == c.times > MaxTime \/ ~c.repeat

\* A text without the key fails the command instead of repeating it.
Exhausted(c) == c.times = MaxTime \/ ~c.repeat

\* sendNext on control i, whose fields are c by now; match: the result
\* contains the success key.
SendNext(i, c, match, q) ==
  \/ /\ match
     /\ ctl' = [ctl EXCEPT ![i] = c]
     /\ queue' = IF c.handler THEN Append(q, Result(TRUE, c.mode, c.cmd)) ELSE q
     /\ UNCHANGED <<crashed, lost>>
  \* sendFail does not test mMainHandler
  \/ /\ ~match
     /\ Exhausted(c)
     /\ ctl' = [ctl EXCEPT ![i] = c]
     /\ queue' = IF c.handler THEN Append(q, Result(FALSE, c.mode, c.cmd)) ELSE q
     /\ crashed' = ~c.handler
     /\ UNCHANGED lost
  \/ /\ ~match
     /\ ~Exhausted(c)
     /\ queue' = q
     /\ \/ /\ c.port
           /\ ctl' = [ctl EXCEPT ![i] = [c EXCEPT !.times = @ + 1, !.timeouts = @ + 1]]
           /\ UNCHANGED lost
        \* sendRepeatCommand gives up: device gone, or write throws
        \/ /\ Faults \/ ~c.port
           /\ ctl' = [ctl EXCEPT ![i] = [c EXCEPT !.times = @ + 1]]
           /\ lost' = IF c.port THEN lost \cup {i} ELSE lost
     /\ UNCHANGED crashed

\* mHandler, EVENT_GET_AT_RESULT: the pending time-out is withdrawn; the text
\* is checked now or, after another 300 ms, together with what came before.
HandleAtResult ==
  LET i == Head(queue).ctl
      c == [ctl[i] EXCEPT !.timeouts = 0]
  IN /\ Takes("AT")
     /\ \/ /\ ~ctl[i].handler
           /\ queue' = rest
           /\ UNCHANGED <<ctl, crashed, lost>>
        \/ /\ ctl[i].handler /\ c.check
           /\ \E match \in BOOLEAN : SendNext(i, c, match, rest)
        \/ /\ ctl[i].handler /\ ~c.check
           /\ \E match \in BOOLEAN :
                ctl' = [ctl EXCEPT ![i] = [c EXCEPT !.message = @ \/ match,
                                                    !.fresh = @ \/ match,
                                                    !.delayed = TRUE]]
           /\ queue' = rest
           /\ UNCHANGED <<crashed, lost>>
     /\ UNCHANGED <<reader, mIndex, service, props, counted>>

\* mHandler, EVENT_SERIAL_NULL.
HandleSerialNull ==
  LET i == Head(queue).ctl IN
  /\ Takes("NULL")
  /\ \/ /\ ~ctl[i].handler
        /\ queue' = rest
        /\ UNCHANGED ctl
     \/ /\ ctl[i].handler
        /\ ctl' = [ctl EXCEPT ![i].timeouts = 0]
        /\ queue' = Append(rest, CloseHandle)
  /\ UNCHANGED <<reader, mIndex, service, props, crashed, lost, counted>>

\* mRunnable.
DelayedCheck(i) ==
  /\ ~crashed
  /\ ctl[i].delayed
  /\ SendNext(i, [ctl[i] EXCEPT !.delayed = FALSE], ctl[i].message, queue)
  /\ UNCHANGED <<reader, mIndex, service, props, counted>>

\* mTimeOutRunnable: sendTimeOut does not test mMainHandler.
FireTimeOut(i) ==
  /\ ~crashed
  /\ ctl[i].timeouts > 0
  /\ ctl' = [ctl EXCEPT ![i].timeouts = @ - 1]
  /\ queue' = IF ctl[i].handler THEN Append(queue, TimeOut) ELSE queue
  /\ crashed' = ~ctl[i].handler
  /\ UNCHANGED <<reader, mIndex, service, props, lost, counted>>

(***************************************************************************)
(* The reader thread, run(): every line that reads a field the looper may  *)
(* have changed is a step.                                                 *)
(***************************************************************************)
Reads(i, from, to) ==
  /\ ~crashed
  /\ reader[i] = from
  /\ reader' = [reader EXCEPT ![i] = to]
  /\ UNCHANGED <<ctl, mIndex, service, props, lost, starts>>

TestClose(i) ==
  /\ Reads(i, "loop", IF ctl[i].mClose THEN "out" ELSE "test")
  /\ UNCHANGED <<queue, crashed, texts>>

\* if (mSerialPort == null)
TestPort(i) ==
  /\ Reads(i, "test", IF ctl[i].port THEN "call" ELSE "out")
  /\ queue' = IF ctl[i].port THEN queue ELSE Append(queue, SerialNull(i))
  /\ UNCHANGED <<crashed, texts>>

\* mSerialPort.read: the field is read again, only IOException is caught.
CallRead(i) ==
  /\ Reads(i, "call", "read")
  /\ crashed' = ~ctl[i].port
  /\ UNCHANGED <<queue, texts>>

\* read returned: a text for the looper, or a text nobody wants any more.
ReadText(i) ==
  /\ texts < MaxText
  /\ texts' = texts + 1
  /\ \/ /\ ctl[i].mClose \/ ~ctl[i].handler
        /\ Reads(i, "read", "out")
        /\ UNCHANGED queue
     \/ /\ ~ctl[i].mClose /\ ctl[i].handler
        /\ Reads(i, "read", "loop")
        /\ queue' = Append(queue, AtResult(i))
  /\ UNCHANGED crashed

\* read threw: the port was closed under it or the line is down.
ReadFails(i) ==
  /\ ~ctl[i].port \/ Faults
  /\ Reads(i, "read", "out")
  /\ UNCHANGED <<queue, crashed, texts>>

ReaderStep(i) ==
  TestClose(i) \/ TestPort(i) \/ CallRead(i) \/ ReadText(i) \/ ReadFails(i)

(***************************************************************************)
(* ModemLogTrigger.onHandleCmdCallBack.                                    *)
(***************************************************************************)
\* The command that follows each command of a start session.
Script ==
  [ready |-> "rate", rate |-> "level", level |-> "trace", trace |-> "check2",
   check2 |-> IF AutoPcm THEN "pcm0" ELSE "none",
   pcm0 |-> "pcm1", pcm1 |-> "pcm2", pcm2 |-> "pcm3", pcm3 |-> "pcm4",
   pcm4 |-> "pcm5", pcm5 |-> "none"]

\* Mutant: the end of the list is not announced.
SendI2cSilent(i, o, q) ==
  \/ /\ mIndex[i] = Len(I2cDelay)
     /\ queue' = q
     /\ ctl' = [ctl EXCEPT ![i] = o]
     /\ UNCHANGED mIndex
  \/ /\ mIndex[i] # Len(I2cDelay)
     /\ SendCommand(i, o, "i2s", "i2c", mIndex[i] + 1, q)
     /\ mIndex' = [mIndex EXCEPT ![i] = @ + 1]

\* sendI2cCmd(mIndex): the next command of the list, or the end.
SendI2c(i, o, q) ==
  \/ /\ mIndex[i] = Len(I2cDelay)
     /\ queue' = Append(q, CloseHandle)
     /\ ctl' = [ctl EXCEPT ![i] = o]
     /\ UNCHANGED mIndex
  \/ /\ mIndex[i] # Len(I2cDelay)
     /\ SendCommand(i, o, "i2s", "i2c", mIndex[i] + 1, q)
     /\ mIndex' = [mIndex EXCEPT ![i] = @ + 1]

\* The other modes, for the result of command c in mode m.
OnHandleCmdCallBack(i, ok, m, c, q) ==
  \* the script goes on, after a pcm command whatever its result
  \/ /\ ok \/ c \in PcmCmds
     /\ \/ /\ Script[c] # "none"
           /\ SendCommand(i, ctl[i], Script[c], m, 1, q)
        \/ /\ Script[c] = "none"
           /\ queue' = Append(q, CloseHandle)
           /\ UNCHANGED ctl
     /\ qxdm' = (qxdm \/ (c = "check2" /\ m = "start"))
     /\ offline' = (offline \/ (c = "check2" /\ m = "start"))
  \* the check of a log believed to run failed: stop it and start over
  \/ /\ ~ok /\ c = "check2" /\ m = "check"
     /\ SendCommand(i, ctl[i], "ready", "start", 1, q)
     /\ qxdm' = FALSE
     /\ UNCHANGED offline
  \* a start failed
  \/ /\ ~ok /\ c \notin PcmCmds /\ ~(c = "check2" /\ m = "check")
     /\ queue' = Append(q, CloseHandle)
     /\ qxdm' = (qxdm /\ c \notin {"ready", "rate"})
     /\ UNCHANGED <<ctl, offline>>

\* EVENT_RESULT_SUCCESS and EVENT_RESULT_FAIL reach the present trigger.
HandleResult ==
  LET m == Head(queue) IN
  /\ Takes("RESULT")
  /\ \/ /\ mTrigger = 0
        /\ queue' = rest
        /\ UNCHANGED <<ctl, mIndex, props>>
     \/ /\ mTrigger # 0 /\ m.mode = "i2c"
        /\ SendI2c(mTrigger, ctl[mTrigger], rest)
        /\ UNCHANGED props
     \/ /\ mTrigger # 0 /\ m.mode # "i2c"
        /\ OnHandleCmdCallBack(mTrigger, m.ok, m.mode, m.cmd, rest)
        /\ UNCHANGED mIndex
  /\ UNCHANGED <<reader, service, crashed, lost, counted>>

(***************************************************************************)
(* ModemLogService.                                                        *)
(***************************************************************************)
\* stopSelf(): the system destroys the service after the messages it has
\* already sent; later intents reach another instance.
StopSelf(q) ==
  /\ stopping' = TRUE
  /\ queue' = IF stopping THEN q ELSE Append(q, Destroy)

\* startService reaches this instance.
StartService(a) ==
  /\ ~crashed /\ ~stopping
  /\ starts < MaxStart
  /\ starts' = starts + 1
  /\ queue' = Append(queue, Start(a))
  /\ UNCHANGED <<ctl, reader, mIndex, service, props, crashed, lost, texts>>

\* onStartCommand, the early return: no device, or no action.
StartRefused ==
  /\ Takes("START")
  /\ Faults
  /\ StopSelf(rest)
  /\ UNCHANGED <<ctl, reader, made, mIndex, control, mTrigger, stops, props,
                 crashed, lost, counted>>

\* onStartCommand while a session is running: the control is closed, mTrigger stays.
StartAgain ==
  /\ Takes("START")
  /\ control # 0
  /\ ctl' = [ctl EXCEPT ![control] = Closed(@)]
  /\ control' = 0
  /\ StopSelf(rest)
  /\ UNCHANGED <<reader, made, mIndex, mTrigger, stops, props, crashed, lost, counted>>

\* onStartCommand, openSericalPort fails: no port at all also posts a message.
StartNoPort ==
  LET i == made + 1 IN
  /\ Takes("START")
  /\ control = 0 /\ made < MaxStart /\ Faults
  /\ made' = i
  /\ ctl' = [ctl EXCEPT ![i] = Closed(NewControl)]
  /\ \/ StopSelf(rest)
     \/ StopSelf(Append(rest, CloseHandle))
  /\ UNCHANGED <<reader, mIndex, control, mTrigger, stops, props, crashed, lost, counted>>

\* onStartCommand with a new control, trigger and reader thread, and the first
\* command of the session; openSerialPort may return null, unnoticed.
StartSession ==
  LET i == made + 1
      a == Head(queue).action
  IN /\ Takes("START")
     /\ control = 0 /\ made < MaxStart
     /\ made' = i
     /\ control' = i
     /\ mTrigger' = i
     /\ \E hasPort \in {TRUE, ~Faults} :
          LET o == [NewControl EXCEPT !.port = hasPort] IN
          /\ reader' = [reader EXCEPT ![i] = IF hasPort THEN "loop" ELSE "out"]
          /\ \/ /\ a = "start"
                /\ SendCommand(i, o, "ready", "start", 1, rest)
                /\ UNCHANGED <<mIndex, stopping>>
             \/ /\ a = "i2c"
                /\ SendI2c(i, o, rest)
                /\ UNCHANGED stopping
             \/ /\ a = "check"
                /\ SendCommand(i, o, "check2", "check", 1, rest)
                /\ UNCHANGED <<mIndex, stopping>>
             \/ /\ a \notin Modes
                /\ ctl' = [ctl EXCEPT ![i] = o]
                /\ StopSelf(rest)
                /\ UNCHANGED mIndex
     /\ UNCHANGED <<stops, props, crashed, lost, counted>>

\* The private close(): also the end of a session that timed out.
CloseService(what) ==
  /\ Takes(what)
  /\ ctl' = IF control # 0 THEN [ctl EXCEPT ![control] = Closed(@)] ELSE ctl
  /\ control' = 0
  /\ mTrigger' = 0
  /\ stops' = stops + 1
  /\ queue' = rest
  /\ UNCHANGED <<reader, made, mIndex, stopping, props, crashed, lost, counted>>

\* EVENT_SERIAL_NULL and MSG_CLOSE_HANDLE.
HandleClose == CloseService("CLOSE")

\* Mutant: the time-out is set again and nothing else.
HandleTimeOutAgain ==
  /\ Takes("TIMEOUT")
  /\ queue' = rest
  /\ ctl' = IF control # 0 THEN [ctl EXCEPT ![control].timeouts = 1] ELSE ctl
  /\ UNCHANGED <<reader, mIndex, service, props, crashed, lost, counted>>

\* EVENT_TIME_OUT_NO_RESPONSE.
HandleTimeOut == CloseService("TIMEOUT")

\* The stopSelf that close() posted with 100 ms delay.
DelayedStop ==
  /\ ~crashed
  /\ stops > 0
  /\ stops' = stops - 1
  /\ StopSelf(queue)
  /\ UNCHANGED <<ctl, reader, made, mIndex, control, mTrigger, props, crashed,
                 lost, counted>>

OnDestroy ==
  /\ Takes("DESTROY")
  /\ ctl' = IF control # 0 THEN [ctl EXCEPT ![control] = Closed(@)] ELSE ctl
  /\ control' = 0
  /\ queue' = rest
  /\ UNCHANGED <<reader, made, mIndex, mTrigger, stops, stopping, props, crashed,
                 lost, counted>>

Looper ==
  \/ StartRefused \/ StartAgain \/ StartNoPort \/ StartSession
  \/ HandleAtResult \/ HandleSerialNull \/ HandleResult
  \/ HandleClose \/ HandleTimeOut \/ OnDestroy

Init ==
  /\ ctl = [i \in Ctl |-> NewControl]
  /\ reader = [i \in Ctl |-> "out"]
  /\ made = 0
  /\ mIndex = [i \in Ctl |-> 0]
  /\ control = 0 /\ mTrigger = 0
  /\ queue = << >>
  /\ stops = 0 /\ stopping = FALSE
  /\ qxdm \in BOOLEAN /\ offline = qxdm
  /\ crashed = FALSE /\ lost = {}
  /\ starts = 0 /\ texts = 0

Next ==
  \/ Looper
  \/ DelayedStop
  \/ \E i \in Ctl : FireTimeOut(i) \/ DelayedCheck(i) \/ ReaderStep(i)
  \/ \E a \in Actions : StartService(a)

Spec == Init /\ [][Next]_vars

\* The looper runs and delayed runnables become due; nothing is assumed of the
\* modem, the reader threads or the senders of intents.
Fairness ==
  /\ WF_vars(Looper)
  /\ WF_vars(DelayedStop)
  /\ \A i \in Ctl : WF_vars(FireTimeOut(i)) /\ WF_vars(DelayedCheck(i))

FairSpec == Spec /\ Fairness

(***************************************************************************)
(* Properties.                                                             *)
(***************************************************************************)
\* Type invariant; a command is never counted as sent more than MaxTime times,
\* and a result reaches the script of the mode its command was sent in.
TypeOK ==
  /\ ctl \in [Ctl -> Control]
  /\ reader \in [Ctl -> {"out", "loop", "test", "call", "read"}]
  /\ made \in 0..MaxStart
  /\ mIndex \in [Ctl -> 0..Len(I2cDelay)]
  /\ control \in 0..made /\ mTrigger \in 0..made
  /\ queue \in Seq(Message)
  /\ stops \in Nat /\ stopping \in BOOLEAN
  /\ qxdm \in BOOLEAN /\ offline \in BOOLEAN
  /\ crashed \in BOOLEAN /\ lost \subseteq Ctl
  /\ starts \in Nat /\ texts \in Nat

\* A serial port that is open belongs to the service's present control: no
\* order of starts, time-outs, failures and onDestroy leaves one open behind it.
PortOwned == \A i \in Ctl : ctl[i].port => i = control

\* What can still move session i: a time-out, a delayed check, or a message
\* that the service acts on.
Pending(i) ==
  \/ ctl[i].timeouts > 0
  \/ ctl[i].delayed
  \/ \E k \in 1..Len(queue) : queue[k].what \in {"RESULT", "CLOSE", "TIMEOUT", "DESTROY"}

\* A session is never left without anything that will move it: whenever the
\* pending time-out is withdrawn, an answer or a new command takes its place.
\* The exception is a repetition that could not be sent.
Watched == control # 0 /\ control \notin lost => Pending(control)

\* Every session ends, whatever the modem answers or does not answer.
SessionEnds ==
  \A i \in Ctl : control = i ~> (control # i \/ i \in lost \/ crashed)

\* "serial port normal close!!!" (ModemLogService.java): a session that was
\* closed leaves no time-out behind that fails on the missing handler.
NormalClose ==
  [][\A i \in Ctl : FireTimeOut(i) => ctl[i].handler]_vars

\* "SUCCESS OK" (ModemLog.java, PCM_CMD3): a delayed check succeeds only when
\* the OK was received after the command was sent.
DelayedCheckIsOwn ==
  [][\A i \in Ctl : DelayedCheck(i) /\ ctl[i].message => ctl[i].fresh]_vars
=============================================================================
