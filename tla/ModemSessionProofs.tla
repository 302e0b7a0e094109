------------------------- MODULE ModemSessionProofs -------------------------
(***************************************************************************)
(* Proofs about the modem log session, for any lists of commands, limits   *)
(* and faults.                                                             *)
(***************************************************************************)
EXTENDS ModemSession, TLAPS

(***************************************************************************)
(* Messages and controls.                                                  *)
(***************************************************************************)
\* The messages the code posts are messages.
LEMMA Posted ==
  /\ CloseHandle \in Message /\ TimeOut \in Message /\ Destroy \in Message
  /\ \A a \in Actions : Start(a) \in Message
  /\ \A i \in Ctl : AtResult(i) \in Message /\ SerialNull(i) \in Message
  /\ \A ok \in BOOLEAN, m \in Modes, c \in Cmds :
       Paired(m, c) => Result(ok, m, c) \in Message
BY DEF Message, CloseHandle, TimeOut, Destroy, Start, AtResult, SerialNull, Result

\* What the looper takes from its queue, by the kind of the message.
LEMMA Taken ==
  ASSUME TypeOK, queue # << >>
  PROVE  /\ Head(queue) \in Message /\ rest \in Seq(Message)
         /\ Head(queue).what \in {"AT", "NULL"} => Head(queue).ctl \in Ctl
         /\ Head(queue).what = "RESULT" =>
              /\ Head(queue).ok \in BOOLEAN /\ Head(queue).mode \in Modes
              /\ Head(queue).cmd \in Cmds /\ Paired(Head(queue).mode, Head(queue).cmd)
         /\ Head(queue).what = "START" => Head(queue).action \in Actions
<1>1. Head(queue) \in Message /\ rest \in Seq(Message)
  BY DEF TypeOK, rest
<1>2. \A msg \in Message :
        /\ msg.what \in {"AT", "NULL"} => msg.ctl \in Ctl
        /\ msg.what = "RESULT" =>
             /\ msg.ok \in BOOLEAN /\ msg.mode \in Modes
             /\ msg.cmd \in Cmds /\ Paired(msg.mode, msg.cmd)
        /\ msg.what = "START" => msg.action \in Actions
  BY DEF Message, CloseHandle, TimeOut, Destroy
<1> QED BY <1>1, <1>2

\* Appending a message keeps the queue a queue.
LEMMA Appended ==
  ASSUME NEW q \in Seq(Message), NEW x \in Message
  PROVE  Append(q, x) \in Seq(Message) /\ q \o <<x, x>> \in Seq(Message)
OBVIOUS

\* A new control and a closed control are controls; a closed one has no port.
LEMMA ControlFacts ==
  /\ NewControl \in Control /\ NewControl.port = FALSE
  /\ \A c \in Control : Closed(c) \in Control /\ Closed(c).port = FALSE
<1>1. NewControl \in Fields /\ Paired(NewControl.mode, NewControl.cmd)
  BY ScriptAssumption DEF NewControl, Fields, Cmds, Modes, Paired
<1>2. \A c \in Fields : /\ Closed(c) \in Fields /\ Closed(c).port = FALSE
                       /\ Closed(c).mode = c.mode /\ Closed(c).cmd = c.cmd
  BY DEF Fields, Closed
<1>3. NewControl.port = FALSE
  BY DEF NewControl
<1> QED BY <1>1, <1>2, <1>3 DEF Control

\* sendCommand changes only the control it is given, and not its port.
LEMMA SendCommandFacts ==
  ASSUME TypeOK, NEW i \in Ctl, NEW o \in Control, NEW c \in Cmds, NEW m \in Modes,
         Paired(m, c), NEW n, NEW q \in Seq(Message), SendCommand(i, o, c, m, n, q)
  PROVE  /\ ctl' \in [Ctl -> Control]
         /\ queue' \in Seq(Message)
         /\ \A j \in Ctl : ctl'[j].port = IF j = i THEN o.port ELSE ctl[j].port
<1> DEFINE r == ~Once(c, n)
           k == ~Later(c, n)
           sent == [o EXCEPT !.repeat = r, !.check = k, !.cmd = c,
                        !.mode = m, !.times = 1, !.handler = TRUE, !.fresh = FALSE]
<1>1. r \in BOOLEAN /\ k \in BOOLEAN
  BY DEF Once, Later
<1> HIDE DEF r, k
<1> DEFINE Good(x) == /\ x \in Fields /\ x.port = o.port
                      /\ x.mode = m /\ x.cmd = c
<1>2. o \in Fields
  BY DEF Control
<1>a. Good(sent)
  <2>1. 1 \in 0..MaxTime
    BY ScriptAssumption
  <2> DEFINE s1 == [o EXCEPT !.repeat = r, !.check = k, !.cmd = c]
             s2 == [s1 EXCEPT !.mode = m, !.times = 1]
             s3 == [s2 EXCEPT !.handler = TRUE, !.fresh = FALSE]
  <2>a. s1 \in Fields
    BY <1>1, <1>2 DEF Fields
  <2> HIDE DEF s1
  <2>b. s2 \in Fields
    BY <2>a, <2>1 DEF Fields
  <2> HIDE DEF s2
  <2>c. s3 \in Fields
    BY <2>b DEF Fields
  <2>2. sent \in Fields
    <3>1. sent = s3
      BY <1>2 DEF Fields, s1, s2
    <3> QED BY <3>1, <2>c
  <2>3. sent.port = o.port /\ sent.mode = m /\ sent.cmd = c
    BY <1>2 DEF Fields
  <2> QED BY <2>2, <2>3
<1> HIDE DEF sent
<1>b. Good([sent EXCEPT !.timeouts = @ + 1]) /\ Good([sent EXCEPT !.times = 0])
  <2> DEFINE t == sent.timeouts + 1
  <2>1. t \in Nat /\ 0 \in 0..MaxTime
    BY <1>a, ScriptAssumption DEF Fields
  <2>2. /\ [sent EXCEPT !.timeouts = t].port = sent.port
        /\ [sent EXCEPT !.timeouts = t].mode = sent.mode
        /\ [sent EXCEPT !.timeouts = t].cmd = sent.cmd
        /\ [sent EXCEPT !.times = 0].port = sent.port
        /\ [sent EXCEPT !.times = 0].mode = sent.mode
        /\ [sent EXCEPT !.times = 0].cmd = sent.cmd
    BY <1>a DEF Fields
  <2> HIDE DEF t
  <2>3. [sent EXCEPT !.timeouts = t] \in Fields
    BY <1>a, <2>1 DEF Fields
  <2>4. [sent EXCEPT !.times = 0] \in Fields
    BY <1>a, <2>1 DEF Fields
  <2> QED BY <1>a, <2>2, <2>3, <2>4 DEF t
<1>3. /\ [sent EXCEPT !.timeouts = @ + 1] \in Control
      /\ [sent EXCEPT !.timeouts = @ + 1].port = o.port
      /\ [sent EXCEPT !.times = 0] \in Control
      /\ [sent EXCEPT !.times = 0].port = o.port
  BY <1>b DEF Control
<1>4. \/ ctl' = [ctl EXCEPT ![i] = [sent EXCEPT !.timeouts = @ + 1]]
      \/ ctl' = [ctl EXCEPT ![i] = o]
      \/ ctl' = [ctl EXCEPT ![i] = [sent EXCEPT !.times = 0]]
  BY DEF SendCommand, sent, r, k
<1>5. ctl \in [Ctl -> Control]
  BY DEF TypeOK
<1>6. queue' \in Seq(Message)
  BY Appended, Posted DEF SendCommand
<1> QED BY <1>3, <1>4, <1>5, <1>6

\* sendNext changes only the control it is given, and not its port.
LEMMA SendNextFacts ==
  ASSUME TypeOK, NEW i \in Ctl, NEW c \in Control, NEW match \in BOOLEAN,
         NEW q \in Seq(Message), SendNext(i, c, match, q)
  PROVE  /\ ctl' \in [Ctl -> Control]
         /\ queue' \in Seq(Message)
         /\ crashed' \in BOOLEAN /\ lost' \subseteq Ctl
         /\ \A j \in Ctl : ctl'[j].port = IF j = i THEN c.port ELSE ctl[j].port
<1>1. ctl \in [Ctl -> Control] /\ crashed \in BOOLEAN /\ lost \subseteq Ctl
  BY DEF TypeOK
<1>2. Append(q, Result(TRUE, c.mode, c.cmd)) \in Seq(Message)
  BY Appended, Posted DEF Control, Fields
<1>3. Append(q, Result(FALSE, c.mode, c.cmd)) \in Seq(Message)
  BY Appended, Posted DEF Control, Fields
<1>4. c.handler \in BOOLEAN
  BY DEF Control, Fields
<1>5. ASSUME ~Exhausted(c)
      PROVE  /\ [c EXCEPT !.times = @ + 1, !.timeouts = @ + 1] \in Control
             /\ [c EXCEPT !.times = @ + 1, !.timeouts = @ + 1].port = c.port
             /\ [c EXCEPT !.times = @ + 1] \in Control
             /\ [c EXCEPT !.times = @ + 1].port = c.port
  <2>1. c \in Fields /\ c.times + 1 \in 0..MaxTime
    BY <1>5, ScriptAssumption DEF Control, Fields, Exhausted
  <2> DEFINE t == c.times + 1
             d == c.timeouts + 1
  <2>a. t \in 0..MaxTime /\ d \in Nat
    BY <2>1 DEF Fields
  <2> HIDE DEF t, d
  <2>b. [c EXCEPT !.times = t, !.timeouts = d] \in Fields
    BY <2>1, <2>a DEF Fields
  <2>c. [c EXCEPT !.times = t] \in Fields
    BY <2>1, <2>a DEF Fields
  <2>2. /\ [c EXCEPT !.times = @ + 1, !.timeouts = @ + 1] \in Fields
        /\ [c EXCEPT !.times = @ + 1] \in Fields
    BY <2>b, <2>c DEF t, d
  <2>3. \A x \in {[c EXCEPT !.times = @ + 1, !.timeouts = @ + 1], [c EXCEPT !.times = @ + 1]} :
          x.port = c.port /\ x.mode = c.mode /\ x.cmd = c.cmd
    BY <2>1 DEF Fields
  <2> QED BY <2>2, <2>3 DEF Control
<1>6. CASE match
  BY <1>1, <1>2, <1>6 DEF SendNext
<1>7. CASE ~match /\ Exhausted(c)
  BY <1>1, <1>3, <1>4, <1>7 DEF SendNext
<1>8. CASE ~match /\ ~Exhausted(c)
  BY <1>1, <1>5, <1>8 DEF SendNext
<1> QED BY <1>6, <1>7, <1>8

\* sendI2cCmd keeps the types and the ports.
LEMMA SendI2cFacts ==
  ASSUME TypeOK, NEW i \in Ctl, NEW o \in Control, NEW q \in Seq(Message),
         SendI2c(i, o, q)
  PROVE  /\ ctl' \in [Ctl -> Control]
         /\ queue' \in Seq(Message)
         /\ mIndex' \in [Ctl -> 0..Len(I2cDelay)]
         /\ \A j \in Ctl : ctl'[j].port = IF j = i THEN o.port ELSE ctl[j].port
<1>1. CASE mIndex[i] = Len(I2cDelay)
  <2>1. Append(q, CloseHandle) \in Seq(Message)
    BY Appended, Posted
  <2> QED BY <1>1, <2>1 DEF SendI2c, TypeOK
<1>2. CASE mIndex[i] # Len(I2cDelay)
  <2>1. /\ SendCommand(i, o, "i2s", "i2c", mIndex[i] + 1, q)
        /\ mIndex' = [mIndex EXCEPT ![i] = @ + 1]
    BY <1>2 DEF SendI2c
  <2>2. "i2s" \in Cmds /\ "i2c" \in Modes /\ Paired("i2c", "i2s")
    BY DEF Cmds, Modes, Paired
  <2>3. Len(I2cDelay) \in Nat
    BY ScriptAssumption
  <2>4. mIndex' \in [Ctl -> 0..Len(I2cDelay)]
    BY <1>2, <2>1, <2>3 DEF TypeOK
  <2> QED BY <2>1, <2>2, <2>4, SendCommandFacts
<1> QED BY <1>1, <1>2

\* onHandleCmdCallBack keeps the types and the ports.
LEMMA CallBackFacts ==
  ASSUME TypeOK, NEW i \in Ctl, NEW ok \in BOOLEAN, NEW m \in Modes, NEW c \in Cmds,
         Paired(m, c), m # "i2c", NEW q \in Seq(Message),
         OnHandleCmdCallBack(i, ok, m, c, q)
  PROVE  /\ ctl' \in [Ctl -> Control]
         /\ queue' \in Seq(Message)
         /\ qxdm' \in BOOLEAN /\ offline' \in BOOLEAN
         /\ \A j \in Ctl : ctl'[j].port = ctl[j].port
<1>1. ctl \in [Ctl -> Control] /\ ctl[i] \in Control /\ qxdm \in BOOLEAN /\ offline \in BOOLEAN
  BY DEF TypeOK
<1>2. Append(q, CloseHandle) \in Seq(Message)
  BY Appended, Posted
<1>3. CASE ok \/ c \in PcmCmds
  <2>0. /\ \/ /\ Script[c] # "none"
              /\ SendCommand(i, ctl[i], Script[c], m, 1, q)
           \/ /\ Script[c] = "none"
              /\ queue' = Append(q, CloseHandle)
              /\ UNCHANGED ctl
        /\ qxdm' = (qxdm \/ (c = "check2" /\ m = "start"))
        /\ offline' = (offline \/ (c = "check2" /\ m = "start"))
    <3>1. "check2" \notin PcmCmds
      BY DEF PcmCmds
    <3> QED BY <1>3, <3>1, Zenon DEF OnHandleCmdCallBack
  <2>1. qxdm' \in BOOLEAN /\ offline' \in BOOLEAN
    BY <1>1, <2>0
  <2>2. CASE Script[c] # "none"
    <3>1. Script[c] \in Cmds /\ Paired(m, Script[c])
      BY <2>2 DEF Script, Cmds, PcmCmds, Paired
    <3>2. SendCommand(i, ctl[i], Script[c], m, 1, q)
      BY <2>0, <2>2
    <3> QED BY <1>1, <2>1, <3>1, <3>2, SendCommandFacts
  <2>3. CASE Script[c] = "none"
    BY <1>1, <1>2, <2>0, <2>1, <2>3
  <2> QED BY <2>2, <2>3
<1>4. CASE ~ok /\ c = "check2" /\ m = "check"
  <2>1. SendCommand(i, ctl[i], "ready", "start", 1, q) /\ qxdm' = FALSE /\ offline' = offline
    BY <1>4 DEF OnHandleCmdCallBack, PcmCmds
  <2>2. "ready" \in Cmds /\ "start" \in Modes /\ Paired("start", "ready")
    BY DEF Cmds, Modes, Paired
  <2> QED BY <1>1, <2>1, <2>2, SendCommandFacts
<1>5. CASE ~ok /\ c \notin PcmCmds /\ ~(c = "check2" /\ m = "check")
  BY <1>1, <1>2, <1>5 DEF OnHandleCmdCallBack
<1> QED BY <1>3, <1>4, <1>5

\* stopSelf keeps the types.
LEMMA StopSelfFacts ==
  ASSUME NEW q \in Seq(Message), StopSelf(q)
  PROVE  queue' \in Seq(Message) /\ stopping' \in BOOLEAN
BY Appended, Posted DEF StopSelf

\* A step that keeps the control and all ports keeps PortOwned.
LEMMA PortsKept ==
  ASSUME PortOwned, control' = control, \A j \in Ctl : ctl'[j].port = ctl[j].port
  PROVE  PortOwned'
BY DEF PortOwned, Ctl

\* Closing the service's control leaves no port open.
LEMMA ControlClosed ==
  ASSUME TypeOK, PortOwned, control' = 0,
         ctl' = IF control # 0 THEN [ctl EXCEPT ![control] = Closed(@)] ELSE ctl
  PROVE  ctl' \in [Ctl -> Control] /\ PortOwned'
<1>1. ctl \in [Ctl -> Control] /\ control \in 0..made /\ made \in 0..MaxStart
  BY DEF TypeOK
<1>2. CASE control = 0
  BY <1>1, <1>2 DEF PortOwned, Ctl
<1>3. CASE control # 0
  <2>1. control \in Ctl
    BY <1>1, <1>3, ScriptAssumption DEF Ctl
  <2>2. ctl' = [ctl EXCEPT ![control] = Closed(ctl[control])]
    BY <1>3
  <2>3. Closed(ctl[control]) \in Control /\ Closed(ctl[control]).port = FALSE
    BY <1>1, <2>1, ControlFacts
  <2>4. ctl' \in [Ctl -> Control]
    BY <1>1, <2>1, <2>2, <2>3
  <2>5. \A j \in Ctl : ~ctl'[j].port
    BY <1>1, <2>1, <2>2, <2>3 DEF PortOwned
  <2> QED BY <2>4, <2>5 DEF PortOwned
<1> QED BY <1>2, <1>3

(***************************************************************************)
(* The actions.                                                            *)
(***************************************************************************)
Inv == TypeOK /\ PortOwned

\* The initial state satisfies the invariant.
LEMMA InitInv == Init => Inv
<1> SUFFICES ASSUME Init PROVE Inv
  OBVIOUS
<1>1. Len(I2cDelay) \in Nat
  BY ScriptAssumption
<1>a. /\ ctl \in [Ctl -> Control] /\ mIndex \in [Ctl -> 0..Len(I2cDelay)]
      /\ reader \in [Ctl -> {"out", "loop", "test", "call", "read"}]
  BY <1>1, ControlFacts DEF Init
<1>b. made \in 0..MaxStart /\ control \in 0..made /\ mTrigger \in 0..made
  BY ScriptAssumption DEF Init
<1>c. qxdm \in BOOLEAN /\ offline \in BOOLEAN
  <2>1. qxdm \in BOOLEAN /\ offline = qxdm
    BY DEF Init
  <2> QED BY <2>1, Zenon
<1>d. queue \in Seq(Message) /\ lost \subseteq Ctl
  BY DEF Init
<1>e. stops \in Nat /\ starts \in Nat /\ texts \in Nat
  BY DEF Init
<1>f. stopping \in BOOLEAN /\ crashed \in BOOLEAN
  BY Zenon DEF Init
<1>2. TypeOK
  BY <1>a, <1>b, <1>c, <1>d, <1>e, <1>f DEF TypeOK
<1>3. PortOwned
  BY ControlFacts DEF Init, PortOwned
<1> QED BY <1>2, <1>3 DEF Inv

\* The service's starts keep the invariant.
LEMMA StartsKeep ==
  ASSUME Inv, StartRefused \/ StartAgain \/ StartNoPort \/ StartSession
  PROVE  Inv'
<1> USE DEF Inv
<1>0. ASSUME Takes("START")
      PROVE  rest \in Seq(Message) /\ Append(rest, CloseHandle) \in Seq(Message)
  BY <1>0, Taken, Appended, Posted DEF Takes
<1>1. CASE StartRefused
  <2>1. queue' \in Seq(Message) /\ stopping' \in BOOLEAN
    BY <1>0, <1>1, StopSelfFacts DEF StartRefused
  <2>2. TypeOK'
    BY <1>1, <2>1 DEF StartRefused, TypeOK, props, counted
  <2>3. PortOwned'
    BY <1>1 DEF StartRefused, PortOwned
  <2> QED BY <2>2, <2>3
<1>2. CASE StartAgain
  <2>1. queue' \in Seq(Message) /\ stopping' \in BOOLEAN
    BY <1>0, <1>2, StopSelfFacts DEF StartAgain
  <2>2. ctl' \in [Ctl -> Control] /\ PortOwned'
    BY <1>2, ControlClosed DEF StartAgain
  <2>3. TypeOK'
    BY <1>2, <2>1, <2>2 DEF StartAgain, TypeOK, props, counted
  <2> QED BY <2>2, <2>3
<1>3. CASE StartNoPort
  <2> DEFINE i == made + 1
  <2>1. i \in Ctl /\ i \in 0..MaxStart /\ control = 0 /\ made \in Nat
    BY <1>3, ScriptAssumption DEF StartNoPort, TypeOK, Ctl
  <2>2. queue' \in Seq(Message) /\ stopping' \in BOOLEAN
    BY <1>0, <1>3, StopSelfFacts DEF StartNoPort
  <2>3. ctl' = [ctl EXCEPT ![i] = Closed(NewControl)] /\ made' = i
    BY <1>3 DEF StartNoPort
  <2>4. ctl' \in [Ctl -> Control]
    BY <2>1, <2>3, ControlFacts DEF TypeOK
  <2>5. TypeOK'
    BY <1>3, <2>1, <2>2, <2>3, <2>4 DEF StartNoPort, TypeOK, props, counted
  <2>6. PortOwned'
    BY <1>3, <2>1, <2>3, ControlFacts DEF StartNoPort, PortOwned, TypeOK
  <2> QED BY <2>5, <2>6
<1>4. CASE StartSession
  <2> DEFINE i == made + 1
             a == Head(queue).action
  <2>1. i \in Ctl /\ i \in 0..MaxStart /\ control = 0 /\ made \in Nat
    <3>1. made < MaxStart /\ control = 0
      BY <1>4 DEF StartSession
    <3> QED BY <3>1, ScriptAssumption DEF TypeOK, Ctl
  <2>2. PICK hasPort \in {TRUE, ~Faults} :
          LET o == [NewControl EXCEPT !.port = hasPort] IN
          /\ reader' = [reader EXCEPT ![i] = IF hasPort THEN "loop" ELSE "out"]
          /\ \/ /\ a = "start"
                /\ SendCommand(i, o, "ready", "start", 1, rest)
                /\ UNCHANGED <<mIndex, stopping>>
             \/ /\ a = "i2c"
                /\ SendI2c(i, o, rest)
                /\ UNCHANGED stopping
             \/ /\ a = "check"
                /\ SendCommand(i, o, "check2", "check", 1, rest)
                /\ UNCHANGED <<mIndex, stopping>>
             \/ /\ a \notin Modes
                /\ ctl' = [ctl EXCEPT ![i] = o]
                /\ StopSelf(rest)
                /\ UNCHANGED mIndex
    BY <1>4, Zenon DEF StartSession
  <2> DEFINE o == [NewControl EXCEPT !.port = hasPort]
  <2>3. o \in Control
    <3>1. hasPort \in BOOLEAN
      BY ScriptAssumption
    <3>2. NewControl \in Fields /\ Paired(NewControl.mode, NewControl.cmd)
      BY ControlFacts DEF Control
    <3>3. o \in Fields /\ o.mode = NewControl.mode /\ o.cmd = NewControl.cmd
      BY <3>1, <3>2 DEF Fields
    <3> QED BY <3>2, <3>3 DEF Control
  <2>4. rest \in Seq(Message)
    BY <1>0, <1>4 DEF StartSession
  <2> HIDE DEF o
  <2>5. /\ ctl' \in [Ctl -> Control]
        /\ queue' \in Seq(Message)
        /\ mIndex' \in [Ctl -> 0..Len(I2cDelay)]
        /\ stopping' \in BOOLEAN
        /\ \A j \in Ctl : ctl'[j].port = IF j = i THEN o.port ELSE ctl[j].port
    <3>1. stopping \in BOOLEAN /\ mIndex \in [Ctl -> 0..Len(I2cDelay)] /\ ctl \in [Ctl -> Control]
      BY DEF TypeOK
    <3>2. /\ "ready" \in Cmds /\ "start" \in Modes /\ Paired("start", "ready")
          /\ "check2" \in Cmds /\ "check" \in Modes /\ Paired("check", "check2")
      BY DEF Cmds, Modes, Paired
    <3>3. CASE SendCommand(i, o, "ready", "start", 1, rest) /\ UNCHANGED <<mIndex, stopping>>
      BY <2>1, <2>3, <2>4, <3>1, <3>2, <3>3, SendCommandFacts
    <3>4. CASE SendI2c(i, o, rest) /\ UNCHANGED stopping
      BY <2>1, <2>3, <2>4, <3>1, <3>4, SendI2cFacts
    <3>5. CASE SendCommand(i, o, "check2", "check", 1, rest) /\ UNCHANGED <<mIndex, stopping>>
      BY <2>1, <2>3, <2>4, <3>1, <3>2, <3>5, SendCommandFacts
    <3>6. CASE ctl' = [ctl EXCEPT ![i] = o] /\ StopSelf(rest) /\ UNCHANGED mIndex
      BY <2>1, <2>3, <2>4, <3>1, <3>6, StopSelfFacts
    <3> QED BY <2>2, <3>3, <3>4, <3>5, <3>6 DEF o
  <2>6. /\ made' = i /\ control' = i /\ mTrigger' = i
        /\ UNCHANGED <<stops, props, crashed, lost, counted>>
    BY <1>4 DEF StartSession
  <2>7. reader' \in [Ctl -> {"out", "loop", "test", "call", "read"}]
    BY <2>1, <2>2 DEF TypeOK
  <2>8. TypeOK'
    BY <2>1, <2>5, <2>6, <2>7 DEF TypeOK, props, counted
  <2>9. PortOwned'
    BY <2>1, <2>5, <2>6 DEF PortOwned, Ctl
  <2> QED BY <2>8, <2>9
<1> QED BY <1>1, <1>2, <1>3, <1>4

\* The messages of the controls and their results keep the invariant.
LEMMA MessagesKeep ==
  ASSUME Inv, HandleAtResult \/ HandleSerialNull \/ HandleResult
  PROVE  Inv'
<1> USE DEF Inv
<1>0. ctl \in [Ctl -> Control]
  BY DEF TypeOK
<1>1. CASE HandleAtResult
  <2> DEFINE i == Head(queue).ctl
             c == [ctl[i] EXCEPT !.timeouts = 0]
  <2>1. i \in Ctl /\ rest \in Seq(Message)
    BY <1>1, Taken DEF HandleAtResult, Takes
  <2>2. \A b \in BOOLEAN : \A d \in BOOLEAN :
          /\ c \in Control /\ c.port = ctl[i].port
          /\ [c EXCEPT !.message = b, !.fresh = d, !.delayed = TRUE] \in Control
          /\ [c EXCEPT !.message = b, !.fresh = d, !.delayed = TRUE].port = ctl[i].port
    <3>1. ctl[i] \in Fields /\ Paired(ctl[i].mode, ctl[i].cmd)
      BY <1>0, <2>1 DEF Control
    <3>2. c \in Fields /\ c.port = ctl[i].port /\ c.mode = ctl[i].mode /\ c.cmd = ctl[i].cmd
      BY <3>1 DEF Fields
    <3> HIDE DEF c
    <3>3. ASSUME NEW b \in BOOLEAN, NEW d \in BOOLEAN
          PROVE  LET x == [c EXCEPT !.message = b, !.fresh = d, !.delayed = TRUE]
                 IN x \in Fields /\ x.port = c.port /\ x.mode = c.mode /\ x.cmd = c.cmd
      BY <3>2 DEF Fields
    <3> QED BY <3>1, <3>2, <3>3 DEF Control
  <2>3. c.message \in BOOLEAN /\ c.fresh \in BOOLEAN
    BY <2>2 DEF Control, Fields
  <2> HIDE DEF c
  <2>4. /\ ctl' \in [Ctl -> Control]
        /\ queue' \in Seq(Message)
        /\ crashed' \in BOOLEAN /\ lost' \subseteq Ctl
        /\ \A j \in Ctl : ctl'[j].port = ctl[j].port
    <3>1. CASE ~ctl[i].handler
      BY <1>0, <1>1, <2>1, <3>1 DEF HandleAtResult, TypeOK
    <3>2. CASE \E match \in BOOLEAN : SendNext(i, c, match, rest)
      <4>1. PICK match \in BOOLEAN : SendNext(i, c, match, rest)
        BY <3>2
      <4>2. c \in Control /\ c.port = ctl[i].port
        BY <2>2
      <4>3. /\ ctl' \in [Ctl -> Control] /\ queue' \in Seq(Message)
            /\ crashed' \in BOOLEAN /\ lost' \subseteq Ctl
            /\ \A j \in Ctl : ctl'[j].port = IF j = i THEN c.port ELSE ctl[j].port
        BY <2>1, <4>1, <4>2, SendNextFacts
      <4> QED BY <4>2, <4>3
    <3>3. CASE /\ \E match \in BOOLEAN :
                    ctl' = [ctl EXCEPT ![i] = [c EXCEPT !.message = @ \/ match,
                                                        !.fresh = @ \/ match,
                                                        !.delayed = TRUE]]
               /\ queue' = rest
               /\ UNCHANGED <<crashed, lost>>
      <4>1. PICK match \in BOOLEAN :
                    ctl' = [ctl EXCEPT ![i] = [c EXCEPT !.message = @ \/ match,
                                                        !.fresh = @ \/ match,
                                                        !.delayed = TRUE]]
        BY <3>3
      <4> DEFINE b == c.message \/ match
                 d == c.fresh \/ match
      <4>2. b \in BOOLEAN /\ d \in BOOLEAN
        BY <2>3
      <4>3. ctl' = [ctl EXCEPT ![i] = [c EXCEPT !.message = b, !.fresh = d, !.delayed = TRUE]]
        BY <4>1
      <4> HIDE DEF b, d
      <4>4. /\ ctl' \in [Ctl -> Control]
            /\ \A j \in Ctl : ctl'[j].port = ctl[j].port
        BY <1>0, <2>1, <2>2, <4>2, <4>3
      <4> QED BY <2>1, <3>3, <4>4 DEF TypeOK
    <3> QED BY <1>1, <3>1, <3>2, <3>3, Zenon DEF HandleAtResult, c
  <2>5. UNCHANGED <<reader, mIndex, service, props, counted>>
    BY <1>1 DEF HandleAtResult
  <2>6. TypeOK'
    BY <2>4, <2>5 DEF TypeOK, service, props, counted
  <2>7. PortOwned'
    BY <2>4, <2>5, PortsKept DEF service
  <2> QED BY <2>6, <2>7
<1>2. CASE HandleSerialNull
  <2> DEFINE i == Head(queue).ctl
             c == [ctl[i] EXCEPT !.timeouts = 0]
  <2>1. i \in Ctl /\ rest \in Seq(Message) /\ Append(rest, CloseHandle) \in Seq(Message)
    BY <1>2, Taken, Appended, Posted DEF HandleSerialNull, Takes
  <2>2. c \in Control /\ c.port = ctl[i].port
    <3>1. ctl[i] \in Fields /\ Paired(ctl[i].mode, ctl[i].cmd)
      BY <1>0, <2>1 DEF Control
    <3>2. c \in Fields /\ c.port = ctl[i].port /\ c.mode = ctl[i].mode /\ c.cmd = ctl[i].cmd
      BY <3>1 DEF Fields
    <3> QED BY <3>1, <3>2 DEF Control
  <2>3. ctl' = ctl \/ ctl' = [ctl EXCEPT ![i] = c]
    BY <1>2 DEF HandleSerialNull
  <2> HIDE DEF c
  <2>4. ctl' \in [Ctl -> Control] /\ \A j \in Ctl : ctl'[j].port = ctl[j].port
    BY <1>0, <2>1, <2>2, <2>3
  <2>5. queue' \in Seq(Message)
    BY <1>2, <2>1 DEF HandleSerialNull
  <2>6. UNCHANGED <<reader, mIndex, service, props, crashed, lost, counted>>
    BY <1>2 DEF HandleSerialNull
  <2>7. TypeOK'
    BY <2>4, <2>5, <2>6 DEF TypeOK, service, props, counted
  <2>8. PortOwned'
    BY <2>4, <2>6, PortsKept DEF service
  <2> QED BY <2>7, <2>8
<1>3. CASE HandleResult
  <2> DEFINE m == Head(queue)
  <2>1. /\ rest \in Seq(Message) /\ m.ok \in BOOLEAN /\ m.mode \in Modes
        /\ m.cmd \in Cmds /\ Paired(m.mode, m.cmd)
    BY <1>3, Taken DEF HandleResult, Takes
  <2>2. mTrigger # 0 => mTrigger \in Ctl /\ ctl[mTrigger] \in Control
    BY <1>0, ScriptAssumption DEF TypeOK, Ctl
  <2>3. /\ ctl' \in [Ctl -> Control]
        /\ queue' \in Seq(Message)
        /\ mIndex' \in [Ctl -> 0..Len(I2cDelay)]
        /\ qxdm' \in BOOLEAN /\ offline' \in BOOLEAN
        /\ \A j \in Ctl : ctl'[j].port = ctl[j].port
    <3>1. CASE mTrigger = 0
      BY <1>0, <1>3, <2>1, <3>1 DEF HandleResult, TypeOK, props
    <3>2. CASE mTrigger # 0 /\ m.mode = "i2c"
      <4>1. SendI2c(mTrigger, ctl[mTrigger], rest) /\ UNCHANGED props
        BY <1>3, <3>2 DEF HandleResult
      <4>2. qxdm' \in BOOLEAN /\ offline' \in BOOLEAN
        BY <4>1 DEF TypeOK, props
      <4> QED BY <2>1, <2>2, <3>2, <4>1, <4>2, SendI2cFacts
    <3>3. CASE mTrigger # 0 /\ m.mode # "i2c"
      <4>1. OnHandleCmdCallBack(mTrigger, m.ok, m.mode, m.cmd, rest) /\ UNCHANGED mIndex
        BY <1>3, <3>3 DEF HandleResult
      <4>2. mIndex' \in [Ctl -> 0..Len(I2cDelay)]
        BY <4>1 DEF TypeOK
      <4> QED BY <2>1, <2>2, <3>3, <4>1, <4>2, CallBackFacts
    <3> QED BY <3>1, <3>2, <3>3
  <2>4. UNCHANGED <<reader, service, crashed, lost, counted>>
    BY <1>3 DEF HandleResult
  <2>5. TypeOK'
    BY <2>3, <2>4 DEF TypeOK, service, counted
  <2>6. PortOwned'
    BY <2>3, <2>4, PortsKept DEF service
  <2> QED BY <2>5, <2>6
<1> QED BY <1>1, <1>2, <1>3

\* The delayed runnables keep the invariant.
LEMMA RunnablesKeep ==
  ASSUME Inv, NEW i \in Ctl, FireTimeOut(i) \/ DelayedCheck(i)
  PROVE  Inv'
<1> USE DEF Inv
<1>0. ctl \in [Ctl -> Control] /\ queue \in Seq(Message)
  BY DEF TypeOK
<1>1. ctl[i] \in Fields /\ Paired(ctl[i].mode, ctl[i].cmd)
  BY <1>0 DEF Control
<1>2. CASE FireTimeOut(i)
  <2> DEFINE t == ctl[i].timeouts - 1
             c == [ctl[i] EXCEPT !.timeouts = t]
  <2>1. t \in Nat
    BY <1>1, <1>2 DEF FireTimeOut, Fields
  <2>2. ctl' = [ctl EXCEPT ![i] = c]
    BY <1>2 DEF FireTimeOut
  <2> HIDE DEF t
  <2>3. c \in Fields /\ c.port = ctl[i].port /\ c.mode = ctl[i].mode /\ c.cmd = ctl[i].cmd
    BY <1>1, <2>1 DEF Fields
  <2>4. c \in Control /\ c.port = ctl[i].port
    BY <1>1, <2>3 DEF Control
  <2> HIDE DEF c
  <2>5. ctl' \in [Ctl -> Control] /\ \A j \in Ctl : ctl'[j].port = ctl[j].port
    BY <1>0, <2>2, <2>4
  <2>6. Append(queue, TimeOut) \in Seq(Message)
    BY <1>0, Appended, Posted
  <2>7. queue' \in Seq(Message)
    BY <1>0, <1>2, <2>6 DEF FireTimeOut
  <2>8. crashed' \in BOOLEAN
    BY <1>2, Zenon DEF FireTimeOut
  <2>9. UNCHANGED <<reader, mIndex, service, props, lost, counted>>
    BY <1>2 DEF FireTimeOut
  <2>10. TypeOK'
    BY <2>5, <2>7, <2>8, <2>9 DEF TypeOK, service, props, counted
  <2>11. PortOwned'
    BY <2>5, <2>9, PortsKept DEF service
  <2> QED BY <2>10, <2>11
<1>3. CASE DelayedCheck(i)
  <2> DEFINE c == [ctl[i] EXCEPT !.delayed = FALSE]
  <2>1. SendNext(i, c, ctl[i].message, queue)
    BY <1>3 DEF DelayedCheck
  <2>2. c \in Fields /\ c.port = ctl[i].port /\ c.mode = ctl[i].mode /\ c.cmd = ctl[i].cmd
    BY <1>1 DEF Fields
  <2>3. c \in Control /\ c.port = ctl[i].port
    BY <1>1, <2>2 DEF Control
  <2>4. ctl[i].message \in BOOLEAN
    BY <1>1 DEF Fields
  <2> HIDE DEF c
  <2>5. /\ ctl' \in [Ctl -> Control] /\ queue' \in Seq(Message)
        /\ crashed' \in BOOLEAN /\ lost' \subseteq Ctl
        /\ \A j \in Ctl : ctl'[j].port = IF j = i THEN c.port ELSE ctl[j].port
    BY <1>0, <2>1, <2>3, <2>4, SendNextFacts
  <2>6. UNCHANGED <<reader, mIndex, service, props, counted>>
    BY <1>3 DEF DelayedCheck
  <2>7. TypeOK'
    BY <2>5, <2>6 DEF TypeOK, service, props, counted
  <2>8. \A j \in Ctl : ctl'[j].port = ctl[j].port
    BY <2>3, <2>5
  <2>9. PortOwned'
    BY <2>6, <2>8, PortsKept DEF service
  <2> QED BY <2>7, <2>9
<1> QED BY <1>2, <1>3

\* The reader thread keeps the invariant.
LEMMA ReaderKeeps ==
  ASSUME Inv, NEW i \in Ctl, ReaderStep(i)
  PROVE  Inv'
<1> USE DEF Inv
<1>0. ctl \in [Ctl -> Control] /\ queue \in Seq(Message) /\ crashed \in BOOLEAN
  BY DEF TypeOK
<1>1. /\ Append(queue, AtResult(i)) \in Seq(Message)
      /\ Append(queue, SerialNull(i)) \in Seq(Message)
  BY <1>0, Appended, Posted
<1>2. \E from, to \in {"out", "loop", "test", "call", "read"} : Reads(i, from, to)
  BY DEF ReaderStep, TestClose, TestPort, CallRead, ReadText, ReadFails
<1>3. /\ reader' \in [Ctl -> {"out", "loop", "test", "call", "read"}]
      /\ UNCHANGED <<ctl, mIndex, service, props, lost, starts>>
  BY <1>2 DEF Reads, TypeOK
<1>4. queue' \in Seq(Message) /\ texts' \in Nat
  <2>1. texts \in Nat
    BY DEF TypeOK
  <2>2. CASE TestClose(i) \/ CallRead(i) \/ ReadFails(i)
    BY <1>0, <2>1, <2>2 DEF TestClose, CallRead, ReadFails
  <2>3. CASE TestPort(i)
    BY <1>0, <1>1, <2>1, <2>3 DEF TestPort
  <2>4. CASE ReadText(i)
    BY <1>0, <1>1, <2>1, <2>4 DEF ReadText
  <2> QED BY <2>2, <2>3, <2>4 DEF ReaderStep
<1>5. crashed' \in BOOLEAN
  BY <1>0, Zenon DEF ReaderStep, TestClose, TestPort, CallRead, ReadText, ReadFails
<1>6. TypeOK'
  BY <1>3, <1>4, <1>5 DEF TypeOK, service, props
<1>7. PortOwned'
  BY <1>3 DEF PortOwned, service
<1> QED BY <1>6, <1>7

\* The ends of a session keep the invariant.
LEMMA EndsKeep ==
  ASSUME Inv, HandleClose \/ HandleTimeOut \/ OnDestroy \/ DelayedStop
  PROVE  Inv'
<1> USE DEF Inv
<1>1. ASSUME NEW what, CloseService(what)
      PROVE  Inv'
  <2>1. rest \in Seq(Message)
    BY <1>1, Taken DEF CloseService, Takes
  <2>2. ctl' \in [Ctl -> Control] /\ PortOwned'
    BY <1>1, ControlClosed DEF CloseService
  <2>3. TypeOK'
    BY <1>1, <2>1, <2>2 DEF CloseService, TypeOK, props, counted
  <2> QED BY <2>2, <2>3
<1>2. CASE OnDestroy
  <2>1. rest \in Seq(Message)
    BY <1>2, Taken DEF OnDestroy, Takes
  <2>2. ctl' \in [Ctl -> Control] /\ PortOwned'
    BY <1>2, ControlClosed DEF OnDestroy
  <2>3. TypeOK'
    BY <1>2, <2>1, <2>2 DEF OnDestroy, TypeOK, props, counted
  <2> QED BY <2>2, <2>3
<1>3. CASE DelayedStop
  <2>1. queue' \in Seq(Message) /\ stopping' \in BOOLEAN
    BY <1>3, StopSelfFacts DEF DelayedStop, TypeOK
  <2>2. TypeOK'
    BY <1>3, <2>1 DEF DelayedStop, TypeOK, props, counted
  <2>3. PortOwned'
    BY <1>3 DEF DelayedStop, PortOwned
  <2> QED BY <2>2, <2>3
<1> QED BY <1>1, <1>2, <1>3 DEF HandleClose, HandleTimeOut

\* Every step keeps the invariant.
LEMMA StepInv == Inv /\ [Next]_vars => Inv'
<1> SUFFICES ASSUME Inv, [Next]_vars PROVE Inv'
  OBVIOUS
<1>1. CASE Looper
  BY <1>1, StartsKeep, MessagesKeep, EndsKeep DEF Looper
<1>2. CASE DelayedStop
  BY <1>2, EndsKeep
<1>3. ASSUME NEW i \in Ctl, FireTimeOut(i) \/ DelayedCheck(i) \/ ReaderStep(i)
      PROVE  Inv'
  BY <1>3, RunnablesKeep, ReaderKeeps
<1>4. ASSUME NEW a \in Actions, StartService(a)
      PROVE  Inv'
  <2>1. Append(queue, Start(a)) \in Seq(Message)
    BY Appended, Posted DEF Inv, TypeOK
  <2>2. TypeOK'
    BY <1>4, <2>1 DEF Inv, StartService, TypeOK, service, props
  <2>3. PortOwned'
    BY <1>4 DEF Inv, StartService, PortOwned, service
  <2> QED BY <2>2, <2>3 DEF Inv
<1>5. CASE UNCHANGED vars
  <2>1. TypeOK'
    BY <1>5 DEF Inv, TypeOK, vars
  <2>2. PortOwned'
    BY <1>5 DEF Inv, PortOwned, vars
  <2> QED BY <2>1, <2>2 DEF Inv
<1> QED BY <1>1, <1>2, <1>3, <1>4, <1>5 DEF Next

(***************************************************************************)
(* Theorems.                                                               *)
(***************************************************************************)
\* Type correctness of the session (ModemLogService, ModemLogTrigger and
\* SerialPortControl): no command is counted as sent more than MaxTime times,
\* no list index passes the end of I2S_CMD, and every result carries a command
\* that the script of its mode knows.
THEOREM SessionTypeCorrect == Spec => []TypeOK
<1>1. Init => Inv
  BY InitInv
<1>2. Inv /\ [Next]_vars => Inv'
  BY StepInv
<1>3. Inv => TypeOK
  BY DEF Inv
<1> QED BY <1>1, <1>2, <1>3, PTL DEF Spec

\* Only the service's present control has an open port, for every number of
\* starts, every script and every fault: close() of ModemLogService and
\* onDestroy leave none behind.
THEOREM SessionPortOwned == Spec => []PortOwned
<1>1. Init => Inv
  BY InitInv
<1>2. Inv /\ [Next]_vars => Inv'
  BY StepInv
<1>3. Inv => PortOwned
  BY DEF Inv
<1> QED BY <1>1, <1>2, <1>3, PTL DEF Spec

(***************************************************************************)
(* A session is never left alone.                                          *)
(***************************************************************************)
Msgs(q) == {q[k] : k \in 1..Len(q)}

\* A START is followed by the DESTROY of the service that is stopping.
StartsBefore(q) ==
  \A k \in 1..Len(q) : q[k].what = "START" =>
    \E l \in 1..Len(q) : l > k /\ q[l].what = "DESTROY"

\* The messages that move a session.
Moving(m) == m.what \in {"RESULT", "CLOSE", "TIMEOUT", "DESTROY"}

\* No text of control i is waiting.
NoText(q, i) == \A m \in Msgs(q) : m.what = "AT" => m.ctl # i

\* The present control has its handler and is the trigger's; without a port it has
\* no reader thread, so nothing withdraws its time-out or checks its answer.  A control
\* not made yet has none either.
SessionInv ==
  /\ control # 0 => ctl[control].handler /\ mTrigger = control
  /\ control # 0 /\ ~ctl[control].port =>
       reader[control] = "out" /\ ~ctl[control].delayed /\ NoText(queue, control)
  /\ \A j \in Ctl : j > made => reader[j] = "out" /\ NoText(queue, j)
  /\ stopping => StartsBefore(queue)

WatchInv == Inv /\ SessionInv /\ Watched

\* A message in the queue moves the session.
HasMover(q) == \E m \in Msgs(q) : Moving(m)

\* The queue q became q2: messages that move a session were appended, or none.
Grown(q, q2) ==
  /\ Msgs(q) \subseteq Msgs(q2)
  /\ \A m \in Msgs(q2) : m \in Msgs(q) \/ Moving(m)
  /\ StartsBefore(q) => StartsBefore(q2)

\* A queue holds a message that moves a session, as Pending says it.
LEMMA MovingMessage ==
  ASSUME NEW q
  PROVE  (\E k \in 1..Len(q) : q[k].what \in {"RESULT", "CLOSE", "TIMEOUT", "DESTROY"})
           <=> HasMover(q)
BY DEF HasMover, Msgs, Moving

\* What a post adds to the queue.
LEMMA AppendMsgs ==
  ASSUME NEW q \in Seq(Message), NEW x \in Message
  PROVE  /\ Msgs(Append(q, x)) = Msgs(q) \cup {x}
         /\ StartsBefore(q) /\ x.what # "START" => StartsBefore(Append(q, x))
         /\ x.what = "DESTROY" => StartsBefore(Append(q, x))
<1> DEFINE r == Append(q, x)
<1>1. /\ Len(q) \in Nat /\ Len(r) = Len(q) + 1
      /\ \A k \in 1..Len(q) : r[k] = q[k]
      /\ r[Len(q) + 1] = x
  OBVIOUS
<1> HIDE DEF r
<1>2. Msgs(r) = Msgs(q) \cup {x}
  <2>1. \A k \in 1..Len(r) : k \in 1..Len(q) \/ k = Len(q) + 1
    BY <1>1
  <2>2. \A k \in 1..Len(q) : k \in 1..Len(r)
    BY <1>1
  <2>3. Len(q) + 1 \in 1..Len(r)
    BY <1>1
  <2> QED BY <1>1, <2>1, <2>2, <2>3 DEF Msgs
<1>3. ASSUME StartsBefore(q), x.what # "START"
      PROVE  StartsBefore(r)
  <2> SUFFICES ASSUME NEW k \in 1..Len(r), r[k].what = "START"
               PROVE  \E l \in 1..Len(r) : l > k /\ r[l].what = "DESTROY"
    BY DEF StartsBefore
  <2>1. k \in 1..Len(q) /\ q[k].what = "START"
    BY <1>1, <1>3
  <2>2. PICK l \in 1..Len(q) : l > k /\ q[l].what = "DESTROY"
    BY <1>3, <2>1 DEF StartsBefore
  <2> QED BY <1>1, <2>2
<1>4. ASSUME x.what = "DESTROY"
      PROVE  StartsBefore(r)
  <2> SUFFICES ASSUME NEW k \in 1..Len(r), r[k].what = "START"
               PROVE  \E l \in 1..Len(r) : l > k /\ r[l].what = "DESTROY"
    BY DEF StartsBefore
  <2>1. k # Len(q) + 1
    BY <1>1, <1>4
  <2> QED BY <1>1, <1>4, <2>1
<1> QED BY <1>2, <1>3, <1>4 DEF r

\* What taking the head leaves in the queue.
LEMMA TailMsgs ==
  ASSUME NEW q \in Seq(Message), q # << >>
  PROVE  /\ Msgs(q) = {Head(q)} \cup Msgs(Tail(q))
         /\ StartsBefore(q) => StartsBefore(Tail(q))
         /\ StartsBefore(q) /\ Head(q).what = "START" => HasMover(Tail(q))
<1> DEFINE r == Tail(q)
<1>1. /\ Len(q) \in Nat \ {0} /\ Len(r) = Len(q) - 1
      /\ \A k \in 1..Len(r) : r[k] = q[k + 1]
      /\ Head(q) = q[1]
  OBVIOUS
<1> HIDE DEF r
<1>2. Msgs(q) = {Head(q)} \cup Msgs(r)
  <2>1. \A k \in 1..Len(q) : k = 1 \/ (k - 1 \in 1..Len(r) /\ q[k] = r[k - 1])
    BY <1>1
  <2>2. \A k \in 1..Len(r) : k + 1 \in 1..Len(q)
    BY <1>1
  <2>3. 1 \in 1..Len(q)
    BY <1>1
  <2>4. Msgs(q) \subseteq {Head(q)} \cup Msgs(r)
    BY <1>1, <2>1 DEF Msgs
  <2>5. Msgs(r) \subseteq Msgs(q)
    BY <1>1, <2>2 DEF Msgs
  <2>6. Head(q) \in Msgs(q)
    BY <1>1, <2>3 DEF Msgs
  <2> QED BY <2>4, <2>5, <2>6
<1>3. ASSUME StartsBefore(q)
      PROVE  StartsBefore(r)
  <2> SUFFICES ASSUME NEW k \in 1..Len(r), r[k].what = "START"
               PROVE  \E l \in 1..Len(r) : l > k /\ r[l].what = "DESTROY"
    BY DEF StartsBefore
  <2>1. k + 1 \in 1..Len(q) /\ q[k + 1].what = "START"
    BY <1>1
  <2>2. PICK l \in 1..Len(q) : l > k + 1 /\ q[l].what = "DESTROY"
    BY <1>3, <2>1 DEF StartsBefore
  <2>3. l - 1 \in 1..Len(r) /\ l - 1 > k /\ r[l - 1] = q[l]
    BY <1>1, <2>2
  <2> QED BY <2>2, <2>3
<1>4. ASSUME StartsBefore(q), Head(q).what = "START"
      PROVE  HasMover(r)
  <2>1. PICK l \in 1..Len(q) : l > 1 /\ q[l].what = "DESTROY"
    BY <1>1, <1>4 DEF StartsBefore
  <2>2. l - 1 \in 1..Len(r) /\ r[l - 1] = q[l]
    BY <1>1, <2>1
  <2> QED BY <2>1, <2>2 DEF HasMover, Msgs, Moving
<1> QED BY <1>2, <1>3, <1>4 DEF r

\* Posting a message that moves a session, once or twice.
LEMMA GrownFacts ==
  ASSUME NEW q \in Seq(Message), NEW x \in Message, Moving(x)
  PROVE  /\ Grown(q, q)
         /\ Grown(q, Append(q, x)) /\ HasMover(Append(q, x))
         /\ Grown(q, q \o <<x, x>>) /\ HasMover(q \o <<x, x>>)
<1>1. x.what # "START"
  BY DEF Moving
<1>2. Grown(q, q)
  BY DEF Grown
<1>3. \A p \in Seq(Message) : Grown(p, Append(p, x)) /\ HasMover(Append(p, x))
  BY <1>1, AppendMsgs DEF Grown, HasMover
<1>4. Append(q, x) \in Seq(Message) /\ q \o <<x, x>> = Append(Append(q, x), x)
  OBVIOUS
<1>5. \A p, r, s : Grown(p, r) /\ Grown(r, s) => Grown(p, s)
  BY DEF Grown
<1> QED BY <1>2, <1>3, <1>4, <1>5

\* The messages by kind.
LEMMA MovingKinds ==
  /\ Moving(CloseHandle) /\ Moving(TimeOut) /\ Moving(Destroy)
  /\ \A ok, m, c : Moving(Result(ok, m, c))
  /\ Destroy.what = "DESTROY"
  /\ \A i : AtResult(i).what = "AT" /\ AtResult(i).ctl = i /\ SerialNull(i).what = "NULL"
  /\ \A a : Start(a).what = "START"
BY DEF Moving, CloseHandle, TimeOut, Destroy, Result, AtResult, SerialNull, Start

\* Control i, whose fields were o, was given a command, or the end was announced.
Moved(i, o, q) ==
  /\ Grown(q, queue')
  /\ ctl'[i].timeouts > 0 \/ HasMover(queue')
  /\ o.handler => ctl'[i].handler
  /\ ctl'[i].port = o.port /\ ctl'[i].delayed = o.delayed
  /\ \A j \in Ctl : j # i => ctl'[j] = ctl[j]

\* sendCommand leaves a time-out behind, or a message that closes the session.
LEMMA SendCommandMoves ==
  ASSUME TypeOK, NEW i \in Ctl, NEW o \in Control, NEW c, NEW m,
         NEW n, NEW q \in Seq(Message), SendCommand(i, o, c, m, n, q)
  PROVE  Moved(i, o, q)
<1> DEFINE r == ~Once(c, n)
           k == ~Later(c, n)
           sent == [o EXCEPT !.repeat = r, !.check = k, !.cmd = c,
                        !.mode = m, !.times = 1, !.handler = TRUE, !.fresh = FALSE]
<1> HIDE DEF r, k
<1>1. o \in Fields /\ ctl \in [Ctl -> Control]
  BY DEF Control, TypeOK
<1>2. /\ sent.handler = TRUE /\ sent.port = o.port /\ sent.delayed = o.delayed
      /\ sent.timeouts = o.timeouts
  BY <1>1 DEF Fields
<1>3. /\ [sent EXCEPT !.timeouts = @ + 1].handler = TRUE
      /\ [sent EXCEPT !.timeouts = @ + 1].port = o.port
      /\ [sent EXCEPT !.timeouts = @ + 1].delayed = o.delayed
      /\ [sent EXCEPT !.timeouts = @ + 1].timeouts = o.timeouts + 1
      /\ [sent EXCEPT !.times = 0].handler = TRUE
      /\ [sent EXCEPT !.times = 0].port = o.port
      /\ [sent EXCEPT !.times = 0].delayed = o.delayed
  BY <1>1 DEF Fields
<1>4. o.timeouts + 1 > 0
  BY <1>1 DEF Fields
<1>5. CloseHandle \in Message /\ Moving(CloseHandle)
  BY Posted, MovingKinds
<1>6. /\ Grown(q, q)
      /\ Grown(q, Append(q, CloseHandle)) /\ HasMover(Append(q, CloseHandle))
      /\ Grown(q, q \o <<CloseHandle, CloseHandle>>)
      /\ HasMover(q \o <<CloseHandle, CloseHandle>>)
  BY <1>5, GrownFacts
<1> HIDE DEF sent
<1>7. \/ /\ ctl' = [ctl EXCEPT ![i] = [sent EXCEPT !.timeouts = @ + 1]]
         /\ queue' = q
      \/ /\ ctl' = [ctl EXCEPT ![i] = o]
         /\ queue' \in {q \o <<CloseHandle, CloseHandle>>, Append(q, CloseHandle)}
      \/ /\ ctl' = [ctl EXCEPT ![i] = [sent EXCEPT !.times = 0]]
         /\ queue' = Append(q, CloseHandle)
  BY DEF SendCommand, sent, r, k
<1>8. CASE ctl' = [ctl EXCEPT ![i] = [sent EXCEPT !.timeouts = @ + 1]] /\ queue' = q
  BY <1>1, <1>3, <1>4, <1>6, <1>8 DEF Moved
<1>9. CASE /\ ctl' = [ctl EXCEPT ![i] = o]
           /\ queue' \in {q \o <<CloseHandle, CloseHandle>>, Append(q, CloseHandle)}
  BY <1>1, <1>6, <1>9 DEF Moved
<1>10. CASE /\ ctl' = [ctl EXCEPT ![i] = [sent EXCEPT !.times = 0]]
            /\ queue' = Append(q, CloseHandle)
  BY <1>1, <1>3, <1>6, <1>10 DEF Moved
<1> QED BY <1>7, <1>8, <1>9, <1>10

\* So does sendI2cCmd.
LEMMA SendI2cMoves ==
  ASSUME TypeOK, NEW i \in Ctl, NEW o \in Control, NEW q \in Seq(Message),
         SendI2c(i, o, q)
  PROVE  Moved(i, o, q)
<1>1. CASE mIndex[i] = Len(I2cDelay)
  <2>1. Grown(q, Append(q, CloseHandle)) /\ HasMover(Append(q, CloseHandle))
    BY Posted, MovingKinds, GrownFacts
  <2> QED BY <1>1, <2>1 DEF SendI2c, Moved, TypeOK
<1>2. CASE mIndex[i] # Len(I2cDelay)
  BY <1>2, SendCommandMoves DEF SendI2c
<1> QED BY <1>1, <1>2

\* And onHandleCmdCallBack.
LEMMA CallBackMoves ==
  ASSUME TypeOK, NEW i \in Ctl, NEW ok, NEW m, NEW c, NEW q \in Seq(Message),
         OnHandleCmdCallBack(i, ok, m, c, q)
  PROVE  Moved(i, ctl[i], q)
<1>1. ctl[i] \in Control
  BY DEF TypeOK
<1>2. Grown(q, Append(q, CloseHandle)) /\ HasMover(Append(q, CloseHandle))
  BY Posted, MovingKinds, GrownFacts
<1>3. \/ \E x, y : SendCommand(i, ctl[i], x, y, 1, q)
      \/ queue' = Append(q, CloseHandle) /\ UNCHANGED ctl
  BY Zenon DEF OnHandleCmdCallBack
<1>4. CASE \E x, y : SendCommand(i, ctl[i], x, y, 1, q)
  BY <1>1, <1>4, SendCommandMoves
<1>5. CASE queue' = Append(q, CloseHandle) /\ UNCHANGED ctl
  BY <1>2, <1>5 DEF Moved
<1> QED BY <1>3, <1>4, <1>5

\* sendNext on an open port with a handler leaves a time-out or a result
\* behind, or is noted as lost.
LEMMA SendNextMoves ==
  ASSUME TypeOK, NEW i \in Ctl, NEW c \in Control, NEW match, NEW q \in Seq(Message),
         SendNext(i, c, match, q)
  PROVE  /\ Grown(q, queue')
         /\ lost \subseteq lost'
         /\ c.handler /\ c.port => ctl'[i].timeouts > 0 \/ HasMover(queue') \/ i \in lost'
         /\ ctl'[i].handler = c.handler /\ ctl'[i].port = c.port
         /\ ctl'[i].delayed = c.delayed
         /\ \A j \in Ctl : j # i => ctl'[j] = ctl[j]
<1>1. c \in Fields /\ ctl \in [Ctl -> Control]
  BY DEF Control, TypeOK
<1>2. \A ok \in BOOLEAN :
        LET r == Append(q, Result(ok, c.mode, c.cmd)) IN Grown(q, r) /\ HasMover(r)
  <2>1. \A ok \in BOOLEAN : Result(ok, c.mode, c.cmd) \in Message
    BY Posted DEF Control, Fields
  <2> QED BY <2>1, MovingKinds, GrownFacts
<1>3. Grown(q, q)
  BY DEF Grown
<1>4. CASE match
  BY <1>1, <1>2, <1>3, <1>4 DEF SendNext
<1>5. CASE ~match /\ Exhausted(c)
  BY <1>1, <1>2, <1>3, <1>5 DEF SendNext
<1>6. CASE ~match /\ ~Exhausted(c)
  <2> DEFINE d == [c EXCEPT !.times = @ + 1, !.timeouts = @ + 1]
             e == [c EXCEPT !.times = @ + 1]
  <2>1. /\ d.handler = c.handler /\ d.port = c.port /\ d.delayed = c.delayed
        /\ d.timeouts = c.timeouts + 1 /\ c.timeouts \in Nat
        /\ e.handler = c.handler /\ e.port = c.port /\ e.delayed = c.delayed
    BY <1>1 DEF Fields
  <2>2. /\ queue' = q
        /\ \/ /\ ctl' = [ctl EXCEPT ![i] = d]
              /\ UNCHANGED lost
           \/ /\ ctl' = [ctl EXCEPT ![i] = e]
              /\ lost' = IF c.port THEN lost \cup {i} ELSE lost
    BY <1>6 DEF SendNext
  <2> HIDE DEF d, e
  <2> QED BY <1>1, <1>3, <2>1, <2>2
<1> QED BY <1>4, <1>5, <1>6

\* stopSelf leaves the message that destroys the service in the queue.
LEMMA StopSelfMoves ==
  ASSUME NEW q \in Seq(Message), stopping => StartsBefore(q), StopSelf(q)
  PROVE  /\ Msgs(q) \subseteq Msgs(queue')
         /\ \A m \in Msgs(queue') : m \in Msgs(q) \/ Moving(m)
         /\ StartsBefore(queue')
         /\ ~stopping => HasMover(queue')
<1>1. Destroy \in Message /\ Moving(Destroy) /\ Destroy.what = "DESTROY"
  BY Posted, MovingKinds
<1>2. CASE stopping
  BY <1>2 DEF StopSelf
<1>3. CASE ~stopping
  BY <1>1, <1>3, AppendMsgs DEF StopSelf, HasMover
<1> QED BY <1>2, <1>3

\* Growing queues hold no new texts.
LEMMA GrownText ==
  ASSUME NEW q, NEW q2, \A m \in Msgs(q2) : m \in Msgs(q) \/ Moving(m), NEW j, NoText(q, j)
  PROVE  NoText(q2, j)
BY DEF NoText, Moving

\* The queue without its head.
LEMMA RestMsgs ==
  ASSUME WatchInv, queue # << >>
  PROVE  /\ rest \in Seq(Message) /\ Head(queue) \in Msgs(queue)
         /\ \A j : NoText(queue, j) => NoText(rest, j)
         /\ stopping => StartsBefore(rest)
         /\ HasMover(queue) /\ ~Moving(Head(queue)) => HasMover(rest)
         /\ stopping /\ Head(queue).what = "START" => HasMover(rest)
<1>1. queue \in Seq(Message)
  BY DEF WatchInv, Inv, TypeOK
<1>2. rest \in Seq(Message)
  BY <1>1 DEF rest
<1> QED BY <1>1, <1>2, TailMsgs DEF WatchInv, SessionInv, NoText, HasMover, rest

\* Watched, with the queue as a set of messages.
LEMMA WatchedFacts ==
  ASSUME WatchInv, control # 0
  PROVE  /\ control \in Ctl /\ control \in 1..made /\ ctl[control].handler
         /\ mTrigger = control
         /\ control \notin lost =>
              ctl[control].timeouts > 0 \/ ctl[control].delayed \/ HasMover(queue)
<1>1. control \in 0..made /\ made \in 0..MaxStart
  BY DEF WatchInv, Inv, TypeOK
<1>2. control \in Ctl /\ control \in 1..made
  BY <1>1, ScriptAssumption DEF Ctl
<1> QED BY <1>2, MovingMessage DEF WatchInv, SessionInv, Watched, Pending

\* The same, for the next state.
LEMMA WatchedNext ==
  ASSUME control' # 0 /\ control' \notin lost' =>
           ctl'[control'].timeouts > 0 \/ ctl'[control'].delayed \/ HasMover(queue')
  PROVE  Watched'
BY MovingMessage DEF Watched, Pending

\* A step after which the service has no control needs only the queue.
LEMMA NoControl ==
  ASSUME SessionInv, control' = 0, made' \in Nat, made \in Nat, made' >= made,
         \A j \in Ctl : j > made' => reader'[j] = reader[j],
         \A j : NoText(queue, j) => NoText(queue', j),
         stopping' => StartsBefore(queue')
  PROVE  SessionInv' /\ Watched'
<1>1. \A j \in Ctl : j > made' => j > made
  BY DEF Ctl
<1>2. SessionInv'
  BY <1>1 DEF SessionInv
<1>3. Watched'
  BY WatchedNext
<1> QED BY <1>2, <1>3

\* A step that keeps the service's control, its port and its handler.
LEMMA SameControl ==
  ASSUME WatchInv, control' = control, mTrigger' = mTrigger, made' = made,
         reader' = reader, lost \subseteq lost',
         \A j : NoText(queue, j) => NoText(queue', j),
         stopping' => StartsBefore(queue'),
         control # 0 =>
           /\ ctl'[control].handler /\ ctl'[control].port = ctl[control].port
           /\ ~ctl[control].port => ctl'[control].delayed = ctl[control].delayed
           /\ control \notin lost' =>
                ctl'[control].timeouts > 0 \/ ctl'[control].delayed \/ HasMover(queue')
  PROVE  SessionInv' /\ Watched'
<1>1. SessionInv
  BY DEF WatchInv
<1>2. (control # 0 => ctl[control].handler /\ mTrigger = control)'
  BY <1>1 DEF SessionInv
<1>3. (control # 0 /\ ~ctl[control].port =>
         reader[control] = "out" /\ ~ctl[control].delayed /\ NoText(queue, control))'
  BY <1>1 DEF SessionInv
<1>4. (\A j \in Ctl : j > made => reader[j] = "out" /\ NoText(queue, j))'
  BY <1>1 DEF SessionInv
<1>5. SessionInv'
  BY <1>2, <1>3, <1>4 DEF SessionInv
<1>6. Watched'
  BY WatchedNext
<1> QED BY <1>5, <1>6

\* A start that is refused, that closes the running session or that finds no
\* port keeps the session watched.
LEMMA StartEndsWatched ==
  ASSUME WatchInv, StartRefused \/ StartAgain \/ StartNoPort
  PROVE  SessionInv' /\ Watched'
<1>0. /\ Head(queue).what = "START" /\ queue # << >>
  BY DEF StartRefused, StartAgain, StartNoPort, Takes
<1>1. ~Moving(Head(queue))
  BY <1>0 DEF Moving
<1>2. made \in Nat /\ SessionInv
  BY DEF WatchInv, Inv, TypeOK
<1>3. PICK q \in {rest, Append(rest, CloseHandle)} : StopSelf(q)
  BY DEF StartRefused, StartAgain, StartNoPort
<1>4. q \in Seq(Message) /\ Grown(rest, q)
  BY <1>0, <1>3, RestMsgs, Appended, Posted, MovingKinds, GrownFacts
<1>5. stopping => StartsBefore(q)
  BY <1>0, <1>4, RestMsgs DEF Grown
<1>6. /\ Msgs(q) \subseteq Msgs(queue') /\ StartsBefore(queue')
      /\ \A m \in Msgs(queue') : m \in Msgs(q) \/ Moving(m)
  BY <1>3, <1>4, <1>5, StopSelfMoves
<1>7. \A j : NoText(queue, j) => NoText(queue', j)
  <2> SUFFICES ASSUME NEW j, NoText(queue, j) PROVE NoText(queue', j)
    OBVIOUS
  <2>1. NoText(rest, j)
    BY <1>0, RestMsgs
  <2>2. NoText(q, j)
    BY <1>4, <2>1, GrownText DEF Grown
  <2> QED BY <1>6, <2>2, GrownText
<1>8. HasMover(queue) => HasMover(queue')
  BY <1>0, <1>1, <1>4, <1>6, RestMsgs DEF HasMover, Grown
<1>9. CASE StartRefused
  <2>1. UNCHANGED <<ctl, reader, made, control, mTrigger, lost>>
    BY <1>9 DEF StartRefused
  <2> QED BY <1>6, <1>7, <1>8, <2>1, WatchedFacts, SameControl
<1>10. CASE StartAgain
  <2>1. control' = 0 /\ UNCHANGED <<reader, made>>
    BY <1>10 DEF StartAgain
  <2> QED BY <1>2, <1>6, <1>7, <2>1, NoControl
<1>11. CASE StartNoPort
  <2>1. control' = 0 /\ made' = made + 1 /\ UNCHANGED reader
    BY <1>11 DEF StartNoPort
  <2> QED BY <1>2, <1>6, <1>7, <2>1, NoControl
<1> QED BY <1>9, <1>10, <1>11

\* A new session is watched from its first command on.
LEMMA StartSessionWatched ==
  ASSUME WatchInv, StartSession
  PROVE  SessionInv' /\ Watched'
<1> DEFINE i == made + 1
           a == Head(queue).action
<1>0. Head(queue).what = "START" /\ queue # << >>
  BY DEF StartSession, Takes
<1>1. i \in Ctl /\ made \in Nat /\ SessionInv /\ TypeOK
  <2>1. SessionInv /\ TypeOK
    BY DEF WatchInv, Inv
  <2>2. made < MaxStart
    BY DEF StartSession
  <2> QED BY <2>1, <2>2, ScriptAssumption DEF TypeOK, Ctl
<1>2. rest \in Seq(Message) /\ (stopping => StartsBefore(rest))
  BY <1>0, RestMsgs
<1>3. made' = i /\ control' = i /\ mTrigger' = i /\ lost' = lost
  BY DEF StartSession
<1>4. PICK hasPort \in {TRUE, ~Faults} :
         LET o == [NewControl EXCEPT !.port = hasPort] IN
          /\ reader' = [reader EXCEPT ![i] = IF hasPort THEN "loop" ELSE "out"]
          /\ \/ /\ a = "start"
                /\ SendCommand(i, o, "ready", "start", 1, rest)
                /\ UNCHANGED <<mIndex, stopping>>
             \/ /\ a = "i2c"
                /\ SendI2c(i, o, rest)
                /\ UNCHANGED stopping
             \/ /\ a = "check"
                /\ SendCommand(i, o, "check2", "check", 1, rest)
                /\ UNCHANGED <<mIndex, stopping>>
             \/ /\ a \notin Modes
                /\ ctl' = [ctl EXCEPT ![i] = o]
                /\ StopSelf(rest)
                /\ UNCHANGED mIndex
  BY DEF StartSession
<1> DEFINE o == [NewControl EXCEPT !.port = hasPort]
<1>5. hasPort \in BOOLEAN
  BY ScriptAssumption
<1>6. o \in Control /\ o.port = hasPort /\ o.handler = TRUE /\ o.delayed = FALSE
  <2>1. NewControl \in Fields /\ Paired(NewControl.mode, NewControl.cmd)
    BY ControlFacts DEF Control
  <2>2. o \in Fields /\ o.mode = NewControl.mode /\ o.cmd = NewControl.cmd
    BY <1>5, <2>1 DEF Fields
  <2>3. o.port = hasPort /\ o.handler = TRUE /\ o.delayed = FALSE
    BY DEF NewControl
  <2> QED BY <2>1, <2>2, <2>3 DEF Control
<1> HIDE DEF o
<1> DEFINE Good ==
      /\ ctl'[i].handler /\ ctl'[i].port = hasPort /\ ctl'[i].delayed = FALSE
      /\ \A m \in Msgs(queue') : m \in Msgs(rest) \/ Moving(m)
      /\ stopping' => StartsBefore(queue')
      /\ ctl'[i].timeouts > 0 \/ HasMover(queue')
<1>7. Good
  <2>1. ASSUME Moved(i, o, rest), UNCHANGED stopping
        PROVE  Good
    BY <1>2, <1>6, <2>1 DEF Moved, Grown
  <2>2. ASSUME ctl' = [ctl EXCEPT ![i] = o], StopSelf(rest)
        PROVE  Good
    <3>1. ctl'[i] = o
      BY <1>1, <2>2 DEF TypeOK
    <3>2. /\ Msgs(rest) \subseteq Msgs(queue') /\ StartsBefore(queue')
          /\ \A m \in Msgs(queue') : m \in Msgs(rest) \/ Moving(m)
          /\ ~stopping => HasMover(queue')
      BY <1>2, <2>2, StopSelfMoves
    <3>3. stopping => HasMover(queue')
      BY <1>0, <3>2, RestMsgs DEF HasMover
    <3> QED BY <1>6, <3>1, <3>2, <3>3
  <2>3. \/ Moved(i, o, rest) /\ UNCHANGED stopping
        \/ ctl' = [ctl EXCEPT ![i] = o] /\ StopSelf(rest)
    BY <1>1, <1>2, <1>4, <1>6, SendCommandMoves, SendI2cMoves DEF o
  <2> QED BY <2>1, <2>2, <2>3
<1>8. \A j \in Ctl : j > made => reader[j] = "out" /\ NoText(rest, j)
  BY <1>0, <1>1, RestMsgs DEF SessionInv
<1>9. \A j \in Ctl : j > made => NoText(queue', j)
  BY <1>7, <1>8, GrownText
<1>10. reader' = [reader EXCEPT ![i] = IF hasPort THEN "loop" ELSE "out"]
  BY <1>4
<1>11. /\ \A j \in Ctl : j > i => j > made /\ reader'[j] = reader[j]
       /\ ~hasPort => reader'[i] = "out"
       /\ i > made /\ i # 0
  BY <1>1, <1>10 DEF TypeOK, Ctl
<1>12. SessionInv'
  BY <1>1, <1>3, <1>7, <1>8, <1>9, <1>11 DEF SessionInv
<1>13. Watched'
  BY <1>3, <1>7, WatchedNext
<1> QED BY <1>12, <1>13

\* An answer of the modem is replaced by a check, a result or a new command.
LEMMA AtResultWatched ==
  ASSUME WatchInv, HandleAtResult
  PROVE  SessionInv' /\ Watched'
<1> DEFINE i == Head(queue).ctl
           c == [ctl[i] EXCEPT !.timeouts = 0]
<1>0. Head(queue).what = "AT" /\ queue # << >>
  BY DEF HandleAtResult, Takes
<1>1. TypeOK /\ SessionInv /\ ctl \in [Ctl -> Control] /\ i \in Ctl
  BY <1>0, Taken DEF WatchInv, Inv, TypeOK
<1>2. rest \in Seq(Message) /\ (HasMover(queue) => HasMover(rest))
  BY <1>0, RestMsgs DEF Moving
<1>3. UNCHANGED <<reader, made, control, mTrigger, stopping>>
  BY DEF HandleAtResult, service
<1>4. i = control => ctl[i].port
  BY <1>0, <1>1, RestMsgs, ScriptAssumption DEF SessionInv, NoText, Ctl
<1>5. c \in Control /\ c.handler = ctl[i].handler /\ c.port = ctl[i].port
      /\ c.delayed = ctl[i].delayed
  <2>1. ctl[i] \in Fields /\ Paired(ctl[i].mode, ctl[i].cmd)
    BY <1>1 DEF Control
  <2>2. c \in Fields /\ c.mode = ctl[i].mode /\ c.cmd = ctl[i].cmd
    BY <2>1 DEF Fields
  <2>3. c.handler = ctl[i].handler /\ c.port = ctl[i].port /\ c.delayed = ctl[i].delayed
    BY <2>1 DEF Fields
  <2> QED BY <2>1, <2>2, <2>3 DEF Control
<1> HIDE DEF c
<1> DEFINE Good ==
      /\ Grown(rest, queue') /\ lost \subseteq lost'
      /\ \A j \in Ctl : j # i => ctl'[j] = ctl[j]
      /\ ctl'[i].handler = ctl[i].handler /\ ctl'[i].port = ctl[i].port
      /\ i = control /\ i \notin lost' =>
           ctl'[i].timeouts > 0 \/ ctl'[i].delayed \/ HasMover(queue')
<1>6. control # 0 => control \in Ctl /\ ctl[control].handler
  BY WatchedFacts
<1>7. Good
  <2>0. Grown(rest, rest)
    BY DEF Grown
  <2>1. CASE ~ctl[i].handler /\ queue' = rest /\ UNCHANGED <<ctl, crashed, lost>>
    BY <1>1, <1>6, <2>0, <2>1, ScriptAssumption DEF Ctl
  <2>2. CASE \E match \in BOOLEAN : ctl[i].handler /\ SendNext(i, c, match, rest)
    BY <1>1, <1>2, <1>4, <1>5, <2>2, SendNextMoves
  <2>3. CASE /\ \E match \in BOOLEAN :
                  ctl' = [ctl EXCEPT ![i] = [c EXCEPT !.message = @ \/ match,
                                                      !.fresh = @ \/ match,
                                                      !.delayed = TRUE]]
             /\ queue' = rest
             /\ UNCHANGED <<crashed, lost>>
    <3>1. PICK match \in BOOLEAN :
            ctl' = [ctl EXCEPT ![i] = [c EXCEPT !.message = @ \/ match,
                                                !.fresh = @ \/ match, !.delayed = TRUE]]
      BY <2>3
    <3> DEFINE b == c.message \/ match
               d == c.fresh \/ match
               e == [c EXCEPT !.message = b, !.fresh = d, !.delayed = TRUE]
    <3>2. ctl' = [ctl EXCEPT ![i] = e]
      BY <3>1
    <3> HIDE DEF b, d
    <3>3. e.handler = c.handler /\ e.port = c.port /\ e.delayed = TRUE
      BY <1>5 DEF Control, Fields
    <3> HIDE DEF e
    <3> QED BY <1>1, <1>5, <2>0, <2>3, <3>2, <3>3
  <2> QED BY <2>1, <2>2, <2>3, Zenon DEF HandleAtResult, c
<1>8. \A j : NoText(queue, j) => NoText(queue', j)
  BY <1>0, <1>7, RestMsgs, GrownText DEF Grown
<1>9. stopping' => StartsBefore(queue')
  BY <1>0, <1>3, <1>7, RestMsgs DEF Grown
<1>10. HasMover(queue) => HasMover(queue')
  BY <1>2, <1>7 DEF Grown, HasMover
<1>11. control # 0 =>
         /\ ctl'[control].handler /\ ctl'[control].port = ctl[control].port
         /\ ~ctl[control].port => ctl'[control].delayed = ctl[control].delayed
         /\ control \notin lost' =>
              ctl'[control].timeouts > 0 \/ ctl'[control].delayed \/ HasMover(queue')
  <2>1. CASE i = control
    BY <1>4, <1>6, <1>7, <2>1
  <2>2. CASE i # control
    BY <1>6, <1>7, <1>10, <2>2, WatchedFacts
  <2> QED BY <2>1, <2>2
<1> QED BY <1>3, <1>7, <1>8, <1>9, <1>11, SameControl

\* A lost port and a result leave something behind that moves the session.
LEMMA NullAndResultWatched ==
  ASSUME WatchInv, HandleSerialNull \/ HandleResult
  PROVE  SessionInv' /\ Watched'
<1>0. TypeOK /\ SessionInv /\ ctl \in [Ctl -> Control]
  BY DEF WatchInv, Inv, TypeOK
<1>1. queue # << >> /\ rest \in Seq(Message)
  BY RestMsgs DEF HandleSerialNull, HandleResult, Takes
<1>2. UNCHANGED <<reader, made, control, mTrigger, stopping, lost>>
  BY DEF HandleSerialNull, HandleResult, service
<1>3. ASSUME Grown(rest, queue')
      PROVE  /\ \A j : NoText(queue, j) => NoText(queue', j)
             /\ stopping' => StartsBefore(queue')
             /\ ~Moving(Head(queue)) => (HasMover(queue) => HasMover(queue'))
  <2>1. \A j : NoText(queue, j) => NoText(queue', j)
    BY <1>1, <1>3, RestMsgs, GrownText DEF Grown
  <2>2. stopping' => StartsBefore(queue')
    BY <1>1, <1>2, <1>3, RestMsgs DEF Grown
  <2>3. ~Moving(Head(queue)) => (HasMover(queue) => HasMover(queue'))
    BY <1>1, <1>3, RestMsgs DEF Grown, HasMover
  <2> QED BY <2>1, <2>2, <2>3
<1>4. control # 0 => control \in Ctl /\ ctl[control].handler /\ mTrigger = control
  BY WatchedFacts
<1>5. Grown(rest, rest)
  BY DEF Grown
<1>6. CASE HandleSerialNull
  <2> DEFINE i == Head(queue).ctl
             c == [ctl[i] EXCEPT !.timeouts = 0]
  <2>1. i \in Ctl /\ ~Moving(Head(queue))
    BY <1>0, <1>6, Taken DEF HandleSerialNull, Takes, Moving
  <2>2. /\ c.handler = ctl[i].handler /\ c.port = ctl[i].port /\ c.delayed = ctl[i].delayed
    BY <1>0, <2>1 DEF Control, Fields
  <2>3. \/ ~ctl[i].handler /\ queue' = rest /\ ctl' = ctl
        \/ ctl[i].handler /\ queue' = Append(rest, CloseHandle) /\ ctl' = [ctl EXCEPT ![i] = c]
    BY <1>6 DEF HandleSerialNull
  <2>4. Grown(rest, Append(rest, CloseHandle)) /\ HasMover(Append(rest, CloseHandle))
    BY <1>1, Posted, MovingKinds, GrownFacts
  <2> HIDE DEF c
  <2>5. Grown(rest, queue')
    BY <1>5, <2>3, <2>4
  <2>6. control # 0 =>
          /\ ctl'[control].handler /\ ctl'[control].port = ctl[control].port
          /\ ctl'[control].delayed = ctl[control].delayed
          /\ control \notin lost' =>
               ctl'[control].timeouts > 0 \/ ctl'[control].delayed \/ HasMover(queue')
    BY <1>0, <1>2, <1>3, <1>4, <2>1, <2>2, <2>3, <2>4, <2>5, WatchedFacts
  <2> QED BY <1>2, <1>3, <2>5, <2>6, SameControl
<1>7. CASE HandleResult
  <2>1. CASE mTrigger = 0
    <3>1. queue' = rest /\ control = 0
      BY <1>4, <1>7, <2>1 DEF HandleResult
    <3> QED BY <1>2, <1>3, <1>5, <3>1, SameControl
  <2>2. CASE mTrigger # 0
    <3>1. mTrigger \in Ctl /\ ctl[mTrigger] \in Control
      BY <1>0, <2>2, ScriptAssumption DEF TypeOK, Ctl
    <3>2. Moved(mTrigger, ctl[mTrigger], rest)
      BY <1>0, <1>1, <1>7, <2>2, <3>1, SendI2cMoves, CallBackMoves DEF HandleResult
    <3>3. Grown(rest, queue')
      BY <3>2 DEF Moved
    <3>4. control # 0 =>
          /\ ctl'[control].handler /\ ctl'[control].port = ctl[control].port
          /\ ctl'[control].delayed = ctl[control].delayed
          /\ ctl'[control].timeouts > 0 \/ HasMover(queue')
      BY <1>4, <3>2 DEF Moved
    <3> QED BY <1>2, <1>3, <3>3, <3>4, SameControl
  <2> QED BY <2>1, <2>2
<1> QED BY <1>6, <1>7

\* A time-out and a delayed check leave their message behind.
LEMMA RunnablesWatched ==
  ASSUME WatchInv, NEW i \in Ctl, FireTimeOut(i) \/ DelayedCheck(i)
  PROVE  SessionInv' /\ Watched'
<1>0. TypeOK /\ SessionInv /\ ctl \in [Ctl -> Control] /\ queue \in Seq(Message)
  BY DEF WatchInv, Inv, TypeOK
<1>1. ctl[i] \in Fields /\ Paired(ctl[i].mode, ctl[i].cmd)
  BY <1>0 DEF Control
<1>2. UNCHANGED <<reader, made, control, mTrigger, stopping>>
  BY DEF FireTimeOut, DelayedCheck, service
<1>3. control # 0 => control \in Ctl /\ ctl[control].handler
  BY WatchedFacts
<1>4. ASSUME Grown(queue, queue')
      PROVE  /\ \A j : NoText(queue, j) => NoText(queue', j)
             /\ stopping' => StartsBefore(queue')
             /\ HasMover(queue) => HasMover(queue')
  <2>1. \A j : NoText(queue, j) => NoText(queue', j)
    BY <1>4, GrownText DEF Grown
  <2>2. stopping' => StartsBefore(queue')
    BY <1>0, <1>2, <1>4 DEF Grown, SessionInv
  <2>3. HasMover(queue) => HasMover(queue')
    BY <1>4 DEF Grown, HasMover
  <2> QED BY <2>1, <2>2, <2>3
<1>5. CASE FireTimeOut(i)
  <2> DEFINE c == [ctl[i] EXCEPT !.timeouts = ctl[i].timeouts - 1]
  <2>1. ctl' = [ctl EXCEPT ![i] = c] /\ lost' = lost
        /\ queue' = IF ctl[i].handler THEN Append(queue, TimeOut) ELSE queue
    BY <1>5 DEF FireTimeOut
  <2>2. /\ c.handler = ctl[i].handler /\ c.port = ctl[i].port /\ c.delayed = ctl[i].delayed
    BY <1>1 DEF Fields
  <2>3. /\ Grown(queue, queue) /\ Grown(queue, Append(queue, TimeOut))
        /\ HasMover(Append(queue, TimeOut))
    BY <1>0, Posted, MovingKinds, GrownFacts
  <2> HIDE DEF c
  <2>4. Grown(queue, queue')
    BY <2>1, <2>3
  <2>5. control # 0 =>
          /\ ctl'[control].handler /\ ctl'[control].port = ctl[control].port
          /\ ctl'[control].delayed = ctl[control].delayed
          /\ control \notin lost' =>
               ctl'[control].timeouts > 0 \/ ctl'[control].delayed \/ HasMover(queue')
    BY <1>0, <1>3, <1>4, <2>1, <2>2, <2>3, <2>4, WatchedFacts
  <2> QED BY <1>2, <1>4, <2>1, <2>4, <2>5, SameControl
<1>6. CASE DelayedCheck(i)
  <2> DEFINE c == [ctl[i] EXCEPT !.delayed = FALSE]
  <2>1. SendNext(i, c, ctl[i].message, queue) /\ ctl[i].delayed
    BY <1>6 DEF DelayedCheck
  <2>2. c \in Fields /\ c.port = ctl[i].port /\ c.mode = ctl[i].mode /\ c.cmd = ctl[i].cmd
        /\ c.handler = ctl[i].handler
    BY <1>1 DEF Fields
  <2>3. c \in Control
    BY <1>1, <2>2 DEF Control
  <2>4. i = control => ctl[i].port /\ ctl[i].handler
    BY <1>0, <1>3, <2>1, ScriptAssumption DEF SessionInv, Ctl
  <2> HIDE DEF c
  <2>5. /\ Grown(queue, queue')
        /\ lost \subseteq lost'
        /\ c.handler /\ c.port => ctl'[i].timeouts > 0 \/ HasMover(queue') \/ i \in lost'
        /\ ctl'[i].handler = c.handler /\ ctl'[i].port = c.port
        /\ ctl'[i].delayed = c.delayed
        /\ \A j \in Ctl : j # i => ctl'[j] = ctl[j]
    BY <1>0, <2>1, <2>3, SendNextMoves
  <2>6. control # 0 =>
          /\ ctl'[control].handler /\ ctl'[control].port = ctl[control].port
          /\ ~ctl[control].port => ctl'[control].delayed = ctl[control].delayed
          /\ control \notin lost' =>
               ctl'[control].timeouts > 0 \/ ctl'[control].delayed \/ HasMover(queue')
    BY <1>3, <1>4, <2>2, <2>4, <2>5, WatchedFacts
  <2> QED BY <1>2, <1>4, <2>5, <2>6, SameControl
<1> QED BY <1>5, <1>6

\* A reader thread posts texts only for a control that has its port.
LEMMA ReaderWatched ==
  ASSUME WatchInv, NEW i \in Ctl, ReaderStep(i)
  PROVE  SessionInv' /\ Watched'
<1>0. TypeOK /\ SessionInv /\ queue \in Seq(Message) /\ made \in Nat
  BY DEF WatchInv, Inv, TypeOK
<1>1. PICK from \in {"loop", "test", "call", "read"} : \E to : Reads(i, from, to)
  BY DEF ReaderStep, TestClose, TestPort, CallRead, ReadText, ReadFails
<1>2. /\ reader[i] # "out"
      /\ \A j \in Ctl : j # i => reader'[j] = reader[j]
      /\ UNCHANGED <<ctl, made, control, mTrigger, stopping, lost>>
  BY <1>0, <1>1 DEF Reads, service, TypeOK
<1>3. i <= made /\ (i = control => ctl[i].port)
  BY <1>0, <1>2 DEF SessionInv, Ctl
<1>4. \/ queue' = queue
      \/ queue' = Append(queue, AtResult(i))
      \/ queue' = Append(queue, SerialNull(i))
  BY DEF ReaderStep, TestClose, TestPort, CallRead, ReadText, ReadFails
<1>5. AtResult(i) \in Message /\ SerialNull(i) \in Message
  BY Posted
<1>6. PICK x \in {AtResult(i), SerialNull(i)} : queue' \in {queue, Append(queue, x)}
  BY <1>4
<1>7. x \in Message /\ x.what \in {"AT", "NULL"} /\ (x.what = "AT" => x.ctl = i)
  BY <1>5, <1>6, MovingKinds
<1>8. Msgs(queue') \subseteq Msgs(queue) \cup {x} /\ Msgs(queue) \subseteq Msgs(queue')
  BY <1>0, <1>6, <1>7, AppendMsgs
<1>9. stopping' => StartsBefore(queue')
  BY <1>0, <1>2, <1>6, <1>7, AppendMsgs DEF SessionInv
<1>10. \A j : j # i /\ NoText(queue, j) => NoText(queue', j)
  BY <1>7, <1>8 DEF NoText
<1>11. HasMover(queue) => HasMover(queue')
  BY <1>8 DEF HasMover
<1>12. control # 0 => control \in Ctl
  BY WatchedFacts
<1>13. (control # 0 /\ ~ctl[control].port =>
         reader[control] = "out" /\ ~ctl[control].delayed /\ NoText(queue, control))'
  BY <1>0, <1>2, <1>3, <1>10, <1>12 DEF SessionInv
<1>14. (\A j \in Ctl : j > made => reader[j] = "out" /\ NoText(queue, j))'
  BY <1>0, <1>2, <1>3, <1>10 DEF SessionInv, Ctl
<1>15. SessionInv'
  BY <1>0, <1>2, <1>9, <1>13, <1>14 DEF SessionInv
<1>16. Watched'
  BY <1>2, <1>11, WatchedFacts, WatchedNext
<1> QED BY <1>15, <1>16

\* The ends of a session and the delayed stopSelf.
LEMMA EndsWatched ==
  ASSUME WatchInv, HandleClose \/ HandleTimeOut \/ OnDestroy \/ DelayedStop
  PROVE  SessionInv' /\ Watched'
<1>0. TypeOK /\ SessionInv /\ queue \in Seq(Message) /\ made \in Nat
  BY DEF WatchInv, Inv, TypeOK
<1>1. CASE HandleClose \/ HandleTimeOut \/ OnDestroy
  <2>1. queue # << >> /\ queue' = rest /\ control' = 0 /\ UNCHANGED <<reader, made, stopping>>
    BY <1>1 DEF HandleClose, HandleTimeOut, CloseService, OnDestroy, Takes
  <2>2. \A j : NoText(queue, j) => NoText(queue', j)
    BY <2>1, RestMsgs
  <2>3. stopping' => StartsBefore(queue')
    BY <2>1, RestMsgs
  <2> QED BY <1>0, <2>1, <2>2, <2>3, NoControl
<1>2. CASE DelayedStop
  <2>1. StopSelf(queue) /\ UNCHANGED <<ctl, reader, made, control, mTrigger, lost>>
    BY <1>2 DEF DelayedStop
  <2>2. /\ Msgs(queue) \subseteq Msgs(queue') /\ StartsBefore(queue')
        /\ \A m \in Msgs(queue') : m \in Msgs(queue) \/ Moving(m)
    BY <1>0, <2>1, StopSelfMoves DEF SessionInv
  <2>3. \A j : NoText(queue, j) => NoText(queue', j)
    BY <2>2, GrownText
  <2>4. HasMover(queue) => HasMover(queue')
    BY <2>2 DEF HasMover
  <2> QED BY <2>1, <2>2, <2>3, <2>4, WatchedFacts, SameControl
<1> QED BY <1>1, <1>2

\* Every step keeps the session watched.
LEMMA StepWatchInv == WatchInv /\ [Next]_vars => WatchInv'
<1> SUFFICES ASSUME WatchInv, [Next]_vars PROVE WatchInv'
  OBVIOUS
<1>1. Inv'
  BY StepInv DEF WatchInv
<1>2. CASE Looper
  BY <1>1, <1>2, StartEndsWatched, StartSessionWatched, AtResultWatched,
     NullAndResultWatched, EndsWatched DEF Looper, WatchInv
<1>3. CASE DelayedStop
  BY <1>1, <1>3, EndsWatched DEF WatchInv
<1>4. ASSUME NEW i \in Ctl, FireTimeOut(i) \/ DelayedCheck(i) \/ ReaderStep(i)
      PROVE  WatchInv'
  BY <1>1, <1>4, RunnablesWatched, ReaderWatched DEF WatchInv
<1>5. ASSUME NEW a \in Actions, StartService(a)
      PROVE  WatchInv'
  <2>1. /\ queue' = Append(queue, Start(a)) /\ ~stopping
        /\ UNCHANGED <<ctl, reader, made, control, mTrigger, stopping, lost>>
    BY <1>5 DEF StartService, service
  <2>2. Msgs(queue') = Msgs(queue) \cup {Start(a)} /\ Start(a).what = "START"
    BY <2>1, AppendMsgs, Posted, MovingKinds DEF WatchInv, Inv, TypeOK
  <2>3. \A j : NoText(queue, j) => NoText(queue', j)
    BY <2>2 DEF NoText
  <2>4. HasMover(queue) => HasMover(queue')
    BY <2>2 DEF HasMover
  <2> QED BY <1>1, <2>1, <2>3, <2>4, WatchedFacts, SameControl DEF WatchInv
<1>6. CASE UNCHANGED vars
  <2>1. UNCHANGED <<ctl, reader, made, control, mTrigger, queue, stopping, lost>>
    BY <1>6 DEF vars
  <2> QED BY <1>1, <2>1, WatchedFacts, SameControl DEF WatchInv, SessionInv
<1> QED BY <1>2, <1>3, <1>4, <1>5, <1>6 DEF Next

\* No session is ever left without a time-out, a delayed check or a message that
\* will move it, except by a repetition that could not be sent: whatever the
\* order of answers, time-outs, vanished ports, starts and stops of the service
\* (ModemLogService.onStartCommand and its handler, SerialPortControl.sendNext).
THEOREM SessionWatched == Spec => []Watched
<1>1. Init => WatchInv
  <2> SUFFICES ASSUME Init PROVE WatchInv
    OBVIOUS
  <2>1. Inv
    BY InitInv
  <2>2. queue = << >> /\ control = 0 /\ stopping = FALSE /\ reader = [j \in Ctl |-> "out"]
    BY DEF Init
  <2>3. \A j : NoText(queue, j)
    BY <2>2 DEF NoText, Msgs
  <2>4. SessionInv
    BY <2>2, <2>3 DEF SessionInv
  <2> QED BY <2>1, <2>2, <2>4 DEF WatchInv, Watched
<1>2. WatchInv /\ [Next]_vars => WatchInv'
  BY StepWatchInv
<1>3. WatchInv => Watched
  BY DEF WatchInv
<1> QED BY <1>1, <1>2, <1>3, PTL DEF Spec
=============================================================================
