--------------------------- MODULE LogDumpProofs ---------------------------
(***************************************************************************)
(* Proofs about the log daemon, for every set of categories, every order   *)
(* the code may list them in, and any number of descriptors.               *)
(***************************************************************************)
EXTENDS LogDump, FiniteSetTheorems, TLAPS

\* The position of an order is a category.
LEMMA OrderIndex ==
  ASSUME NEW s \in Seq(Cats), NEW i \in Nat \ {0}, i <= Len(s)
  PROVE  s[i] \in Cats
OBVIOUS

LEMMA OrderLen ==
  /\ Len(StartOrder) \in Nat \ {0} /\ Len(SnapOrder) \in Nat \ {0}
  /\ Len(PollOrder) \in Nat \ {0} /\ Len(CloseOrder) \in Nat \ {0}
BY OrderAssumption

\* Closing a descriptor keeps the table well-typed.
LEMMA CloseType ==
  ASSUME fdTable \in [Fds -> File \cup {Stdin, Free}], NEW n \in Fds
  PROVE  /\ Close(n) \in [Fds -> File \cup {Stdin, Free}]
         /\ Closelogfd(n) \in [Fds -> File \cup {Stdin, Free}]
BY DEF Close, Closelogfd

\* So does opening the lowest free one, or leaving by exit(-1).
LEMMA OpenFileType ==
  ASSUME TypeOK, NEW c \in Cats, NEW d \in Roots, NEW from, NEW to \in RStates,
         OpenFile(c, d, from, to)
  PROVE  /\ rpc' \in [Cats -> RStates]
         /\ rfd' \in [Cats -> Fds]
         /\ fdTable' \in [Fds -> File \cup {Stdin, Free}]
         /\ alive' \in BOOLEAN
<1>0. FileOf(c, d) \in File BY DEF FileOf, File
<1>1. CASE \E n \in Fds : /\ IsLowestFree(n)
                          /\ RGoto(c, from, to)
                          /\ rfd' = [rfd EXCEPT ![c] = n]
                          /\ fdTable' = [fdTable EXCEPT ![n] = FileOf(c, d)]
                          /\ alive' = alive
  BY <1>0, <1>1 DEF TypeOK, RGoto
<1>2. CASE /\ FreeFds = {} /\ alive /\ rpc[c] = from /\ alive' = FALSE
           /\ UNCHANGED <<rpc, rfd, fdTable>>
  BY <1>2 DEF TypeOK
<1> QED BY <1>1, <1>2 DEF OpenFile

LEMMA InitTypeOK == Init => TypeOK
<1> SUFFICES ASSUME Init PROVE TypeOK OBVIOUS
<1>1. 0 \in Fds /\ 0 \in 0..MaxLines BY SetAssumption DEF Fds
<1>2. PositionOK BY DEF Init, PositionOK
<1> QED BY <1>1, <1>2 DEF Init, TypeOK, RStates, DStates

LEMMA ReadTypeOK ==
  ASSUME TypeOK, NEW c \in Cats, Read(c) \/ Eof(c)
  PROVE  TypeOK'
<1> USE DEF TypeOK, PositionOK, RStates, RGoto, env, dirs, seen, control
<1>0. MaxLines \in Nat \ {0} /\ 0 \in Fds BY SetAssumption DEF Fds
<1>1. CASE Fgets(c) BY <1>1 DEF Fgets
<1>2. CASE TestChange(c) BY <1>2 DEF TestChange
<1>3. CASE ReopenClose(c) BY <1>3, CloseType DEF ReopenClose
<1>4. CASE ReopenOpen(c)
  <2>1. gszLogDir[c] \in Roots /\ "assign" \in RStates OBVIOUS
  <2>2. /\ rpc' \in [Cats -> RStates] /\ rfd' \in [Cats -> Fds]
        /\ fdTable' \in [Fds -> File \cup {Stdin, Free}] /\ alive' \in BOOLEAN
    BY <1>4, <2>1, OpenFileType DEF ReopenOpen
  <2> QED BY <1>4, <2>1, <2>2 DEF ReopenOpen
<1>5. CASE ReopenAssign(c) BY <1>0, <1>5 DEF ReopenAssign
<1>6. CASE ReopenClear(c) BY <1>6 DEF ReopenClear
<1>7. CASE TestFd(c) BY <1>7 DEF TestFd, AfterLine
<1>8. CASE MarkWrite(c) BY <1>8 DEF MarkWrite
<1>9. CASE WriteLine(c) BY <1>0, <1>9 DEF WriteLine
<1>10. CASE UnmarkWrite(c) BY <1>10 DEF UnmarkWrite, AfterLine
<1>11. CASE RotateClose(c) BY <1>11, CloseType DEF RotateClose
<1>12. CASE RotateOpen(c)
  <2>1. szPath[c] \in Roots /\ "rotassign" \in RStates OBVIOUS
  <2>2. /\ rpc' \in [Cats -> RStates] /\ rfd' \in [Cats -> Fds]
        /\ fdTable' \in [Fds -> File \cup {Stdin, Free}] /\ alive' \in BOOLEAN
    BY <1>12, <2>1, OpenFileType DEF RotateOpen
  <2> QED BY <1>12, <2>2 DEF RotateOpen
<1>13. CASE RotateAssign(c) BY <1>0, <1>13 DEF RotateAssign
<1>14. CASE CloseLog(c) BY <1>14, CloseType DEF CloseLog
<1>15. CASE CloseStore(c) BY <1>0, <1>15 DEF CloseStore
<1>16. CASE Eof(c) BY <1>16 DEF Eof
<1> QED BY <1>1, <1>2, <1>3, <1>4, <1>5, <1>6, <1>7, <1>8, <1>9, <1>10, <1>11,
           <1>12, <1>13, <1>14, <1>15, <1>16 DEF Read

\* A step of Advance stays inside the order, or starts the next phase.
LEMMA AdvanceType ==
  ASSUME NEW order \in Seq(Cats), NEW here \in DStates, NEW next \in DStates,
         di \in Nat \ {0}, di <= Len(order), Advance(order, here, next)
  PROVE  /\ dpc' \in DStates /\ di' \in Nat \ {0}
         /\ \/ dpc' = here /\ di' <= Len(order)
            \/ dpc' = next /\ di' = 1
<1>1. Len(order) \in Nat OBVIOUS
<1> QED BY <1>1 DEF Advance

\* The first position is in every list.
LEMMA FirstPosition == di' = 1 => PositionOK'
BY OrderLen DEF PositionOK

\* A step of Advance through one of the lists keeps the poller inside them.
LEMMA AdvancePosition ==
  ASSUME di \in Nat \ {0}, NEW order, NEW here, NEW next \in DStates,
         \/ here = "start" /\ order = StartOrder
         \/ here = "snap" /\ order = SnapOrder
         \/ here = "poll" /\ order = PollOrder
         \/ here = "spin" /\ order = CloseOrder,
         di <= Len(order), Advance(order, here, next)
  PROVE  dpc' \in DStates /\ PositionOK'
<1>1. order \in Seq(Cats) /\ here \in DStates
  BY OrderAssumption DEF DStates
<1>2. /\ dpc' \in DStates /\ di' \in Nat \ {0}
      /\ \/ dpc' = here /\ di' <= Len(order)
         \/ dpc' = next /\ di' = 1
  BY <1>1, AdvanceType
<1>3. CASE di' = 1
  BY <1>2, <1>3, FirstPosition
<1>4. CASE dpc' = here /\ di' <= Len(order)
  BY <1>2, <1>4 DEF PositionOK
<1> QED BY <1>2, <1>3, <1>4

LEMMA StartReaderType ==
  ASSUME TypeOK, NEW c \in Cats, StartReader(c)
  PROVE  /\ gbChange' \in [Cats -> BOOLEAN] /\ gbEnable' \in [Cats -> BOOLEAN]
         /\ g_p' \in [Cats -> BOOLEAN] /\ rpc' \in [Cats -> RStates]
BY DEF StartReader, TypeOK, RStates

LEMMA DetectTypeOK == TypeOK /\ Detect => TypeOK'
<1> SUFFICES ASSUME TypeOK, Detect PROVE TypeOK' OBVIOUS
<1> USE OrderAssumption, OrderLen DEF TypeOK, PositionOK, DStates, DGoto, env, dirs, reader, seen, control
<1>1. CASE CheckMemorySafe
  <2>1. dpc' \in DStates /\ di' = 1 BY <1>1 DEF CheckMemorySafe
  <2>2. PositionOK' BY <2>1, FirstPosition
  <2> QED BY <1>1, <2>1, <2>2 DEF CheckMemorySafe
<1>2. CASE StartRecordLog
  <2>1. StartOrder[di] \in Cats BY <1>2, OrderIndex DEF StartRecordLog
  <2>2. /\ gbChange' \in [Cats -> BOOLEAN] /\ gbEnable' \in [Cats -> BOOLEAN]
        /\ g_p' \in [Cats -> BOOLEAN] /\ rpc' \in [Cats -> RStates]
    <3>1. CASE StartReader(StartOrder[di]) BY <2>1, <3>1, StartReaderType
    <3>2. CASE UNCHANGED <<gbChange, gbEnable, g_p, rpc>> BY <3>2
    <3> QED BY <1>2, <3>1, <3>2 DEF StartRecordLog
  <2>3. dpc' \in DStates /\ PositionOK'
    <3>1. dpc = "start" /\ di <= Len(StartOrder) /\ Advance(StartOrder, "start", "snap")
      BY <1>2 DEF StartRecordLog
    <3> QED BY <3>1, AdvancePosition
  <2> QED BY <1>2, <2>2, <2>3 DEF StartRecordLog
<1>3. CASE SnapProp
  <2>1. SnapOrder[di] \in Cats BY <1>3, OrderIndex DEF SnapProp
  <2>2. dpc' \in DStates /\ PositionOK'
    <3>1. di <= Len(SnapOrder) /\ Advance(SnapOrder, "snap", "snaproot") BY <1>3 DEF SnapProp
    <3> QED BY <3>1, AdvancePosition
  <2> QED BY <1>3, <2>1, <2>2 DEF SnapProp
<1>4. CASE SnapRoot
  <2>1. dpc' \in DStates /\ di' = 1 BY <1>4 DEF SnapRoot
  <2>2. PositionOK' BY <2>1, FirstPosition
  <2> QED BY <1>4, <2>1, <2>2 DEF SnapRoot
<1>5. CASE PollSame
  <2>1. dpc' \in DStates /\ PositionOK'
    <3>1. di <= Len(PollOrder) /\ Advance(PollOrder, "poll", "root") BY <1>5 DEF PollSame
    <3> QED BY <3>1, AdvancePosition
  <2> QED BY <1>5, <2>1 DEF PollSame
<1>6. CASE PollOn
  <2>1. PollOrder[di] \in Cats BY <1>6, OrderIndex DEF PollOn
  <2> QED BY <1>6, <2>1 DEF PollOn
<1>7. CASE CallbackOn
  <2>1. PollOrder[di] \in Cats BY <1>7, OrderIndex DEF CallbackOn
  <2>2. /\ gbChange' \in [Cats -> BOOLEAN] /\ gbEnable' \in [Cats -> BOOLEAN]
        /\ g_p' \in [Cats -> BOOLEAN] /\ rpc' \in [Cats -> RStates]
    BY <1>7, <2>1, StartReaderType DEF CallbackOn
  <2>3. dpc' \in DStates /\ PositionOK'
    <3>1. di <= Len(PollOrder) /\ Advance(PollOrder, "poll", "root") BY <1>7 DEF CallbackOn
    <3> QED BY <3>1, AdvancePosition
  <2> QED BY <1>7, <2>1, <2>2, <2>3 DEF CallbackOn
<1>8. CASE PollOff
  <2>1. PollOrder[di] \in Cats BY <1>8, OrderIndex DEF PollOff
  <2> QED BY <1>8, <2>1 DEF PollOff
<1>9. CASE CallbackOff
  <2>1. PollOrder[di] \in Cats BY <1>9, OrderIndex DEF CallbackOff
  <2>2. dpc' \in DStates /\ PositionOK'
    <3>1. CASE dpc' = "offclose" /\ di' = di BY <1>9, <3>1 DEF CallbackOff
    <3>2. CASE Advance(PollOrder, "poll", "root")
      <4>1. di <= Len(PollOrder) BY <1>9 DEF CallbackOff
      <4> QED BY <3>2, <4>1, AdvancePosition
    <3> QED BY <1>9, <3>1, <3>2 DEF CallbackOff
  <2> QED BY <1>9, <2>1, <2>2 DEF CallbackOff
<1>10. CASE OffClose
  <2>1. PollOrder[di] \in Cats BY <1>10, OrderIndex DEF OffClose
  <2> QED BY <1>10, <2>1, CloseType DEF OffClose
<1>11. CASE OffStore
  <2>1. PollOrder[di] \in Cats /\ 0 \in Fds
    BY <1>11, OrderIndex, SetAssumption DEF OffStore, Fds
  <2>2. dpc' \in DStates /\ PositionOK'
    <3>1. di <= Len(PollOrder) /\ Advance(PollOrder, "poll", "root") BY <1>11 DEF OffStore
    <3> QED BY <3>1, AdvancePosition
  <2> QED BY <1>11, <2>1, <2>2 DEF OffStore
<1>12. CASE PollRoot
  <2>1. dpc' \in DStates /\ di' = 1 BY <1>12 DEF PollRoot
  <2>2. PositionOK' BY <2>1, FirstPosition
  <2> QED BY <1>12, <2>1, <2>2 DEF PollRoot
<1>13. CASE SpinWrite BY <1>13 DEF SpinWrite
<1>14. CASE SpinHoisted BY <1>14 DEF SpinHoisted
<1>15. CASE PathClose
  <2>1. CloseOrder[di] \in Cats BY <1>15, OrderIndex DEF PathClose
  <2> QED BY <1>15, <2>1, CloseType DEF PathClose
<1>16. CASE PathStore
  <2>1. CloseOrder[di] \in Cats /\ 0 \in Fds
    BY <1>16, OrderIndex, SetAssumption DEF PathStore, Fds
  <2>2. dpc' \in DStates /\ PositionOK'
    <3>1. dpc = "pstore" /\ di <= Len(CloseOrder) /\ Advance(CloseOrder, "spin", "setdir")
      BY <1>16 DEF PathStore
    <3> QED BY <3>1, AdvancePosition
  <2> QED BY <1>16, <2>1, <2>2 DEF PathStore
<1>17. CASE SetAllLogDir BY <1>17 DEF SetAllLogDir
<1>18. CASE ResetLogPath
  <2>1. dpc' \in DStates /\ di' = 1 BY <1>18 DEF ResetLogPath
  <2>2. PositionOK' BY <2>1, FirstPosition
  <2> QED BY <1>18, <2>1, <2>2 DEF ResetLogPath
<1> QED BY <1>1, <1>2, <1>3, <1>4, <1>5, <1>6, <1>7, <1>8, <1>9, <1>10, <1>11, <1>12,
           <1>13, <1>14, <1>15, <1>16, <1>17, <1>18 DEF Detect

LEMMA NextTypeOK == TypeOK /\ [Next]_vars => TypeOK'
<1> SUFFICES ASSUME TypeOK, [Next]_vars PROVE TypeOK' OBVIOUS
<1>1. CASE Detect BY <1>1, DetectTypeOK
<1>2. CASE \E c \in Cats : Read(c) \/ Eof(c) BY <1>2, ReadTypeOK
<1>3. CASE \E c \in Cats : SetProp(c)
  BY <1>3 DEF SetProp, TypeOK, PositionOK, dirs, reader, seen, control
<1>4. CASE \E r \in Roots : SetRoot(r)
  BY <1>4 DEF SetRoot, TypeOK, PositionOK, dirs, reader, seen, control
<1>5. CASE UNCHANGED vars BY <1>5 DEF vars, TypeOK, PositionOK
<1> QED BY <1>1, <1>2, <1>3, <1>4, <1>5 DEF Next

\* The globals, the descriptor table and the threads keep their types, and
\* detectProp stays inside its lists of keys.
THEOREM TypeCorrect == Spec => []TypeOK
BY InitTypeOK, NextTypeOK, PTL DEF Spec

(***************************************************************************)
(* Enable follows detectProp.                                              *)
(***************************************************************************)
\* Between the flags and the store of a stop branch Enable is already down.
StopInv == dpc \in {"offclose", "offstore"} => ~gbEnable[PollOrder[di]]

\* The steps that are not the main thread's leave its state alone.
LEMMA OthersKeep ==
  ASSUME NEW c, Read(c) \/ Eof(c) \/ SetProp(c) \/ SetRoot(c) \/ UNCHANGED vars
  PROVE  UNCHANGED <<dpc, di, gbEnable, last>>
BY DEF Read, Fgets, TestChange, ReopenClose, ReopenOpen, ReopenAssign, ReopenClear,
       TestFd, MarkWrite, WriteLine, UnmarkWrite, RotateClose, RotateOpen, RotateAssign,
       CloseLog, CloseStore, Eof, SetProp, SetRoot, control, seen, vars

LEMMA StopInvStep == TypeOK /\ StopInv /\ [Next]_vars => StopInv'
<1> SUFFICES ASSUME TypeOK, StopInv, [Next]_vars PROVE StopInv' OBVIOUS
<1>1. CASE Detect
  <2> USE DEF StopInv
  <2>1. CASE CallbackOff
    <3>1. PollOrder[di] \in Cats
      BY <2>1, OrderIndex, OrderAssumption DEF CallbackOff, TypeOK, PositionOK
    <3> QED BY <2>1, <3>1 DEF CallbackOff, Advance, TypeOK
  <2>2. CASE OffClose BY <2>2 DEF OffClose, DGoto
  <2>3. CASE dpc' \notin {"offclose", "offstore"} BY <2>3
  <2>4. (\/ CheckMemorySafe \/ StartRecordLog \/ SnapProp \/ SnapRoot
         \/ PollSame \/ PollOn \/ CallbackOn \/ PollOff \/ OffStore
         \/ PollRoot \/ SpinWrite \/ SpinHoisted \/ PathClose \/ PathStore
         \/ SetAllLogDir \/ ResetLogPath) => dpc' \notin {"offclose", "offstore"}
    BY DEF CheckMemorySafe, StartRecordLog, SnapProp, SnapRoot, PollSame, PollOn,
           CallbackOn, PollOff, OffStore, PollRoot, SpinWrite, SpinHoisted, PathClose,
           PathStore, SetAllLogDir, ResetLogPath, Advance, DGoto
  <2> QED BY <1>1, <2>1, <2>2, <2>3, <2>4 DEF Detect
<1>2. CASE ~Detect
  <2>1. UNCHANGED <<dpc, di, gbEnable, last>> BY <1>2, OthersKeep DEF Next
  <2> QED BY <2>1 DEF StopInv
<1> QED BY <1>1, <1>2

LEMMA AgreementStep ==
  ASSUME TypeOK, StopInv, [Next]_vars, NEW c \in Cats, Polling, Agrees(c)
  PROVE  Agrees(c)'
<1> USE DEF Agrees, DGoto
<1>0. dpc \in {"poll", "on", "off", "offclose", "offstore"} => PollOrder[di] \in Cats
  BY OrderIndex, OrderAssumption DEF TypeOK, PositionOK
<1>1. CASE CheckMemorySafe \/ StartRecordLog \/ SnapProp \/ SnapRoot
  BY <1>1 DEF CheckMemorySafe, StartRecordLog, SnapProp, SnapRoot, Polling
<1>2. CASE PollSame \/ PollOn BY <1>2 DEF PollSame, PollOn, seen
<1>3. CASE CallbackOn BY <1>0, <1>3 DEF CallbackOn, StartReader, TypeOK
<1>4. CASE PollOff BY <1>0, <1>4 DEF PollOff, TypeOK, seen
<1>5. CASE CallbackOff BY <1>0, <1>5 DEF CallbackOff, TypeOK
<1>6. CASE OffClose BY <1>6 DEF OffClose, seen
<1>7. CASE OffStore BY <1>0, <1>7 DEF OffStore, StopInv, TypeOK
<1>8. CASE PollRoot \/ SpinWrite \/ SpinHoisted \/ PathClose \/ PathStore
           \/ SetAllLogDir \/ ResetLogPath
  BY <1>8 DEF PollRoot, SpinWrite, SpinHoisted, PathClose, PathStore, SetAllLogDir,
              ResetLogPath, seen
<1>9. CASE ~Detect
  <2>1. UNCHANGED <<dpc, di, gbEnable, last>> BY <1>9, OthersKeep DEF Next
  <2> QED BY <2>1
<1> QED BY <1>1, <1>2, <1>3, <1>4, <1>5, <1>6, <1>7, <1>8, <1>9 DEF Detect

\* Once Enable agrees with what detectProp saw last it agrees for ever, whatever
\* the readers do and however the properties change.
THEOREM AgreementHolds == Spec => AgreementStable
<1>1. Init => StopInv BY DEF Init, StopInv
<1>2. TypeOK /\ StopInv /\ [Next]_vars =>
        [\A c \in Cats : Polling /\ Agrees(c) => Agrees(c)']_vars
  BY AgreementStep
<1> QED BY <1>1, <1>2, InitTypeOK, NextTypeOK, StopInvStep, PTL
        DEF Spec, AgreementStable

(***************************************************************************)
(* Ownership of the descriptors, as long as only the readers close files:  *)
(* the main thread's closes, when a category is stopped and when the logs  *)
(* move, meet a category whose g*fd is 0.                                  *)
(***************************************************************************)
\* closelogfd and the store that follows it find no file, in both branches of
\* detectProp's callback.
Spared ==
  /\ OffClose \/ OffStore => gfd[PollOrder[di]] = 0
  /\ PathClose \/ PathStore => gfd[CloseOrder[di]] = 0

PollerSpares == [][Spared]_vars

\* The files the readers hold are theirs; descriptor 0 was never closed.
FdInv ==
  /\ fdTable[0] = Stdin
  /\ \A c \in Cats : rpc[c] \in HoldStates /\ gfd[c] # 0 =>
                       fdTable[gfd[c]] = FileOf(c, szPath[c])
  /\ \A c \in Cats : rpc[c] \in TransitStates =>
                       rfd[c] # 0 /\ fdTable[rfd[c]] = FileOf(c, szPath[c])

\* Nothing else is open.
OwnInv == \A n \in Fds \ {0} : fdTable[n] # Free => \E c \in Cats : Owns(c, n)

\* A file exists from the test of g*fd to the rotation, and only a line just
\* written can fill it.
LocalInv ==
  \A c \in Cats :
    /\ rpc[c] \in {"mark", "write", "wrote", "rotate"} => gfd[c] # 0
    /\ rpc[c] \in {"off", "left"} => gfd[c] = 0
    /\ rpc[c] \notin {"wrote", "rotate", "rotopen", "rotassign"} => byteCount[c] < MaxLines

\* No reader is started twice.
StartInv ==
  /\ \A c \in Cats : ~g_p[c] => rpc[c] = "off"
  /\ dpc = "init" => \A c \in Cats : ~g_p[c]
  /\ dpc = "start" => \A j \in di..Len(StartOrder) : ~g_p[StartOrder[j]]

FileInv == TypeOK /\ FdInv /\ OwnInv /\ LocalInv /\ StartInv

\* A log file is neither of the two markers, and says whose it is.
LEMMA FileFacts ==
  ASSUME NEW c \in Cats, NEW d \in Roots, NEW b \in Cats, NEW e \in Roots
  PROVE  /\ FileOf(c, d) # Free /\ FileOf(c, d) # Stdin
         /\ FileOf(c, d) = FileOf(b, e) => c = b
<1>1. FileOf(c, d) \in File /\ FileOf(c, d).cat = c /\ FileOf(b, e).cat = b
  BY DEF FileOf, File
<1> QED BY <1>1, TableAssumption

LEMMA InitFileInv == Init => FdInv /\ OwnInv /\ LocalInv /\ StartInv
<1> SUFFICES ASSUME Init PROVE FdInv /\ OwnInv /\ LocalInv /\ StartInv OBVIOUS
<1>0. MaxFd \in Nat /\ MaxLines \in Nat \ {0} BY SetAssumption
<1>1. FdInv BY <1>0 DEF Init, FdInv, HoldStates, TransitStates, Fds
<1>2. OwnInv BY DEF Init, OwnInv, Fds
<1>3. LocalInv BY <1>0 DEF Init, LocalInv
<1>4. StartInv BY DEF Init, StartInv
<1> QED BY <1>1, <1>2, <1>3, <1>4

\* A reader is started once, in every configuration.
LEMMA StartStepInv == TypeOK /\ StartInv /\ [Next]_vars => StartInv'
<1> SUFFICES ASSUME TypeOK, StartInv, [Next]_vars PROVE StartInv' OBVIOUS
<1> USE DEF TypeOK, DGoto, reader
<1>1. ASSUME NEW c \in Cats, Read(c) \/ Eof(c) PROVE StartInv'
  <2>1. UNCHANGED <<dpc, di, g_p>>
    BY <1>1 DEF Read, Fgets, TestChange, ReopenClose, ReopenOpen, ReopenAssign, ReopenClear,
           TestFd, MarkWrite, WriteLine, UnmarkWrite, RotateClose, RotateOpen, RotateAssign,
           CloseLog, CloseStore, Eof, control
  <2>2. rpc[c] # "off" /\ \A b \in Cats : b # c => rpc'[b] = rpc[b]
    BY <1>1 DEF Read, Fgets, TestChange, ReopenClose, ReopenOpen, ReopenAssign, ReopenClear,
           TestFd, MarkWrite, WriteLine, UnmarkWrite, RotateClose, RotateOpen, RotateAssign,
           CloseLog, CloseStore, Eof, OpenFile, RGoto
  <2> QED BY <2>1, <2>2 DEF StartInv
<1>2. CASE CheckMemorySafe
  BY <1>2, OrderIndex, OrderAssumption DEF CheckMemorySafe, StartInv, PositionOK
<1>3. CASE StartRecordLog
  <2>0. di \in 1..Len(StartOrder) /\ StartOrder[di] \in Cats
    BY <1>3, OrderIndex, OrderAssumption, OrderLen DEF StartRecordLog, PositionOK
  <2>1. \A b \in Cats : ~g_p'[b] => rpc'[b] = "off"
    BY <1>3, <2>0 DEF StartRecordLog, StartReader, StartInv
  <2>2. \A b \in Cats : b # StartOrder[di] => g_p'[b] = g_p[b]
    BY <1>3 DEF StartRecordLog, StartReader
  <2>3. dpc' = "start" => di' = di + 1
    BY <1>3 DEF StartRecordLog, Advance
  <2>4. dpc' = "start" => \A j \in di'..Len(StartOrder) : ~g_p'[StartOrder[j]]
    <3> SUFFICES ASSUME dpc' = "start", NEW j \in (di + 1)..Len(StartOrder)
                 PROVE  ~g_p'[StartOrder[j]]
      BY <2>3
    <3>1. j \in 1..Len(StartOrder) /\ j \in di..Len(StartOrder) /\ j # di
      BY <2>0, OrderLen
    <3>2. StartOrder[j] \in Cats /\ StartOrder[j] # StartOrder[di]
      BY <2>0, <3>1, OrderAssumption
    <3> QED BY <1>3, <2>2, <3>1, <3>2 DEF StartRecordLog, StartInv
  <2>5. dpc' \in {"start", "snap"} BY <1>3 DEF StartRecordLog, Advance
  <2> QED BY <2>1, <2>4, <2>5 DEF StartInv
<1>4. CASE CallbackOn
  <2>1. PollOrder[di] \in Cats
    BY <1>4, OrderIndex, OrderAssumption DEF CallbackOn, PositionOK
  <2>2. dpc' \in {"poll", "root"} BY <1>4 DEF CallbackOn, Advance
  <2> QED BY <1>4, <2>1, <2>2 DEF CallbackOn, StartReader, StartInv
<1>5. CASE Detect /\ ~CheckMemorySafe /\ ~StartRecordLog /\ ~CallbackOn
  <2>1. UNCHANGED <<rpc, g_p>>
    BY <1>5 DEF Detect, SnapProp, SnapRoot, PollSame, PollOn, PollOff, CallbackOff, OffClose,
           OffStore, PollRoot, SpinWrite, SpinHoisted, PathClose, PathStore, SetAllLogDir,
           ResetLogPath
  <2>2. dpc' \notin {"init", "start"}
    BY <1>5 DEF Detect, SnapProp, SnapRoot, PollSame, PollOn, PollOff, CallbackOff, OffClose,
           OffStore, PollRoot, SpinWrite, SpinHoisted, PathClose, PathStore, SetAllLogDir,
           ResetLogPath, Advance
  <2> QED BY <2>1, <2>2 DEF StartInv
<1>6. CASE (\E c \in Cats : SetProp(c)) \/ (\E r \in Roots : SetRoot(r)) \/ UNCHANGED vars
  BY <1>6 DEF SetProp, SetRoot, control, vars, StartInv
<1> QED BY <1>1, <1>2, <1>3, <1>4, <1>5, <1>6 DEF Next

\* A step of a reader that touches neither its file nor the table.
LEMMA QuietStep ==
  ASSUME FileInv, NEW c \in Cats, NEW from, NEW to, RGoto(c, from, to),
         from \in HoldStates, to \in HoldStates,
         UNCHANGED <<gfd, rfd, szPath, fdTable>>
  PROVE  FdInv' /\ OwnInv'
<1> USE DEF FileInv, TypeOK, RGoto, HoldStates, TransitStates
<1>1. FdInv' BY DEF FdInv
<1>2. ASSUME NEW b \in Cats, NEW n \in Fds, Owns(b, n) PROVE Owns(b, n)' BY <1>2 DEF Owns
<1>3. OwnInv' BY <1>2 DEF OwnInv
<1> QED BY <1>1, <1>3

\* A reader closes the file it holds, if any.
LEMMA CloseStep ==
  ASSUME FileInv, NEW c \in Cats, NEW from, NEW to, RGoto(c, from, to),
         from \in HoldStates, to \in RStates, to \notin HoldStates, to \notin TransitStates,
         fdTable' = Closelogfd(gfd[c]),
         UNCHANGED <<gfd, rfd, szPath>>
  PROVE  FdInv' /\ OwnInv'
<1> USE DEF FileInv, TypeOK, RGoto
<1>0. 0 \in Fds BY SetAssumption DEF Fds
<1>1. ASSUME NEW b \in Cats, b # c, NEW n \in Fds, fdTable[n] = FileOf(b, szPath[b])
      PROVE  fdTable'[n] = fdTable[n]
  <2>1. n # gfd[c] \/ gfd[c] = 0
    BY <1>1, FileFacts DEF FdInv
  <2> QED BY <1>1, <2>1 DEF Closelogfd, Close
<1>2. fdTable'[0] = Stdin BY <1>0 DEF FdInv, Closelogfd, Close
<1>3. FdInv'
  <2>1. ASSUME NEW b \in Cats, rpc'[b] \in HoldStates, gfd'[b] # 0
        PROVE  fdTable'[gfd'[b]] = FileOf(b, szPath'[b])
    BY <1>1, <2>1 DEF FdInv
  <2>2. ASSUME NEW b \in Cats, rpc'[b] \in TransitStates
        PROVE  rfd'[b] # 0 /\ fdTable'[rfd'[b]] = FileOf(b, szPath'[b])
    BY <1>1, <2>2 DEF FdInv
  <2> QED BY <1>2, <2>1, <2>2 DEF FdInv
<1>4. ASSUME NEW n \in Fds \ {0}, fdTable'[n] # Free PROVE \E b \in Cats : Owns(b, n)'
  <2>1. fdTable[n] # Free /\ (gfd[c] # 0 => n # gfd[c])
    BY <1>4 DEF Closelogfd, Close
  <2>2. PICK b \in Cats : Owns(b, n) BY <2>1 DEF OwnInv
  <2>3. b # c BY <2>1, <2>2 DEF Owns, HoldStates, TransitStates
  <2> QED BY <2>2, <2>3 DEF Owns
<1> QED BY <1>3, <1>4 DEF OwnInv

\* A reader opens the lowest free descriptor for its own file.
LEMMA OpenStep ==
  ASSUME FileInv, NEW c \in Cats, NEW d \in Roots, NEW from, NEW to \in TransitStates,
         OpenFile(c, d, from, to), from \notin HoldStates, from \notin TransitStates,
         szPath' = [szPath EXCEPT ![c] = d],
         UNCHANGED gfd
  PROVE  FdInv' /\ OwnInv'
<1> USE DEF FileInv, TypeOK, RGoto
<1>0. 0 \in Fds BY SetAssumption DEF Fds
<1>1. CASE FreeFds = {} /\ rpc[c] = from /\ UNCHANGED <<rpc, rfd, fdTable>>
  <2>1. FdInv' BY <1>1 DEF FdInv
  <2>2. ASSUME NEW b \in Cats, NEW n \in Fds, Owns(b, n) PROVE Owns(b, n)' BY <1>1, <2>2 DEF Owns
  <2> QED BY <1>1, <2>1, <2>2 DEF OwnInv
<1>2. ASSUME NEW n \in Fds, IsLowestFree(n), RGoto(c, from, to),
             rfd' = [rfd EXCEPT ![c] = n],
             fdTable' = [fdTable EXCEPT ![n] = FileOf(c, d)]
      PROVE  FdInv' /\ OwnInv'
  <2>1. fdTable[n] = Free /\ n # 0 BY <1>2, TableAssumption DEF IsLowestFree, FreeFds, FdInv
  <2>2. ASSUME NEW b \in Cats, b # c, NEW m \in Fds, fdTable[m] = FileOf(b, szPath[b])
        PROVE  fdTable'[m] = fdTable[m]
    BY <1>2, <2>1, <2>2, FileFacts
  <2>3. fdTable'[0] = Stdin BY <1>0, <1>2, <2>1 DEF FdInv
  <2>4. rpc'[c] = to /\ rfd'[c] = n /\ fdTable'[n] = FileOf(c, szPath'[c]) BY <1>2
  <2>5. FdInv'
    <3>1. ASSUME NEW b \in Cats, rpc'[b] \in HoldStates, gfd'[b] # 0
          PROVE  fdTable'[gfd'[b]] = FileOf(b, szPath'[b])
      <4>1. b # c BY <2>4, <3>1 DEF HoldStates, TransitStates
      <4> QED BY <1>2, <2>2, <3>1, <4>1 DEF FdInv
    <3>2. ASSUME NEW b \in Cats, rpc'[b] \in TransitStates
          PROVE  rfd'[b] # 0 /\ fdTable'[rfd'[b]] = FileOf(b, szPath'[b])
      <4>1. CASE b = c BY <2>1, <2>4, <4>1
      <4>2. CASE b # c BY <1>2, <2>2, <3>2, <4>2 DEF FdInv
      <4> QED BY <4>1, <4>2
    <3> QED BY <2>3, <3>1, <3>2 DEF FdInv
  <2>6. ASSUME NEW m \in Fds \ {0}, fdTable'[m] # Free PROVE \E b \in Cats : Owns(b, m)'
    <3>1. CASE m = n BY <2>4, <3>1 DEF Owns
    <3>2. CASE m # n
      <4>1. fdTable[m] # Free BY <1>2, <2>6, <3>2
      <4>2. PICK b \in Cats : Owns(b, m) BY <4>1 DEF OwnInv
      <4>3. b # c BY <1>2, <4>2 DEF Owns
      <4> QED BY <1>2, <4>2, <4>3 DEF Owns
    <3> QED BY <3>1, <3>2
  <2> QED BY <2>5, <2>6 DEF OwnInv
<1> QED BY <1>1, <1>2 DEF OpenFile

\* The result of open() is stored in g*fd.
LEMMA AssignStep ==
  ASSUME FileInv, NEW c \in Cats, NEW from, NEW to, RGoto(c, from, to),
         from \in TransitStates, to \in HoldStates,
         gfd' = [gfd EXCEPT ![c] = rfd[c]], rfd' = [rfd EXCEPT ![c] = 0],
         UNCHANGED <<szPath, fdTable>>
  PROVE  FdInv' /\ OwnInv'
<1> USE DEF FileInv, TypeOK, RGoto
<1>1. ~(to \in TransitStates) BY DEF HoldStates, TransitStates
<1>2. FdInv' BY <1>1 DEF FdInv
<1>3. ASSUME NEW n \in Fds \ {0}, fdTable'[n] # Free PROVE \E b \in Cats : Owns(b, n)'
  <2>1. PICK b \in Cats : Owns(b, n) BY <1>3 DEF OwnInv
  <2>2. CASE b = c
    <3>1. rfd[c] = n BY <2>1, <2>2 DEF Owns, HoldStates, TransitStates
    <3> QED BY <2>2, <3>1 DEF Owns
  <2>3. CASE b # c BY <2>1, <2>3 DEF Owns
  <2> QED BY <2>2, <2>3
<1> QED BY <1>2, <1>3 DEF OwnInv

\* 0 is stored in g*fd after the close.
LEMMA ZeroStep ==
  ASSUME FileInv, NEW c \in Cats, NEW from, NEW to, RGoto(c, from, to),
         from \notin HoldStates, from \notin TransitStates, to \notin TransitStates,
         gfd' = [gfd EXCEPT ![c] = 0], UNCHANGED <<rfd, szPath, fdTable>>
  PROVE  FdInv' /\ OwnInv'
<1> USE DEF FileInv, TypeOK, RGoto
<1>0. 0 \in Fds BY SetAssumption DEF Fds
<1>1. FdInv' BY <1>0 DEF FdInv
<1>2. ASSUME NEW n \in Fds \ {0}, fdTable'[n] # Free PROVE \E b \in Cats : Owns(b, n)'
  <2>1. PICK b \in Cats : Owns(b, n) BY <1>2 DEF OwnInv
  <2>2. b # c BY <2>1 DEF Owns
  <2> QED BY <2>1, <2>2 DEF Owns
<1> QED BY <1>1, <1>2 DEF OwnInv

LEMMA ReadFd ==
  ASSUME FileInv, NEW c \in Cats, Read(c) \/ Eof(c)
  PROVE  FdInv' /\ OwnInv'
<1>0. szPath = [szPath EXCEPT ![c] = szPath[c]] /\ szPath[c] \in Roots /\ gszLogDir[c] \in Roots
  BY DEF FileInv, TypeOK
<1>1. CASE Fgets(c) \/ TestChange(c) \/ MarkWrite(c) \/ WriteLine(c)
  BY <1>1, QuietStep DEF Fgets, TestChange, MarkWrite, WriteLine, HoldStates
<1>2. CASE TestFd(c) \/ UnmarkWrite(c) \/ ReopenClear(c)
  BY <1>2, QuietStep DEF TestFd, UnmarkWrite, ReopenClear, AfterLine, HoldStates
<1>3. CASE Eof(c) BY <1>3, QuietStep DEF Eof, HoldStates
<1>4. CASE ReopenClose(c)
  BY <1>4, CloseStep DEF ReopenClose, HoldStates, TransitStates, RStates
<1>5. CASE ReopenOpen(c)
  <2>1. /\ OpenFile(c, gszLogDir[c], "open", "assign") /\ UNCHANGED gfd
        /\ szPath' = [szPath EXCEPT ![c] = gszLogDir[c]]
    BY <1>5 DEF ReopenOpen
  <2>2. "open" \notin HoldStates /\ "open" \notin TransitStates /\ "assign" \in TransitStates
    BY DEF HoldStates, TransitStates
  <2> QED BY <1>0, <2>1, <2>2, OpenStep
<1>6. CASE ReopenAssign(c)
  BY <1>6, AssignStep DEF ReopenAssign, HoldStates, TransitStates
<1>7. CASE RotateClose(c)
  <2>1. gfd[c] # 0 BY <1>7 DEF RotateClose, RGoto, FileInv, LocalInv
  <2>2. fdTable' = Closelogfd(gfd[c]) BY <1>7, <2>1 DEF RotateClose, Closelogfd
  <2> QED BY <1>7, <2>2, CloseStep DEF RotateClose, HoldStates, TransitStates, RStates
<1>8. CASE RotateOpen(c)
  BY <1>0, <1>8, OpenStep DEF RotateOpen, HoldStates, TransitStates
<1>9. CASE RotateAssign(c)
  BY <1>9, AssignStep DEF RotateAssign, HoldStates, TransitStates
<1>10. CASE CloseLog(c)
  BY <1>10, CloseStep DEF CloseLog, HoldStates, TransitStates, RStates
<1>11. CASE CloseStore(c)
  BY <1>11, ZeroStep DEF CloseStore, HoldStates, TransitStates
<1> QED BY <1>1, <1>2, <1>3, <1>4, <1>5, <1>6, <1>7, <1>8, <1>9, <1>10, <1>11 DEF Read

LEMMA ReadLocal ==
  ASSUME FileInv, NEW c \in Cats, Read(c) \/ Eof(c)
  PROVE  LocalInv'
<1> USE DEF FileInv, TypeOK, RGoto, LocalInv
<1>0. MaxLines \in Nat \ {0} BY SetAssumption
<1>1. CASE Fgets(c) \/ TestChange(c) \/ ReopenClose(c) \/ ReopenClear(c) \/ Eof(c)
  BY <1>1 DEF Fgets, TestChange, ReopenClose, ReopenClear, Eof
<1>2. CASE ReopenOpen(c) BY <1>2 DEF ReopenOpen, OpenFile
<1>3. CASE ReopenAssign(c)
  <2>1. fdTable[rfd[c]] = FileOf(c, szPath[c])
    BY <1>3 DEF ReopenAssign, FdInv, TransitStates
  <2> QED BY <1>0, <1>3, <2>1 DEF ReopenAssign
<1>4. CASE TestFd(c) \/ MarkWrite(c) BY <1>0, <1>4 DEF TestFd, MarkWrite, AfterLine
<1>5. CASE WriteLine(c) BY <1>0, <1>5 DEF WriteLine
<1>6. CASE UnmarkWrite(c) BY <1>0, <1>6 DEF UnmarkWrite, AfterLine
<1>7. CASE RotateClose(c) BY <1>7 DEF RotateClose
<1>8. CASE RotateOpen(c) BY <1>8 DEF RotateOpen, OpenFile
<1>9. CASE RotateAssign(c) BY <1>0, <1>9 DEF RotateAssign
<1>10. CASE CloseLog(c) BY <1>10 DEF CloseLog
<1>11. CASE CloseStore(c) BY <1>11 DEF CloseStore
<1> QED BY <1>1, <1>2, <1>3, <1>4, <1>5, <1>6, <1>7, <1>8, <1>9, <1>10, <1>11 DEF Read

\* A reader that did not exist starts with nothing open.
LEMMA StartStep ==
  ASSUME FileInv, NEW c \in Cats, ~g_p[c], StartReader(c),
         UNCHANGED <<gfd, rfd, szPath, fdTable, byteCount>>
  PROVE  FdInv' /\ OwnInv' /\ LocalInv'
<1> USE DEF FileInv, TypeOK, StartReader
<1>0. rpc[c] = "off" /\ gfd[c] = 0 BY DEF StartInv, LocalInv
<1>1. FdInv' BY <1>0 DEF FdInv, HoldStates, TransitStates
<1>2. ASSUME NEW b \in Cats, NEW n \in Fds, Owns(b, n) PROVE Owns(b, n)'
  BY <1>0, <1>2 DEF Owns, HoldStates, TransitStates
<1>3. OwnInv' BY <1>2 DEF OwnInv
<1>4. LocalInv' BY <1>0 DEF LocalInv
<1> QED BY <1>1, <1>3, <1>4

\* Steps of the main thread, and writes of the properties, that start no reader.
LEMMA CalmStep ==
  ASSUME FileInv, UNCHANGED <<gfd, rfd, szPath, fdTable, byteCount, rpc>>
  PROVE  FdInv' /\ OwnInv' /\ LocalInv'
BY DEF FileInv, FdInv, OwnInv, Owns, LocalInv

LEMMA DetectFile ==
  ASSUME FileInv, Spared, Detect
  PROVE  FdInv' /\ OwnInv' /\ LocalInv'
<1> USE DEF FileInv, reader
<1>1. CASE StartRecordLog
  <2>1. StartOrder[di] \in Cats /\ ~g_p[StartOrder[di]]
    BY <1>1, OrderIndex, OrderAssumption, OrderLen DEF StartRecordLog, TypeOK, PositionOK, StartInv
  <2>2. CASE StartReader(StartOrder[di])
    BY <1>1, <2>1, <2>2, StartStep DEF StartRecordLog
  <2>3. CASE UNCHANGED <<gbChange, gbEnable, g_p, rpc>>
    BY <1>1, <2>3, CalmStep DEF StartRecordLog
  <2> QED BY <1>1, <2>2, <2>3 DEF StartRecordLog
<1>2. CASE CallbackOn
  <2>1. PollOrder[di] \in Cats
    BY <1>2, OrderIndex, OrderAssumption DEF CallbackOn, TypeOK, PositionOK
  <2>2. CASE ~g_p[PollOrder[di]] /\ StartReader(PollOrder[di])
    BY <1>2, <2>1, <2>2, StartStep DEF CallbackOn
  <2>3. CASE UNCHANGED <<gbChange, g_p, rpc>>
    BY <1>2, <2>3, CalmStep DEF CallbackOn
  <2> QED BY <1>2, <2>2, <2>3 DEF CallbackOn
<1>3. CASE CheckMemorySafe \/ SnapProp \/ SnapRoot \/ PollSame \/ PollOn \/ PollOff \/ CallbackOff
           \/ PollRoot \/ SpinWrite \/ SpinHoisted \/ SetAllLogDir \/ ResetLogPath
  BY <1>3, CalmStep DEF CheckMemorySafe, SnapProp, SnapRoot, PollSame, PollOn, PollOff, CallbackOff,
                        PollRoot, SpinWrite, SpinHoisted, SetAllLogDir, ResetLogPath
<1>4. CASE OffClose \/ PathClose
  <2>1. fdTable' = fdTable BY <1>4 DEF OffClose, PathClose, Closelogfd, Spared
  <2> QED BY <1>4, <2>1, CalmStep DEF OffClose, PathClose
<1>5. CASE OffStore \/ PathStore
  <2>1. gfd' = gfd BY <1>5 DEF OffStore, PathStore, Spared, TypeOK
  <2> QED BY <1>5, <2>1, CalmStep DEF OffStore, PathStore
<1> QED BY <1>1, <1>2, <1>3, <1>4, <1>5 DEF Detect

LEMMA NextFileInv == FileInv /\ [Next]_vars /\ [Spared]_vars => FileInv'
<1> SUFFICES ASSUME FileInv, [Next]_vars, [Spared]_vars PROVE FileInv' OBVIOUS
<1>0. TypeOK' /\ StartInv' BY NextTypeOK, StartStepInv DEF FileInv
<1>1. CASE UNCHANGED vars
      \/ (\E c \in Cats : SetProp(c)) \/ (\E r \in Roots : SetRoot(r))
  BY <1>0, <1>1, CalmStep DEF SetProp, SetRoot, reader, vars, FileInv
<1>2. CASE Detect /\ Spared BY <1>0, <1>2, DetectFile DEF FileInv
<1>3. CASE \E c \in Cats : Read(c) \/ Eof(c) BY <1>0, <1>3, ReadFd, ReadLocal DEF FileInv
<1> QED BY <1>1, <1>2, <1>3 DEF Next

LEMMA FileInvariant == Spec /\ PollerSpares => []FileInv
<1>1. Init => FileInv BY InitTypeOK, InitFileInv DEF FileInv
<1> QED BY <1>1, NextFileInv, PTL DEF Spec, PollerSpares

\* Every write reaches the writer's own file for as long as the main thread closes
\* none that a category holds, for any number of categories and storage roots and
\* whichever categories close when they are stopped: whatever goes wrong with the
\* descriptors starts with a close of the main thread.
THEOREM OwnershipHolds == Spec /\ PollerSpares => []WriteToOwnFile
<1>1. FileInv => WriteToOwnFile
  BY DEF FileInv, WriteToOwnFile, FdInv, LocalInv, HoldStates
<1> QED BY <1>1, FileInvariant, PTL

\* And neither rotation, nor reopening, nor closing leaks a descriptor.
THEOREM NothingLeaks == Spec /\ PollerSpares => []NoLeak
<1>1. FileInv => NoLeak BY DEF FileInv, NoLeak, OwnInv, Owns, TransitStates
<1> QED BY <1>1, FileInvariant, PTL

(***************************************************************************)
(* The configurations in which the main thread has nothing to close: no    *)
(* category closes when it is stopped and the storage root stays the same. *)
(***************************************************************************)
Solo == ClosesOnStop = {} /\ \A r, q \in Roots : r = q

SoloInv ==
  dpc \notin {"offclose", "offstore", "spin", "stuck", "pclose", "pstore", "setdir", "setchange"}

LEMMA SoloStep == Solo /\ TypeOK /\ SoloInv /\ [Next]_vars => SoloInv' /\ [Spared]_vars
<1> SUFFICES ASSUME Solo, TypeOK, SoloInv, [Next]_vars PROVE SoloInv' /\ [Spared]_vars OBVIOUS
<1>1. [Spared]_vars BY DEF Spared, SoloInv, OffClose, OffStore, PathClose, PathStore, DGoto
<1>2. SoloInv'
  <2>1. CASE ~Detect
    <3>1. dpc' = dpc BY <2>1, OthersKeep DEF Next
    <3> QED BY <3>1 DEF SoloInv
  <2>2. CASE PollRoot
    <3>1. rootProp \in Roots /\ szlogRoot \in Roots BY DEF TypeOK
    <3>2. dpc' = "poll" BY <2>2, <3>1 DEF PollRoot, Solo
    <3> QED BY <3>2 DEF SoloInv
  <2>3. CASE CheckMemorySafe \/ StartRecordLog \/ SnapProp \/ SnapRoot \/ PollSame \/ PollOn
             \/ CallbackOn \/ PollOff \/ CallbackOff
    <3>1. dpc' \in {"start", "snap", "snaproot", "poll", "root", "on", "off"}
      BY <2>3 DEF CheckMemorySafe, StartRecordLog, SnapProp, SnapRoot, PollSame, PollOn,
                  CallbackOn, PollOff, CallbackOff, Advance, DGoto, Solo
    <3> QED BY <3>1 DEF SoloInv
  <2>4. CASE OffClose \/ OffStore \/ SpinWrite \/ SpinHoisted \/ PathClose \/ PathStore
             \/ SetAllLogDir \/ ResetLogPath
    BY <2>4 DEF SoloInv, OffClose, OffStore, SpinWrite, SpinHoisted, PathClose, PathStore,
                SetAllLogDir, ResetLogPath, DGoto
  <2> QED BY <2>1, <2>2, <2>3, <2>4 DEF Detect
<1> QED BY <1>1, <1>2

\* In such a configuration the main thread spares every file, so what holds while it
\* spares them holds of all of its behaviours.
THEOREM SoloSpares == Solo => (Spec => PollerSpares)
<1> SUFFICES ASSUME Solo PROVE Spec => PollerSpares OBVIOUS
<1>1. Init => SoloInv BY DEF Init, SoloInv
<1> QED BY <1>1, SoloStep, TypeCorrect, PTL DEF Spec, PollerSpares

(***************************************************************************)
(* Where a descriptor can be lost, in every configuration.                 *)
(***************************************************************************)
\* A step loses nothing that opens only what a reader then owns, and after which
\* every reader owns what it owned before, unless it was closed.
LEMMA LossStep ==
  ASSUME \A n \in Fds \ {0} : fdTable'[n] # Free /\ fdTable[n] = Free => \E b \in Cats : Owns(b, n)',
         \A b \in Cats, n \in Fds \ {0} : Owns(b, n) /\ fdTable'[n] # Free => Owns(b, n)'
  PROVE  Lost' \subseteq Lost
BY DEF Lost

\* A close frees a number, and changes nothing else in the table.
LEMMA CloseFrees ==
  ASSUME TypeOK, NEW c \in Cats,
         fdTable' = Close(gfd[c]) \/ fdTable' = Closelogfd(gfd[c]), NEW n \in Fds \ {0}
  PROVE  /\ fdTable'[n] # Free => fdTable[n] # Free /\ n # gfd[c]
BY DEF TypeOK, Close, Closelogfd

LEMMA ReadLoss ==
  ASSUME TypeOK, NEW c \in Cats, Read(c) \/ Eof(c)
  PROVE  Lost' \subseteq Lost
<1> USE DEF TypeOK, RGoto
<1>1. CASE Fgets(c) \/ TestChange(c) \/ MarkWrite(c) \/ WriteLine(c) \/ TestFd(c)
           \/ UnmarkWrite(c) \/ ReopenClear(c) \/ Eof(c)
  <2>1. UNCHANGED <<gfd, rfd, fdTable>> /\ rpc[c] \in HoldStates /\ rpc'[c] \in HoldStates
    BY <1>1 DEF Fgets, TestChange, MarkWrite, WriteLine, TestFd, UnmarkWrite, ReopenClear,
                Eof, AfterLine, HoldStates
  <2>2. \A b \in Cats : b # c => rpc'[b] = rpc[b]
    BY <1>1 DEF Fgets, TestChange, MarkWrite, WriteLine, TestFd, UnmarkWrite, ReopenClear, Eof
  <2>3. \A b \in Cats, n \in Fds \ {0} : Owns(b, n) => Owns(b, n)'
    BY <2>1, <2>2 DEF Owns, HoldStates, TransitStates
  <2> QED BY <2>1, <2>3, LossStep
<1>2. CASE ReopenClose(c) \/ RotateClose(c) \/ CloseLog(c)
  <2>1. /\ UNCHANGED <<gfd, rfd>> /\ rpc[c] \in HoldStates
        /\ fdTable' = Close(gfd[c]) \/ fdTable' = Closelogfd(gfd[c])
        /\ \A b \in Cats : b # c => rpc'[b] = rpc[b]
    BY <1>2 DEF ReopenClose, RotateClose, CloseLog, HoldStates
  <2>2. \A b \in Cats, n \in Fds \ {0} : Owns(b, n) /\ fdTable'[n] # Free => Owns(b, n)'
    BY <2>1, CloseFrees DEF Owns, HoldStates, TransitStates
  <2> QED BY <2>1, <2>2, CloseFrees, LossStep
<1>3. CASE ReopenOpen(c) \/ RotateOpen(c)
  <2>0. PICK d, from, to : /\ OpenFile(c, d, from, to) /\ UNCHANGED gfd
                           /\ from \in {"open", "rotopen"} /\ to \in TransitStates
    BY <1>3 DEF ReopenOpen, RotateOpen, TransitStates
  <2>1. CASE UNCHANGED <<rpc, rfd, fdTable>> BY <2>0, <2>1 DEF Lost, Owns
  <2>2. CASE \E n \in Fds : /\ IsLowestFree(n) /\ RGoto(c, from, to)
                            /\ rfd' = [rfd EXCEPT ![c] = n]
                            /\ fdTable' = [fdTable EXCEPT ![n] = FileOf(c, d)]
    <3>1. PICK n \in Fds : /\ RGoto(c, from, to) /\ rfd' = [rfd EXCEPT ![c] = n]
                           /\ fdTable' = [fdTable EXCEPT ![n] = FileOf(c, d)]
      BY <2>2
    <3>2. Owns(c, n)' BY <2>0, <3>1 DEF Owns
    <3>3. \A m \in Fds \ {0} : m # n => fdTable'[m] = fdTable[m] BY <3>1
    <3>4. \A b \in Cats, m \in Fds \ {0} : Owns(b, m) => Owns(b, m)'
      BY <2>0, <3>1 DEF Owns, HoldStates, TransitStates
    <3> QED BY <3>2, <3>3, <3>4, LossStep
  <2> QED BY <2>0, <2>1, <2>2 DEF OpenFile
<1>4. CASE ReopenAssign(c) \/ RotateAssign(c)
  <2>1. /\ gfd' = [gfd EXCEPT ![c] = rfd[c]] /\ rfd' = [rfd EXCEPT ![c] = 0]
        /\ UNCHANGED fdTable /\ rpc[c] \in TransitStates /\ rpc'[c] \in HoldStates
        /\ \A b \in Cats : b # c => rpc'[b] = rpc[b]
    BY <1>4 DEF ReopenAssign, RotateAssign, HoldStates, TransitStates
  <2>2. \A b \in Cats, n \in Fds \ {0} : Owns(b, n) => Owns(b, n)'
    BY <2>1 DEF Owns, HoldStates, TransitStates
  <2> QED BY <2>1, <2>2, LossStep
<1>5. CASE CloseStore(c)
  <2>1. /\ gfd' = [gfd EXCEPT ![c] = 0] /\ UNCHANGED <<rfd, fdTable>>
        /\ rpc[c] \notin HoldStates \cup TransitStates
        /\ \A b \in Cats : b # c => rpc'[b] = rpc[b]
    BY <1>5 DEF CloseStore, HoldStates, TransitStates
  <2>2. \A b \in Cats, n \in Fds \ {0} : Owns(b, n) => Owns(b, n)'
    BY <2>1 DEF Owns, HoldStates, TransitStates
  <2> QED BY <2>1, <2>2, LossStep
<1> QED BY <1>1, <1>2, <1>3, <1>4, <1>5 DEF Read

LEMMA DetectLoss ==
  ASSUME TypeOK, StartInv, Detect, NEW n \in Lost', n \notin Lost
  PROVE  \/ PathStore /\ gfd[CloseOrder[di]] = n
         \/ OffStore /\ gfd[PollOrder[di]] = n
<1> USE DEF TypeOK, reader, DGoto
<1>0. n \in Fds \ {0} /\ fdTable'[n] # Free /\ \A b \in Cats : ~Owns(b, n)' BY DEF Lost
<1>1. CASE CheckMemorySafe \/ SnapProp \/ SnapRoot \/ PollSame \/ PollOn \/ PollOff \/ CallbackOff
           \/ PollRoot \/ SpinWrite \/ SpinHoisted \/ SetAllLogDir \/ ResetLogPath
  <2>1. UNCHANGED <<gfd, rfd, rpc, fdTable>>
    BY <1>1 DEF CheckMemorySafe, SnapProp, SnapRoot, PollSame, PollOn, PollOff, CallbackOff,
                PollRoot, SpinWrite, SpinHoisted, SetAllLogDir, ResetLogPath
  <2> QED BY <2>1 DEF Lost, Owns
<1>2. CASE StartRecordLog \/ CallbackOn
  <2>0. PICK c \in Cats : \/ ~g_p[c] /\ StartReader(c)
                          \/ UNCHANGED rpc
    <3>1. CASE StartRecordLog
      <4>1. StartOrder[di] \in Cats /\ ~g_p[StartOrder[di]]
        BY <3>1, OrderIndex, OrderAssumption, OrderLen DEF StartRecordLog, PositionOK, StartInv
      <4> QED BY <3>1, <4>1 DEF StartRecordLog
    <3>2. CASE CallbackOn
      <4>1. PollOrder[di] \in Cats
        BY <3>2, OrderIndex, OrderAssumption DEF CallbackOn, PositionOK
      <4> QED BY <3>2, <4>1 DEF CallbackOn
    <3> QED BY <1>2, <3>1, <3>2
  <2>1. UNCHANGED <<gfd, rfd, fdTable>> BY <1>2 DEF StartRecordLog, CallbackOn
  <2>2. \A b \in Cats : rpc'[b] = rpc[b] \/ rpc[b] = "off"
    BY <2>0 DEF StartReader, StartInv
  <2>3. \A b \in Cats : Owns(b, n) => Owns(b, n)'
    BY <2>1, <2>2 DEF Owns, HoldStates, TransitStates
  <2> QED BY <1>0, <2>1, <2>3 DEF Lost
<1>3. CASE OffClose \/ PathClose
  <2>0. PICK c \in Cats : fdTable' = Closelogfd(gfd[c]) /\ UNCHANGED <<gfd, rfd, rpc>>
    <3>1. CASE OffClose
      <4>1. PollOrder[di] \in Cats
        BY <3>1, OrderIndex, OrderAssumption DEF OffClose, PositionOK
      <4> QED BY <3>1, <4>1 DEF OffClose
    <3>2. CASE PathClose
      <4>1. CloseOrder[di] \in Cats
        BY <3>2, OrderIndex, OrderAssumption DEF PathClose, PositionOK
      <4> QED BY <3>2, <4>1 DEF PathClose
    <3> QED BY <1>3, <3>1, <3>2
  <2>1. fdTable[n] # Free BY <1>0, <2>0, CloseFrees
  <2> QED BY <1>0, <2>0, <2>1 DEF Lost, Owns
<1>4. CASE OffStore \/ PathStore
  <2>0. PICK c \in Cats : /\ gfd' = [gfd EXCEPT ![c] = 0] /\ UNCHANGED <<rfd, rpc, fdTable>>
                          /\ \/ OffStore /\ c = PollOrder[di]
                             \/ PathStore /\ c = CloseOrder[di]
    <3>1. CASE OffStore
      <4>1. PollOrder[di] \in Cats
        BY <3>1, OrderIndex, OrderAssumption DEF OffStore, PositionOK
      <4> QED BY <3>1, <4>1 DEF OffStore
    <3>2. CASE PathStore
      <4>1. CloseOrder[di] \in Cats
        BY <3>2, OrderIndex, OrderAssumption DEF PathStore, PositionOK
      <4> QED BY <3>2, <4>1 DEF PathStore
    <3> QED BY <1>4, <3>1, <3>2
  <2>1. PICK b \in Cats : Owns(b, n) BY <1>0, <2>0 DEF Lost
  <2>2. b = c /\ gfd[c] = n BY <1>0, <2>0, <2>1 DEF Owns
  <2> QED BY <2>0, <2>2
<1> QED BY <1>1, <1>2, <1>3, <1>4 DEF Detect


LEMMA NextLoss ==
  ASSUME TypeOK, StartInv, [Next]_vars, NEW n \in Lost' \ Lost
  PROVE  \/ PathStore /\ gfd[CloseOrder[di]] = n
         \/ OffStore /\ gfd[PollOrder[di]] = n
<1>1. CASE Detect BY <1>1, DetectLoss
<1>2. CASE \E c \in Cats : Read(c) \/ Eof(c) BY <1>2, ReadLoss
<1>3. CASE (\E c \in Cats : SetProp(c)) \/ (\E r \in Roots : SetRoot(r)) \/ UNCHANGED vars
  BY <1>3 DEF SetProp, SetRoot, reader, vars, Lost, Owns
<1> QED BY <1>1, <1>2, <1>3 DEF Next

\* In every configuration, and whatever the readers do in between, a descriptor is
\* lost only by the assignment g*fd = 0 that follows a close in detectProp's
\* callback, when the number in that g*fd is open again.
THEOREM LossByStore == Spec => LosesByStore
<1>1. Init => StartInv BY InitFileInv
<1>2. TypeOK /\ StartInv /\ [Next]_vars =>
        [\A n \in Lost' \ Lost : \/ PathStore /\ gfd[CloseOrder[di]] = n
                                 \/ OffStore /\ gfd[PollOrder[di]] = n]_vars
  BY NextLoss
<1> QED BY <1>1, <1>2, StartStepInv, TypeCorrect, PTL DEF Spec, LosesByStore

\* A reader owns at most one descriptor, and the one that opens owns none.
LEMMA OwnsOne ==
  ASSUME NEW c \in Cats, NEW m, NEW n, Owns(c, m), Owns(c, n)
  PROVE  m = n
BY DEF Owns, HoldStates, TransitStates

\* When no number is free, those that are not lost are held by the readers that do
\* not open: fewer than one for each category.
LEMMA HeldCount ==
  ASSUME TypeOK, IsFiniteSet(Cats), FreeFds = {},
         NEW c \in Cats, rpc[c] \in {"open", "rotopen"}
  PROVE  Cardinality(Lost) + Cardinality(Cats) > MaxFd
<1> DEFINE S == 1..MaxFd
           T == Cats \ {c}
           Held == S \ Lost
           f == [n \in Held |-> CHOOSE b \in Cats : Owns(b, n)]
<1>0. MaxFd \in Nat BY SetAssumption
<1>1. S = Fds \ {0} /\ Lost \subseteq S BY <1>0 DEF Fds, Lost
<1>2. \A n \in S : fdTable[n] # Free BY <1>1 DEF FreeFds
<1>3. \A n \in Held : \E b \in Cats : Owns(b, n) BY <1>1, <1>2 DEF Lost
<1>4. \A n \in Held : f[n] \in Cats /\ Owns(f[n], n) BY <1>3
<1>5. \A n \in Held : ~Owns(c, n) BY DEF Owns, HoldStates, TransitStates
<1>6. f \in [Held -> T] BY <1>4, <1>5
<1>7. /\ IsFiniteSet(S) /\ Cardinality(S) = MaxFd
      /\ IsFiniteSet(Lost) /\ IsFiniteSet(Held)
      /\ Cardinality(Held) \in Nat /\ Cardinality(Lost) \in Nat
  <2>1. IsFiniteSet(S) /\ Cardinality(S) = MaxFd BY <1>0, FS_Interval
  <2>2. IsFiniteSet(Lost) /\ IsFiniteSet(Held) BY <1>1, <2>1, FS_Subset
  <2> QED BY <2>1, <2>2, FS_CardinalityType
<1>8. Cardinality(Held) = MaxFd - Cardinality(Lost)
  <2>1. S \cap Lost = Lost BY <1>1
  <2>2. Cardinality(S \ Lost) = Cardinality(S) - Cardinality(S \cap Lost)
    BY <1>7, FS_Difference
  <2> QED BY <1>7, <2>1, <2>2
<1>9. IsFiniteSet(T) /\ Cardinality(T) = Cardinality(Cats) - 1 /\ Cardinality(Cats) \in Nat
  BY FS_RemoveElement, FS_CardinalityType
<1> HIDE DEF f, S, T, Held
<1>10. \A x, y \in Held : f[x] = f[y] => x = y BY <1>4, OwnsOne
<1>11. Cardinality(Held) <= Cardinality(T)
  <2> SUFFICES ASSUME Cardinality(T) < Cardinality(Held) PROVE FALSE BY <1>7, <1>9
  <2> QED BY <1>6, <1>7, <1>9, <1>10, FS_PigeonHole
<1> QED BY <1>0, <1>7, <1>8, <1>9, <1>11

LEMMA ExitStep ==
  ASSUME alive, ~alive', [Next]_vars
  PROVE  FreeFds = {} /\ \E c \in Cats : rpc[c] \in {"open", "rotopen"}
<1>1. CASE Detect
  BY <1>1 DEF Detect, CheckMemorySafe, StartRecordLog, SnapProp, SnapRoot, PollSame, PollOn,
       CallbackOn, PollOff, CallbackOff, OffClose, OffStore, PollRoot, SpinWrite, SpinHoisted,
       PathClose, PathStore, SetAllLogDir, ResetLogPath
<1>2. ASSUME NEW c \in Cats, Read(c) \/ Eof(c)
      PROVE  FreeFds = {} /\ rpc[c] \in {"open", "rotopen"}
  BY <1>2 DEF Read, Fgets, TestChange, ReopenClose, ReopenOpen, ReopenAssign, ReopenClear,
       TestFd, MarkWrite, WriteLine, UnmarkWrite, RotateClose, RotateOpen, RotateAssign,
       CloseLog, CloseStore, Eof, OpenFile
<1>3. CASE (\E c \in Cats : SetProp(c)) \/ (\E r \in Roots : SetRoot(r)) \/ UNCHANGED vars
  BY <1>3 DEF SetProp, SetRoot, vars
<1> QED BY <1>1, <1>2, <1>3 DEF Next

\* exit(-1), for want of a descriptor, comes only after the loss of more than
\* MaxFd - |Cats| of them: by LossByStore, after that many such assignments of the
\* main thread, never because rotation or reopening used descriptors up.
THEOREM ExitByLoss == IsFiniteSet(Cats) => (Spec => ExitsByLoss)
<1> SUFFICES ASSUME IsFiniteSet(Cats) PROVE Spec => ExitsByLoss OBVIOUS
<1>1. TypeOK /\ [Next]_vars =>
        [alive /\ ~alive' => Cardinality(Lost) + Cardinality(Cats) > MaxFd]_vars
  BY ExitStep, HeldCount
<1> QED BY <1>1, TypeCorrect, PTL DEF Spec, ExitsByLoss

\* As long as the main thread spares the files, one descriptor per category is
\* enough: openfile never fails for want of one, and the daemon never takes the
\* exit(-1) of onOpenLogFile and rotateLogs.
THEOREM DaemonStays ==
  IsFiniteSet(Cats) /\ Cardinality(Cats) <= MaxFd => (Spec /\ PollerSpares => []NeverExits)
<1> SUFFICES ASSUME IsFiniteSet(Cats), Cardinality(Cats) <= MaxFd
             PROVE  Spec /\ PollerSpares => []NeverExits
  OBVIOUS
<1>1. Init => NeverExits BY DEF Init, NeverExits
<1>2. FileInv => Cardinality(Lost) = 0
  <2>1. FileInv => Lost = {} BY DEF FileInv, OwnInv, Lost
  <2> QED BY <2>1, FS_EmptySet
<1>3. FileInv /\ NeverExits /\ [Next]_vars => NeverExits'
  <2> SUFFICES ASSUME FileInv, alive, ~alive', [Next]_vars PROVE FALSE
    BY DEF NeverExits, FileInv, TypeOK
  <2>1. Cardinality(Lost) + Cardinality(Cats) > MaxFd BY ExitStep, HeldCount DEF FileInv
  <2>2. MaxFd \in Nat /\ Cardinality(Cats) \in Nat BY SetAssumption, FS_CardinalityType
  <2> QED BY <1>2, <2>1, <2>2
<1> QED BY <1>1, <1>3, FileInvariant, PTL DEF Spec
=============================================================================
