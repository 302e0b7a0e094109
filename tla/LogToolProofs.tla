---------------------------- MODULE LogToolProofs ----------------------------
(***************************************************************************)
(* Proofs about the boot path onto the micro-SD card (BootMount), and at   *)
(* the end about the machines of MCTool together.                          *)
(***************************************************************************)
EXTENDS MCTool, DumpServiceProofs, LogRotationProofs, SequenceTheorems

(***************************************************************************)
(* BootMount: types.                                                       *)
(***************************************************************************)
Roots == {"micro", "internal"}
RSteps == {"off", "line", "handle", "open", "unwait", "unchange"}
TSteps == {"wait", "saved", "root", "flags", "setdir", "create", "locked", "change", "poll", "end"}

\* resetLogPath's list of calls, and the list waitMountRun raises flags from.
LEMMA FlagOrderFacts ==
  /\ FlagOrder \in Seq(LogCats) /\ Len(FlagOrder) \in Nat /\ Calls = 1 + Len(FlagOrder)
  /\ \A i \in 1..Len(FlagOrder) : FlagOrder[i] \in LogCats
  /\ \A c \in LogCats : Len(FlagOrder) > 0
<1>1. FlagOrder \in Seq(LogCats) /\ Len(FlagOrder) = Cardinality(LogCats)
  BY BootMountAssumption
<1>2. Len(FlagOrder) \in Nat /\ \A i \in 1..Len(FlagOrder) : FlagOrder[i] \in LogCats
  BY <1>1
<1>3. \A c \in LogCats : Len(FlagOrder) > 0
  BY <1>2, BootMountAssumption
<1> QED BY <1>1, <1>2, <1>3 DEF Calls

LEMMA BootInitType == BootInit => BootTypeOK
<1> SUFFICES ASSUME BootInit PROVE BootTypeOK
  OBVIOUS
<1>1. 1 \in 1..Calls
  BY FlagOrderFacts
<1>2. /\ tcall \in [Movers -> 1..Calls]
      /\ toggles \in 0..MaxToggles /\ moves \in 0..MaxMoves
  <2>1. tcall \in [Movers -> 1..Calls]
    BY <1>1 DEF BootInit
  <2>2. toggles = 0 /\ moves = 0
    BY DEF BootInit
  <2>3. MaxToggles \in Nat /\ MaxMoves \in Nat
    BY BootMountAssumption
  <2> QED BY <2>1, <2>2, <2>3
<1>3. support \in [LogCats -> BOOLEAN] /\ gbEnable \in [LogCats -> BOOLEAN]
  BY DEF BootInit
<1>4. /\ gbChange \in [LogCats -> BOOLEAN] /\ gbWaitMount \in [LogCats -> BOOLEAN]
      /\ rflag \in [LogCats -> BOOLEAN] /\ saveMicroSD \in [Movers -> BOOLEAN]
      /\ card \in BOOLEAN /\ mountState \in BOOLEAN /\ late \in BOOLEAN
  BY <1>3 DEF BootInit
<1>5. /\ seenEnable \in [LogCats -> BOOLEAN]
      /\ saveDir \in Roots /\ seenRoot \in Roots /\ dynRoot \in Roots
      /\ gszLogRootDir \in Dirs /\ gszLogDir \in [LogCats -> Dirs]
      /\ removed \subseteq Dirs /\ down \in {"no", "exit", "null"}
  BY <1>3 DEF BootInit, Dirs, Roots
<1>6. depth \in [Dirs -> 0..2] /\ tstep \in [Movers -> TSteps]
  <2>1. depth \in [Dirs -> 0..2]
    <3>1. depth = [d \in Dirs |-> IF d = "micro" THEN 0 ELSE 2]
      BY DEF BootInit
    <3>2. 0 \in 0..2 /\ 2 \in 0..2
      OBVIOUS
    <3> QED BY <3>1, <3>2, Zenon
  <2>2. tstep \in [Movers -> TSteps]
    BY DEF BootInit, TSteps
  <2> QED BY <2>1, <2>2
<1>7. /\ rstep \in [LogCats -> RSteps] /\ storePath \in [LogCats -> Dirs \cup {""}]
      /\ boot \in [LogCats -> {"none", "wait", "moved", "lost"}]
  BY DEF BootInit, RSteps
<1> QED BY <1>2, <1>3, <1>4, <1>5, <1>6, <1>7 DEF BootTypeOK, Roots, RSteps, TSteps

LEMMA WorldType == BootTypeOK /\ World => BootTypeOK'
<1> SUFFICES ASSUME BootTypeOK, World PROVE BootTypeOK'
  OBVIOUS
<1>1. UNCHANGED <<flags, paths, disks, reads, movers, lasts, down>>
  BY DEF World
<1>2. /\ support \in [LogCats -> BOOLEAN] /\ saveDir \in {"micro", "internal"}
      /\ card \in BOOLEAN /\ mountState \in BOOLEAN /\ late \in BOOLEAN
      /\ toggles \in 0..MaxToggles /\ moves \in 0..MaxMoves
      /\ MaxToggles \in Nat /\ MaxMoves \in Nat
  BY BootMountAssumption DEF BootTypeOK
<1> DEFINE Good == /\ support' \in [LogCats -> BOOLEAN] /\ saveDir' \in {"micro", "internal"}
                   /\ card' \in BOOLEAN /\ mountState' \in BOOLEAN /\ late' \in BOOLEAN
                   /\ toggles' \in 0..MaxToggles /\ moves' \in 0..MaxMoves
<1>3. Good
  <2>1. ASSUME NEW c \in LogCats, Toggle(c) PROVE Good
    <3>1. /\ toggles < MaxToggles /\ toggles' = toggles + 1
          /\ UNCHANGED <<saveDir, card, mountState, late, moves>>
      BY <2>1 DEF Toggle
    <3>2. support' \in [LogCats -> BOOLEAN]
      BY <1>2, <2>1, Zenon DEF Toggle
    <3> QED BY <1>2, <3>1, <3>2
  <2>2. ASSUME NEW d \in {"micro", "internal"}, ChooseRoot(d) PROVE Good
    BY <1>2, <2>2 DEF ChooseRoot
  <2>3. CASE Unmounted
    <3>1. /\ moves < MaxMoves /\ moves' = moves + 1 /\ saveDir' = "internal"
          /\ UNCHANGED <<support, mountState, late, toggles>>
      BY <2>3 DEF Unmounted
    <3>2. card' \in BOOLEAN
      BY <2>3, Zenon DEF Unmounted
    <3> QED BY <1>2, <3>1, <3>2
  <2>4. CASE Mounted \/ MediaMounted \/ Uptime60
    BY <1>2, <2>4 DEF Mounted, MediaMounted, Uptime60
  <2> QED BY <2>1, <2>2, <2>3, <2>4 DEF World
<1> QED BY <1>1, <1>3 DEF BootTypeOK, flags, paths, disks, reads, movers, lasts

\* The calls of resetLogPath name directories, and their number stays in range.
LEMMA CallFacts ==
  ASSUME BootTypeOK, NEW t \in Movers
  PROVE  /\ CallDir(t) \in Dirs /\ CallDepth(t) \in {1, 2}
         /\ NextCall(t) \in [Movers -> 1..Calls] /\ AfterCall(t) \in {"create", "change"}
         /\ NextCall(t) = [tcall EXCEPT ![t] = NextCall(t)[t]]
<1>1. tcall \in [Movers -> 1..Calls] /\ tcall[t] \in 1..Calls
  BY DEF BootTypeOK
<1>2. CallDir(t) \in Dirs
  <2>1. CASE tcall[t] = 1
    BY <2>1 DEF CallDir, BootTypeOK
  <2>2. CASE tcall[t] # 1
    <3>1. tcall[t] - 1 \in 1..Len(FlagOrder)
      BY <1>1, <2>2, FlagOrderFacts
    <3> QED BY <2>2, <3>1, FlagOrderFacts DEF CallDir, BootTypeOK
  <2> QED BY <2>1, <2>2
<1>3. NextCall(t) \in [Movers -> 1..Calls] /\ NextCall(t) = [tcall EXCEPT ![t] = NextCall(t)[t]]
  BY <1>1, FlagOrderFacts DEF NextCall
<1> QED BY <1>2, <1>3 DEF CallDepth, AfterCall

LEMMA MoveType ==
  ASSUME BootTypeOK, NEW t \in Movers, Move(t)
  PROVE  BootTypeOK'
<1>1. /\ tcall \in [Movers -> 1..Calls] /\ tstep \in [Movers -> TSteps]
      /\ depth \in [Dirs -> 0..2] /\ saveMicroSD \in [Movers -> BOOLEAN]
      /\ gszLogRootDir \in Dirs /\ 1 \in 1..Calls
  <2>1. 1 \in 1..Calls
    BY FlagOrderFacts
  <2> QED BY <2>1 DEF BootTypeOK, TSteps
<1>2. CASE SetAllDir(t)
  <2>1. UNCHANGED <<inputs, flags, gszLogRootDir, disks, reads, saveMicroSD, lasts, down>>
    BY <1>2 DEF SetAllDir
  <2>2. /\ tstep' \in [Movers -> TSteps] /\ gszLogDir' \in [LogCats -> Dirs]
        /\ tcall' \in [Movers -> 1..Calls]
    BY <1>1, <1>2 DEF SetAllDir, TGoto, TSteps
  <2> QED BY <2>1, <2>2 DEF BootTypeOK, inputs, flags, disks, reads, lasts, TSteps
<1>3. CASE CreateDir(t)
  <2>1. UNCHANGED <<inputs, flags, paths, boot, removed, reads, lasts, down>>
    BY <1>3 DEF CreateDir
  <2>2. /\ tstep' \in [Movers -> TSteps] /\ tcall' \in [Movers -> 1..Calls]
        /\ depth' \in [Dirs -> 0..2] /\ saveMicroSD' \in [Movers -> BOOLEAN]
    <3>1. CASE Writable(CallDir(t))
      <4>1. /\ tstep' = [tstep EXCEPT ![t] = AfterCall(t)] /\ tcall' = NextCall(t)
            /\ UNCHANGED saveMicroSD
            /\ \E n \in 0..2 : depth' = [depth EXCEPT ![CallDir(t)] = n]
        BY <1>1, <1>3, <3>1, CallFacts DEF CreateDir, TGoto
      <4> QED BY <1>1, <4>1, CallFacts DEF TSteps
    <3>2. CASE ~Writable(CallDir(t))
      <4>1. isSaveMicroSD \in BOOLEAN
        BY DEF isSaveMicroSD
      <4> QED BY <1>1, <1>3, <3>2, <4>1 DEF CreateDir, TGoto, TSteps
    <3> QED BY <3>1, <3>2
  <2> QED BY <2>1, <2>2 DEF BootTypeOK, inputs, flags, paths, reads, lasts, TSteps
<1>4. CASE LockUnMount(t)
  <2>1. UNCHANGED <<inputs, flags, paths, boot, removed, reads, saveMicroSD, lasts, down>>
    BY <1>4 DEF LockUnMount
  <2>2. tstep' \in [Movers -> TSteps] /\ tcall' \in [Movers -> 1..Calls]
    BY <1>1, <1>4, CallFacts DEF LockUnMount, TGoto, TSteps
  <2>3. depth' \in [Dirs -> 0..2]
    BY <1>1, <1>4, CallFacts DEF LockUnMount, WaitMakes
  <2> QED BY <2>1, <2>2, <2>3 DEF BootTypeOK, inputs, flags, paths, reads, lasts, TSteps
<1>5. CASE SetChange(t)
  <2>1. UNCHANGED <<inputs, gbEnable, gbWaitMount, paths, disks, reads, tcall,
                    saveMicroSD, seenEnable, dynRoot, down>>
    BY <1>5 DEF SetChange
  <2>2. gbChange' \in [LogCats -> BOOLEAN]
    BY <1>5 DEF SetChange
  <2>3. tstep' \in [Movers -> TSteps] /\ seenRoot' \in {"micro", "internal"}
    BY <1>1, <1>5 DEF SetChange, TGoto, TSteps, BootTypeOK
  <2> QED BY <2>1, <2>2, <2>3 DEF BootTypeOK, inputs, paths, disks, reads, TSteps
<1> QED BY <1>2, <1>3, <1>4, <1>5 DEF Move

LEMMA MountType == BootTypeOK /\ WaitMountRun => BootTypeOK'
<1> SUFFICES ASSUME BootTypeOK, WaitMountRun PROVE BootTypeOK'
  OBVIOUS
<1>1. /\ tcall \in [Movers -> 1..Calls] /\ tstep \in [Movers -> TSteps]
      /\ depth \in [Dirs -> 0..2] /\ gbWaitMount \in [LogCats -> BOOLEAN]
      /\ support \in [LogCats -> BOOLEAN]
      /\ gszLogRootDir \in Dirs /\ 1 \in 1..Calls /\ "mount" \in Movers
  <2>1. 1 \in 1..Calls
    BY FlagOrderFacts
  <2> QED BY <2>1 DEF BootTypeOK, TSteps, Movers
<1>2. CASE WaitMount
  <2>1. UNCHANGED <<inputs, flags, paths, boot, removed, reads, tcall, saveMicroSD, lasts, down>>
    BY <1>2 DEF WaitMount
  <2>2. tstep' \in [Movers -> TSteps] /\ depth' \in [Dirs -> 0..2]
    BY <1>1, <1>2 DEF WaitMount, WaitMakes, TGoto, TSteps
  <2> QED BY <2>1, <2>2 DEF BootTypeOK, inputs, flags, paths, reads, lasts, TSteps
<1>3. CASE TestSaved
  <2>1. UNCHANGED <<inputs, flags, paths, disks, reads, tcall, saveMicroSD, lasts, down>>
    BY <1>3 DEF TestSaved
  <2>2. tstep' \in [Movers -> TSteps]
    BY <1>1, <1>3 DEF TestSaved, TGoto, TSteps
  <2> QED BY <2>1, <2>2 DEF BootTypeOK, inputs, flags, paths, disks, reads, lasts, TSteps
<1>4. CASE MountedRoot
  <2>1. UNCHANGED <<inputs, flags, gszLogDir, disks, reads, tcall, saveMicroSD, lasts, down>>
    BY <1>4 DEF MountedRoot
  <2>2. tstep' \in [Movers -> TSteps] /\ gszLogRootDir' \in Dirs
    BY <1>1, <1>4 DEF MountedRoot, TGoto, TSteps, Dirs, BootTypeOK
  <2> QED BY <2>1, <2>2 DEF BootTypeOK, inputs, flags, disks, reads, lasts, TSteps
<1>5. CASE RaiseWaitMount
  <2> DEFINE i == tcall["mount"]
  <2>1. UNCHANGED <<inputs, gbEnable, gbChange, paths, disks, reads, saveMicroSD, lasts, down>>
    BY <1>5 DEF RaiseWaitMount
  <2>2. tstep' \in [Movers -> TSteps]
    BY <1>1, <1>5 DEF RaiseWaitMount, TGoto, TSteps
  <2>3. tcall' \in [Movers -> 1..Calls]
    <3>1. i \in 1..Calls /\ tcall' = [tcall EXCEPT !["mount"] = IF i < Len(FlagOrder) THEN i + 1 ELSE 1]
      BY <1>1, <1>5 DEF RaiseWaitMount
    <3>2. (IF i < Len(FlagOrder) THEN i + 1 ELSE 1) \in 1..Calls
      BY <3>1, FlagOrderFacts
    <3> QED BY <1>1, <3>1, <3>2
  <2>4. gbWaitMount' \in [LogCats -> BOOLEAN]
    <3> DEFINE f == FlagOrder[i]
    <3>1. gbWaitMount' = [gbWaitMount EXCEPT ![f] = gbWaitMount[f] \/ support[f]]
      BY <1>5 DEF RaiseWaitMount
    <3> HIDE DEF f
    <3>2. (gbWaitMount[f] \/ support[f]) \in BOOLEAN
      BY Zenon
    <3> QED BY <1>1, <3>1, <3>2
  <2> QED BY <2>1, <2>2, <2>3, <2>4 DEF BootTypeOK, inputs, paths, disks, reads, lasts, TSteps
<1>6. CASE Move("mount")
  BY <1>1, <1>6, MoveType
<1> QED BY <1>2, <1>3, <1>4, <1>5, <1>6 DEF WaitMountRun

LEMMA PropType == BootTypeOK /\ DetectProp => BootTypeOK'
<1> SUFFICES ASSUME BootTypeOK, DetectProp PROVE BootTypeOK'
  OBVIOUS
<1>1. /\ tstep \in [Movers -> TSteps] /\ "main" \in Movers
      /\ support \in [LogCats -> BOOLEAN] /\ seenEnable \in [LogCats -> BOOLEAN]
      /\ gbEnable \in [LogCats -> BOOLEAN] /\ gbChange \in [LogCats -> BOOLEAN]
      /\ rstep \in [LogCats -> RSteps] /\ gszLogDir \in [LogCats -> Dirs] /\ gszLogRootDir \in Dirs
      /\ saveDir \in Roots
  BY DEF BootTypeOK, TSteps, RSteps, Roots, Movers
<1>2. ASSUME NEW c \in LogCats, PollEnable(c) PROVE BootTypeOK'
  <2>1. UNCHANGED <<inputs, gbWaitMount, gszLogRootDir, disks, rflag, storePath,
                    movers, seenRoot, dynRoot, down>>
    BY <1>2 DEF PollEnable
  <2>2. seenEnable' \in [LogCats -> BOOLEAN] /\ gbEnable' \in [LogCats -> BOOLEAN]
    BY <1>1, <1>2 DEF PollEnable
  <2>3. rstep' \in [LogCats -> RSteps] /\ gszLogDir' \in [LogCats -> Dirs]
    BY <1>1, <1>2 DEF PollEnable, RSteps
  <2>4. gbChange' \in [LogCats -> BOOLEAN]
    <3>1. \E b \in BOOLEAN : gbChange' = [gbChange EXCEPT ![c] = b]
      <4>1. (gbChange[c] \/ rstep[c] = "off") \in BOOLEAN
        BY Zenon
      <4> QED BY <1>2, <4>1, Zenon DEF PollEnable
    <3> QED BY <1>1, <3>1
  <2> QED BY <2>1, <2>2, <2>3, <2>4 DEF BootTypeOK, inputs, disks, movers, RSteps
<1>3. CASE PollSaveDir
  <2>1. UNCHANGED <<inputs, flags, gszLogDir, disks, reads, tcall, saveMicroSD,
                    seenEnable, seenRoot, down>>
    BY <1>3 DEF PollSaveDir
  <2>2. /\ tstep' \in [Movers -> TSteps] /\ gszLogRootDir' \in Dirs
        /\ dynRoot' \in {"micro", "internal"}
    BY <1>1, <1>3 DEF PollSaveDir, TGoto, TSteps, Dirs, Roots
  <2> QED BY <2>1, <2>2 DEF BootTypeOK, inputs, flags, disks, reads, TSteps
<1>4. CASE Move("main")
  BY <1>1, <1>4, MoveType
<1> QED BY <1>2, <1>3, <1>4 DEF DetectProp

LEMMA ReadType ==
  ASSUME BootTypeOK, NEW c \in LogCats, ReadBoot(c)
  PROVE  BootTypeOK'
<1>1. /\ rstep \in [LogCats -> RSteps] /\ gszLogDir \in [LogCats -> Dirs]
      /\ rflag \in [LogCats -> BOOLEAN] /\ gbWaitMount \in [LogCats -> BOOLEAN]
      /\ gbChange \in [LogCats -> BOOLEAN] /\ storePath \in [LogCats -> Dirs \cup {""}]
      /\ depth \in [Dirs -> 0..2] /\ boot \in [LogCats -> {"none", "wait", "moved", "lost"}]
      /\ removed \subseteq Dirs
  BY DEF BootTypeOK, RSteps
<1>2. CASE LineChange(c)
  <2>1. UNCHANGED <<inputs, flags, paths, disks, storePath, movers, lasts, down>>
    BY <1>2 DEF LineChange
  <2>2. rstep' \in [LogCats -> RSteps] /\ rflag' \in [LogCats -> BOOLEAN]
    BY <1>1, <1>2 DEF LineChange, ReadGoto, RSteps
  <2> QED BY <2>1, <2>2 DEF BootTypeOK, inputs, flags, paths, disks, movers, lasts, RSteps
<1>3. CASE HandlePlain(c)
  <2>1. UNCHANGED <<inputs, flags, paths, disks, rflag, movers, lasts, down>>
    BY <1>3 DEF HandlePlain
  <2>2. rstep' \in [LogCats -> RSteps] /\ storePath' \in [LogCats -> Dirs \cup {""}]
    BY <1>1, <1>3 DEF HandlePlain, ReadGoto, RSteps
  <2> QED BY <2>1, <2>2 DEF BootTypeOK, inputs, flags, paths, disks, movers, lasts, RSteps
<1>4. CASE HandleNull(c)
  BY <1>4 DEF HandleNull, BootTypeOK, inputs, flags, paths, disks, reads, movers, lasts
<1>5. CASE HandleMove(c)
  <2>1. UNCHANGED <<inputs, flags, paths, rflag, movers, lasts, down>>
    BY <1>5 DEF HandleMove
  <2>2. rstep' \in [LogCats -> RSteps] /\ storePath' \in [LogCats -> Dirs \cup {""}]
    BY <1>1, <1>5 DEF HandleMove, ReadGoto, RSteps
  <2>3. storePath[c] \in Dirs
    BY <1>1, <1>5 DEF HandleMove
  <2>4. depth' \in [Dirs -> 0..2] /\ removed' \subseteq Dirs
    <3>1. depth' \in [Dirs -> 0..2]
      <4>1. (IF Writable(storePath[c]) THEN 0 ELSE depth[storePath[c]]) \in 0..2
        <5>1. depth[storePath[c]] \in 0..2
          BY <1>1, <2>3, Zenon
        <5>2. 0 \in 0..2
          OBVIOUS
        <5> QED BY <5>1, <5>2, Zenon
      <4> QED BY <1>1, <1>5, <2>3, <4>1 DEF HandleMove
    <3>2. removed' = removed \cup {storePath[c]}
      BY <1>5 DEF HandleMove
    <3> QED BY <1>1, <2>3, <3>1, <3>2
  <2>5. boot' \in [LogCats -> {"none", "wait", "moved", "lost"}]
    BY <1>1, <1>5 DEF HandleMove, BootAfter
  <2> QED BY <2>1, <2>2, <2>4, <2>5 DEF BootTypeOK, inputs, flags, paths, movers, lasts, RSteps
<1>6. CASE OpenPath(c)
  <2>1. UNCHANGED <<inputs, flags, paths, depth, removed, rflag, storePath, movers, lasts>>
    BY <1>6 DEF OpenPath
  <2>2. /\ rstep' \in [LogCats -> RSteps] /\ boot' \in [LogCats -> {"none", "wait", "moved", "lost"}]
        /\ down' \in {"no", "exit", "null"}
    BY <1>1, <1>6 DEF OpenPath, ReadGoto, RSteps, BootTypeOK
  <2> QED BY <2>1, <2>2 DEF BootTypeOK, inputs, flags, paths, movers, lasts, RSteps
<1>7. CASE ClearWaitMount(c)
  <2>1. UNCHANGED <<inputs, gbEnable, gbChange, paths, disks, rflag, storePath, movers, lasts, down>>
    BY <1>7 DEF ClearWaitMount
  <2>2. rstep' \in [LogCats -> RSteps] /\ gbWaitMount' \in [LogCats -> BOOLEAN]
    BY <1>1, <1>7 DEF ClearWaitMount, ReadGoto, RSteps
  <2> QED BY <2>1, <2>2 DEF BootTypeOK, inputs, paths, disks, movers, lasts, RSteps
<1>8. CASE ClearChange(c)
  <2>1. UNCHANGED <<inputs, gbEnable, gbWaitMount, paths, disks, rflag, storePath, movers, lasts, down>>
    BY <1>8 DEF ClearChange
  <2>2. rstep' \in [LogCats -> RSteps] /\ gbChange' \in [LogCats -> BOOLEAN]
    BY <1>1, <1>8 DEF ClearChange, ReadGoto, RSteps
  <2> QED BY <2>1, <2>2 DEF BootTypeOK, inputs, paths, disks, movers, lasts, RSteps
<1> QED BY <1>2, <1>3, <1>4, <1>5, <1>6, <1>7, <1>8 DEF ReadBoot

LEMMA BootStepType == BootTypeOK /\ [BootNext]_bootVars => BootTypeOK'
<1> SUFFICES ASSUME BootTypeOK, [BootNext]_bootVars PROVE BootTypeOK'
  OBVIOUS
<1>1. CASE UNCHANGED bootVars
  BY <1>1 DEF bootVars, BootTypeOK
<1> QED BY <1>1, WorldType, MountType, PropType, ReadType DEF BootNext

(***************************************************************************)
(* What onHandelLogPath removes while the storage root stays.              *)
(***************************************************************************)
\* waitMountRun before it reads the root again, and before it stores the directories.
Early == tstep["mount"] \in {"wait", "saved", "root"}
Named == tstep["mount"] \in {"flags", "setdir"}

\* detectProp rests, and nothing is made on the card before the directories are stored.
RootInv ==
  /\ saveDir = "micro" /\ seenRoot = "micro" /\ tstep["main"] = "poll"
  /\ gszLogRootDir = (IF Early THEN "wait" ELSE "micro")
  /\ Early \/ Named => depth["micro"] = 0
  /\ removed \subseteq {"wait"}

\* A reader that has opened a file on the card no longer gets the WaitMount flag: before
\* the directories are stored there is no such file, and afterwards no flag is raised.
CatInv(c) ==
  /\ gszLogDir[c] \in {"wait", gszLogRootDir}
  /\ ~Early /\ ~Named => gszLogDir[c] = "micro"
  /\ storePath[c] \in {"", "wait", "micro"}
  /\ storePath[c] = "micro" =>
       /\ ~Early
       /\ \/ rstep[c] = "open"
          \/ ~Named /\ rstep[c] = "unwait"
          \/ ~Named /\ ~gbWaitMount[c] /\ (rstep[c] = "handle" => ~rflag[c])

PathInv == moves = 0 => RootInv /\ \A c \in LogCats : CatInv(c)

LEMMA PathInit == BootInit => PathInv
<1> SUFFICES ASSUME BootInit PROVE RootInv /\ \A c \in LogCats : CatInv(c)
  BY DEF PathInv
<1>1. tstep["mount"] = "wait" /\ tstep["main"] = "poll"
  BY DEF BootInit, Movers
<1>2. RootInv
  BY <1>1 DEF BootInit, RootInv, Early, Dirs
<1>3. ASSUME NEW c \in LogCats
      PROVE  CatInv(c)
  BY <1>1 DEF BootInit, CatInv, Early
<1> QED BY <1>2, <1>3

\* Bounds on what a step does to moves, and the functions it reads.
LEMMA PathFacts ==
  ASSUME BootTypeOK
  PROVE  /\ "mount" \in Movers /\ "main" \in Movers /\ "mount" # "main"
         /\ tstep \in [Movers -> TSteps] /\ depth \in [Dirs -> 0..2]
         /\ rstep \in [LogCats -> RSteps] /\ gszLogDir \in [LogCats -> Dirs]
         /\ storePath \in [LogCats -> Dirs \cup {""}]
         /\ rflag \in [LogCats -> BOOLEAN] /\ gbWaitMount \in [LogCats -> BOOLEAN]
         /\ "micro" \in Dirs /\ "wait" \in Dirs /\ moves \in Nat
<1>1. moves \in Nat
  <2>1. MaxMoves \in Nat
    BY BootMountAssumption
  <2>2. moves \in 0..MaxMoves
    BY DEF BootTypeOK
  <2> QED BY <2>1, <2>2
<1> QED BY <1>1 DEF BootTypeOK, TSteps, RSteps, Movers, Dirs

\* A step that changes neither waitMountRun's place nor what the invariant is about.
LEMMA PathKept ==
  ASSUME PathInv, UNCHANGED <<saveDir, moves, seenRoot, tstep, paths, depth, removed, storePath,
                              rstep, rflag, gbWaitMount>>
  PROVE  PathInv'
BY DEF PathInv, RootInv, CatInv, Early, Named, paths

LEMMA WorldPath ==
  ASSUME BootTypeOK, PathInv, World
  PROVE  PathInv'
<1>1. UNCHANGED <<flags, paths, disks, reads, movers, lasts>>
  BY DEF World
<1>2. moves' = 0 => moves = 0 /\ saveDir' = saveDir
  <2>1. (moves' = moves /\ saveDir' = saveDir) \/ moves' = moves + 1
    BY DEF World, Toggle, ChooseRoot, Unmounted, Mounted, MediaMounted, Uptime60
  <2>2. moves \in Nat
    BY PathFacts
  <2> QED BY <2>1, <2>2
<1> QED BY <1>1, <1>2
        DEF PathInv, RootInv, CatInv, Early, Named, flags, paths, disks, reads, movers, lasts

\* waitMountRun's own steps, up to the flags.
LEMMA MountPath ==
  ASSUME BootTypeOK, PathInv, WaitMount \/ TestSaved \/ MountedRoot \/ RaiseWaitMount
  PROVE  PathInv'
<1> SUFFICES ASSUME moves' = 0 PROVE RootInv' /\ \A c \in LogCats : CatInv(c)'
  BY DEF PathInv
<1>0. /\ moves = 0 /\ RootInv /\ \A c \in LogCats : CatInv(c)
      /\ UNCHANGED <<inputs, gszLogDir, storePath, rstep, rflag, removed, lasts>>
  BY DEF PathInv, WaitMount, TestSaved, MountedRoot, RaiseWaitMount, inputs, paths, reads, disks
<1>1. CASE WaitMount
  <2>1. /\ tstep["mount"] = "wait" /\ tstep' = [tstep EXCEPT !["mount"] = "saved"]
        /\ UNCHANGED <<gszLogRootDir, gbWaitMount>> /\ gszLogRootDir = "wait"
    BY <1>0, <1>1 DEF WaitMount, TGoto, flags, paths, RootInv, Early
  <2>2. depth'["micro"] = depth["micro"]
    BY <1>1, <2>1, PathFacts DEF WaitMount, WaitMakes
  <2>3. Early /\ Early' /\ ~Named /\ ~Named' /\ tstep'["main"] = tstep["main"]
    BY <2>1, PathFacts DEF Early, Named
  <2>4. RootInv'
    BY <1>0, <2>1, <2>2, <2>3 DEF RootInv, inputs, lasts
  <2> QED BY <1>0, <2>1, <2>3, <2>4 DEF CatInv
<1>2. CASE TestSaved
  <2>1. /\ tstep["mount"] = "saved" /\ tstep' = [tstep EXCEPT !["mount"] = "root"]
        /\ UNCHANGED <<gszLogRootDir, gbWaitMount, depth>>
    BY <1>0, <1>2 DEF TestSaved, TGoto, isSaveMicroSD, flags, paths, disks, RootInv
  <2>2. Early /\ Early' /\ ~Named /\ ~Named' /\ tstep'["main"] = tstep["main"]
    BY <2>1, PathFacts DEF Early, Named
  <2>3. RootInv'
    BY <1>0, <2>1, <2>2 DEF RootInv, inputs, lasts
  <2> QED BY <1>0, <2>1, <2>2, <2>3 DEF CatInv
<1>3. CASE MountedRoot
  <2>1. /\ tstep["mount"] = "root"
        /\ \E s \in {"flags", "setdir"} : tstep' = [tstep EXCEPT !["mount"] = s]
        /\ gszLogRootDir' = saveDir /\ UNCHANGED <<gbWaitMount, depth>>
    BY <1>3 DEF MountedRoot, TGoto, flags, disks
  <2>2. Early /\ ~Early' /\ ~Named /\ Named' /\ tstep'["main"] = tstep["main"]
    BY <2>1, PathFacts DEF Early, Named
  <2>3. gszLogRootDir = "wait" /\ gszLogRootDir' = "micro" /\ RootInv'
    BY <1>0, <2>1, <2>2 DEF RootInv, inputs, lasts
  <2>4. \A c \in LogCats : gszLogDir[c] = "wait" /\ storePath[c] # "micro"
    BY <1>0, <2>2, <2>3 DEF CatInv
  <2> QED BY <1>0, <2>2, <2>3, <2>4 DEF CatInv
<1>4. CASE RaiseWaitMount
  <2>1. /\ tstep["mount"] = "flags"
        /\ \E s \in {"flags", "setdir"} : tstep' = [tstep EXCEPT !["mount"] = s]
        /\ UNCHANGED <<gszLogRootDir, depth>>
    BY <1>4 DEF RaiseWaitMount, TGoto, paths, disks
  <2>2. ~Early /\ ~Early' /\ Named /\ Named' /\ tstep'["main"] = tstep["main"]
    BY <2>1, PathFacts DEF Early, Named
  <2>3. RootInv'
    BY <1>0, <2>1, <2>2 DEF RootInv, inputs, lasts
  <2> QED BY <1>0, <2>1, <2>2, <2>3 DEF CatInv
<1> QED BY <1>1, <1>2, <1>3, <1>4

\* Moving the logs: detectProp has nothing to move, and waitMountRun goes on.
LEMMA MovePath ==
  ASSUME BootTypeOK, PathInv, NEW t \in Movers, Move(t)
  PROVE  PathInv'
<1> SUFFICES ASSUME moves' = 0 PROVE RootInv' /\ \A c \in LogCats : CatInv(c)'
  BY DEF PathInv
<1>0. /\ moves = 0 /\ RootInv /\ \A c \in LogCats : CatInv(c)
      /\ UNCHANGED <<inputs, gszLogRootDir, storePath, rstep, rflag, removed, gbWaitMount>>
  BY DEF PathInv, Move, SetAllDir, CreateDir, LockUnMount, SetChange, inputs, flags, paths, reads,
         disks
<1>1. t = "mount"
  BY <1>0, PathFacts DEF RootInv, Move, SetAllDir, CreateDir, LockUnMount, SetChange, TGoto, Movers
<1>2. /\ \E s \in TSteps : tstep' = [tstep EXCEPT !["mount"] = s]
      /\ tstep'["mount"] \in {"create", "locked", "change", "end"}
      /\ tstep["mount"] \in {"setdir", "create", "locked", "change"}
      /\ seenRoot' = seenRoot
  BY <1>1, PathFacts DEF Move, SetAllDir, CreateDir, LockUnMount, SetChange, TGoto, AfterCall, lasts,
                         TSteps
<1>3. ~Early /\ ~Early' /\ ~Named' /\ tstep'["main"] = tstep["main"]
  BY <1>2, PathFacts DEF Early, Named
<1>4. RootInv'
  BY <1>0, <1>2, <1>3 DEF RootInv, inputs
<1>5. gszLogRootDir = "micro"
  BY <1>0, <1>3 DEF RootInv
<1>6. \A c \in LogCats : gszLogDir'[c] = "micro"
  <2>1. CASE tstep["mount"] = "setdir"
    BY <1>1, <1>5, <2>1 DEF Move, SetAllDir, CreateDir, LockUnMount, SetChange, TGoto
  <2>2. CASE tstep["mount"] # "setdir"
    <3>1. gszLogDir' = gszLogDir /\ ~Named
      BY <1>1, <1>2, <2>2 DEF Move, SetAllDir, CreateDir, LockUnMount, SetChange, TGoto, Named, paths
    <3> QED BY <1>0, <1>3, <3>1 DEF CatInv
  <2> QED BY <2>1, <2>2
<1> QED BY <1>0, <1>3, <1>4, <1>5, <1>6 DEF CatInv

\* detectProp only switches categories.
LEMMA PollPath ==
  ASSUME BootTypeOK, PathInv, (\E c \in LogCats : PollEnable(c)) \/ PollSaveDir
  PROVE  PathInv'
<1> SUFFICES ASSUME moves' = 0 PROVE RootInv' /\ \A c \in LogCats : CatInv(c)'
  BY DEF PathInv
<1>0. moves = 0 /\ RootInv /\ \A c \in LogCats : CatInv(c)
  BY DEF PathInv, PollEnable, PollSaveDir, inputs
<1>1. ~PollSaveDir
  BY <1>0 DEF PollSaveDir, RootInv
<1>2. PICK c \in LogCats : PollEnable(c)
  BY <1>1
<1>3. UNCHANGED <<inputs, gbWaitMount, gszLogRootDir, depth, removed, rflag, storePath, tstep, seenRoot>>
  BY <1>2 DEF PollEnable, disks, movers
<1>4. RootInv' /\ Early' = Early /\ Named' = Named
  BY <1>0, <1>3 DEF RootInv, Early, Named, inputs
<1>5. \A d \in LogCats : /\ gszLogDir'[d] = gszLogDir[d] \/ gszLogDir'[d] = gszLogRootDir
                         /\ rstep'[d] = rstep[d] \/ (rstep[d] = "off" /\ rstep'[d] = "line")
  BY <1>2, PathFacts DEF PollEnable
<1>6. ~Early => gszLogRootDir = "micro"
  BY <1>0 DEF RootInv
<1> QED BY <1>0, <1>3, <1>4, <1>5, <1>6 DEF CatInv

\* The readers.
LEMMA ReadPath ==
  ASSUME BootTypeOK, PathInv, NEW c \in LogCats, ReadBoot(c)
  PROVE  PathInv'
<1> SUFFICES ASSUME moves' = 0 PROVE RootInv' /\ \A d \in LogCats : CatInv(d)'
  BY DEF PathInv
<1>0. /\ moves = 0 /\ RootInv /\ \A d \in LogCats : CatInv(d)
      /\ UNCHANGED <<inputs, paths, tstep, lasts>>
  BY DEF PathInv, ReadBoot, LineChange, HandlePlain, HandleNull, HandleMove, OpenPath,
         ClearWaitMount, ClearChange, inputs, movers
<1>1. Early' = Early /\ Named' = Named
  BY <1>0 DEF Early, Named
<1>2. \A d \in LogCats : d # c =>
        /\ storePath'[d] = storePath[d] /\ rstep'[d] = rstep[d] /\ rflag'[d] = rflag[d]
        /\ gbWaitMount'[d] = gbWaitMount[d]
  BY PathFacts DEF ReadBoot, LineChange, HandlePlain, HandleNull, HandleMove, OpenPath,
                   ClearWaitMount, ClearChange, ReadGoto, flags, reads
<1>3. \A d \in LogCats : d # c => CatInv(d)'
  BY <1>0, <1>1, <1>2 DEF CatInv, paths
<1>4. depth'["micro"] = depth["micro"] /\ removed' \subseteq {"wait"}
  <2>1. CASE HandleMove(c)
    <3>1. /\ storePath[c] # "" /\ rflag[c] /\ rstep[c] = "handle"
          /\ depth' = [depth EXCEPT ![storePath[c]] = IF Writable(storePath[c]) THEN 0 ELSE @]
          /\ removed' = removed \cup {storePath[c]}
      BY <2>1 DEF HandleMove, ReadGoto
    <3>2. storePath[c] = "wait"
      BY <1>0, <3>1 DEF CatInv
    <3> QED BY <1>0, <3>1, <3>2, PathFacts DEF RootInv
  <2>2. CASE ~HandleMove(c)
    <3>1. UNCHANGED <<depth, removed>>
      BY <2>2 DEF ReadBoot, LineChange, HandlePlain, HandleNull, OpenPath, ClearWaitMount,
                  ClearChange, disks
    <3> QED BY <1>0, <3>1 DEF RootInv
  <2> QED BY <2>1, <2>2
<1>5. RootInv'
  BY <1>0, <1>1, <1>4 DEF RootInv, inputs, paths, lasts
<1>6. /\ gszLogDir'[c] = gszLogDir[c] /\ gszLogRootDir' = gszLogRootDir
      /\ gszLogDir[c] \in {"wait", gszLogRootDir}
      /\ ~Early /\ ~Named => gszLogDir[c] = "micro"
      /\ gszLogDir[c] \in {"wait", "micro"} /\ (gszLogDir[c] = "micro" => ~Early)
  BY <1>0 DEF CatInv, RootInv, paths
<1>7. CASE LineChange(c)
  <2>1. /\ rstep[c] = "line" /\ rstep'[c] = "handle" /\ rflag'[c] = gbWaitMount[c]
        /\ storePath'[c] = storePath[c] /\ gbWaitMount'[c] = gbWaitMount[c]
    BY <1>7, PathFacts DEF LineChange, ReadGoto, flags
  <2>2. CatInv(c)'
    BY <1>0, <1>1, <1>6, <2>1 DEF CatInv
  <2> QED BY <1>3, <1>5, <2>2
<1>8. CASE HandlePlain(c) \/ HandleMove(c)
  <2>1. rstep'[c] = "open" /\ storePath'[c] = gszLogDir[c]
    BY <1>8, PathFacts DEF HandlePlain, HandleMove, ReadGoto
  <2>2. CatInv(c)'
    BY <1>1, <1>6, <2>1 DEF CatInv
  <2> QED BY <1>3, <1>5, <2>2
<1>9. CASE HandleNull(c)
  <2>1. UNCHANGED <<rstep, rflag, storePath, gbWaitMount>>
    BY <1>9 DEF HandleNull, reads, flags
  <2>2. CatInv(c)'
    BY <1>0, <1>1, <1>6, <2>1 DEF CatInv
  <2> QED BY <1>3, <1>5, <2>2
<1>10. CASE OpenPath(c)
  <2>1. UNCHANGED <<rflag, storePath, gbWaitMount>>
    BY <1>10 DEF OpenPath, flags
  <2>2. \/ rstep'[c] = "unwait" /\ depth[storePath[c]] = 2
        \/ rstep' = rstep
    BY <1>10, PathFacts DEF OpenPath, ReadGoto
  <2>3. CatInv(c)'
    <3>1. CASE rstep' = rstep
      BY <1>0, <1>1, <1>6, <2>1, <3>1 DEF CatInv
    <3>2. CASE rstep'[c] = "unwait" /\ depth[storePath[c]] = 2
      <4>1. storePath[c] = "micro" => ~Early /\ ~Named
        BY <1>0, <3>2 DEF RootInv
      <4> QED BY <1>0, <1>1, <1>6, <2>1, <3>2, <4>1 DEF CatInv
    <3> QED BY <2>2, <3>1, <3>2
  <2> QED BY <1>3, <1>5, <2>3
<1>11. CASE ClearWaitMount(c)
  <2>1. /\ rstep[c] = "unwait" /\ rstep'[c] = "unchange" /\ ~gbWaitMount'[c]
        /\ UNCHANGED <<rflag, storePath>>
    BY <1>11, PathFacts DEF ClearWaitMount, ReadGoto
  <2>2. CatInv(c)'
    BY <1>0, <1>1, <1>6, <2>1 DEF CatInv
  <2> QED BY <1>3, <1>5, <2>2
<1>12. CASE ClearChange(c)
  <2>1. /\ rstep[c] = "unchange" /\ rstep'[c] = "line" /\ UNCHANGED <<rflag, storePath, gbWaitMount>>
    BY <1>12, PathFacts DEF ClearChange, ReadGoto
  <2>2. CatInv(c)'
    BY <1>0, <1>1, <1>6, <2>1 DEF CatInv
  <2> QED BY <1>3, <1>5, <2>2
<1> QED BY <1>7, <1>8, <1>9, <1>10, <1>11, <1>12 DEF ReadBoot

LEMMA PathStep == BootTypeOK /\ PathInv /\ [BootNext]_bootVars => PathInv'
<1> SUFFICES ASSUME BootTypeOK, PathInv, [BootNext]_bootVars PROVE PathInv'
  OBVIOUS
<1>1. CASE World
  BY <1>1, WorldPath
<1>2. CASE WaitMountRun
  BY <1>2, MountPath, MovePath, PathFacts DEF WaitMountRun
<1>3. CASE DetectProp
  BY <1>3, PollPath, MovePath, PathFacts DEF DetectProp
<1>4. ASSUME NEW c \in LogCats, ReadBoot(c) PROVE PathInv'
  BY <1>4, ReadPath
<1>5. CASE UNCHANGED bootVars
  BY <1>5, PathKept DEF bootVars, paths
<1> QED BY <1>1, <1>2, <1>3, <1>4, <1>5 DEF BootNext

(***************************************************************************)
(* What becomes of the boot logs while nobody touches the settings.        *)
(***************************************************************************)
\* Once the first of resetLogPath's calls is over the card is there for good, and the
\* second has made the dated directory.
CardInv ==
  /\ support = seenEnable
  /\ mountState => card
  /\ tstep["mount"] \in {"create", "locked"} =>
       /\ tcall["mount"] >= 2 => card /\ tstep["mount"] = "create"
       /\ tcall["mount"] >= 3 => depth["micro"] = 2
  /\ tstep["mount"] \in {"change", "end"} => card /\ (LogCats # {} => depth["micro"] = 2)

\* A reader with a file sees Change and the WaitMount flag only after waitMountRun has
\* made the directories, and a reader with a file in /data/Asuslog/ has a boot log.
ReaderInv(c) ==
  /\ tstep["mount"] # "end" =>
       /\ rstep[c] = "line" /\ storePath[c] # "" => ~gbChange[c]
       /\ rstep[c] = "handle" /\ rflag[c] => storePath[c] = ""
  /\ storePath[c] = "wait" /\ rstep[c] # "open" => boot[c] # "none"

LostInv ==
  moves = 0 /\ toggles = 0 =>
    CardInv /\ (\A c \in LogCats : ReaderInv(c)) /\ LostToAnother

LEMMA LostInit == BootInit => LostInv
BY DEF BootInit, LostInv, CardInv, ReaderInv, LostToAnother, Movers, Dirs

LEMMA LostFacts ==
  ASSUME BootTypeOK
  PROVE  /\ gbChange \in [LogCats -> BOOLEAN] /\ boot \in [LogCats -> {"none", "wait", "moved", "lost"}]
         /\ tcall \in [Movers -> 1..Calls] /\ toggles \in Nat
         /\ card \in BOOLEAN
<1>1. MaxToggles \in Nat
  BY BootMountAssumption
<1>2. toggles \in 0..MaxToggles
  BY DEF BootTypeOK
<1>3. toggles \in Nat
  BY <1>1, <1>2
<1> QED BY <1>3 DEF BootTypeOK

LEMMA WorldLost ==
  ASSUME BootTypeOK, LostInv, World
  PROVE  LostInv'
<1>1. UNCHANGED <<flags, paths, disks, reads, movers, lasts>>
  BY DEF World
<1>2. moves' = 0 /\ toggles' = 0 =>
        /\ moves = 0 /\ toggles = 0 /\ support' = support /\ (card => card')
        /\ (mountState' => mountState \/ card')
  <2>1. \/ moves' = moves + 1 \/ toggles' = toggles + 1
        \/ /\ UNCHANGED <<moves, toggles, support>> /\ (card => card')
           /\ (mountState' => mountState \/ card')
    BY DEF World, Toggle, ChooseRoot, Unmounted, Mounted, MediaMounted, Uptime60
  <2>2. moves \in Nat /\ toggles \in Nat
    BY PathFacts, LostFacts
  <2>3. \/ moves' = moves \/ moves' = moves + 1
    BY DEF World, Toggle, ChooseRoot, Unmounted, Mounted, MediaMounted, Uptime60
  <2>4. \/ toggles' = toggles \/ toggles' = toggles + 1
    BY DEF World, Toggle, ChooseRoot, Unmounted, Mounted, MediaMounted, Uptime60
  <2> QED BY <2>1, <2>2, <2>3, <2>4
<1> SUFFICES ASSUME moves' = 0 /\ toggles' = 0
             PROVE  CardInv' /\ (\A c \in LogCats : ReaderInv(c)') /\ LostToAnother'
  BY DEF LostInv
<1>3. CardInv /\ (\A c \in LogCats : ReaderInv(c)) /\ LostToAnother
  BY <1>2 DEF LostInv
<1>4. CardInv'
  BY <1>1, <1>2, <1>3 DEF CardInv, movers, disks, lasts
<1>5. \A c \in LogCats : ReaderInv(c)'
  BY <1>1, <1>3 DEF ReaderInv, movers, disks, reads, flags
<1>6. LostToAnother'
  BY <1>1, <1>2, <1>3 DEF LostToAnother, disks
<1> QED BY <1>4, <1>5, <1>6

\* waitMountRun up to the flags: no directory is made on the card.
LEMMA MountLost ==
  ASSUME BootTypeOK, LostInv, WaitMount \/ TestSaved \/ MountedRoot \/ RaiseWaitMount, PathInv
  PROVE  LostInv'
<1> SUFFICES ASSUME moves' = 0 /\ toggles' = 0
             PROVE  CardInv' /\ (\A c \in LogCats : ReaderInv(c)') /\ LostToAnother'
  BY DEF LostInv
<1>0. UNCHANGED <<inputs, gbChange, storePath, rstep, rflag, boot, lasts>>
  BY DEF WaitMount, TestSaved, MountedRoot, RaiseWaitMount, flags, reads, disks
<1>1. moves = 0 /\ toggles = 0 /\ CardInv /\ (\A c \in LogCats : ReaderInv(c)) /\ LostToAnother
  BY <1>0 DEF LostInv, inputs
<1>2. saveDir = "micro"
  BY <1>1 DEF PathInv, RootInv
<1>3. /\ tstep["mount"] \in {"wait", "saved", "root", "flags"}
      /\ tstep'["mount"] \in {"saved", "root", "flags", "setdir"}
  BY <1>2, PathFacts DEF WaitMount, TestSaved, MountedRoot, RaiseWaitMount, TGoto, isSaveMicroSD
<1>4. CardInv'
  BY <1>0, <1>1, <1>3 DEF CardInv, inputs, lasts
<1>5. \A c \in LogCats : ReaderInv(c)'
  BY <1>0, <1>1, <1>3 DEF ReaderInv
<1>6. LostToAnother'
  BY <1>0, <1>1 DEF LostToAnother
<1> QED BY <1>4, <1>5, <1>6

\* resetLogPath on the card.
LEMMA MoveLost ==
  ASSUME BootTypeOK, PathInv, PathInv', LostInv, NEW t \in Movers, Move(t)
  PROVE  LostInv'
<1> SUFFICES ASSUME moves' = 0 /\ toggles' = 0
             PROVE  CardInv' /\ (\A c \in LogCats : ReaderInv(c)') /\ LostToAnother'
  BY DEF LostInv
<1>0. /\ UNCHANGED <<inputs, storePath, rstep, rflag, boot, seenEnable>>
  BY DEF Move, SetAllDir, CreateDir, LockUnMount, SetChange, reads, disks, lasts
<1>1. /\ moves = 0 /\ toggles = 0 /\ CardInv /\ (\A c \in LogCats : ReaderInv(c)) /\ LostToAnother
      /\ RootInv /\ \A c \in LogCats : CatInv(c)
  BY <1>0 DEF LostInv, PathInv, inputs
<1>2. t = "mount"
  BY <1>1, PathFacts DEF RootInv, Move, SetAllDir, CreateDir, LockUnMount, SetChange, TGoto, Movers
<1>3. LostToAnother'
  BY <1>0, <1>1 DEF LostToAnother
<1>4. CASE SetAllDir("mount")
  <2>1. /\ tstep["mount"] = "setdir" /\ tstep'["mount"] = "create" /\ tcall'["mount"] = 1
        /\ UNCHANGED gbChange
    BY <1>4, PathFacts, LostFacts DEF SetAllDir, TGoto, flags
  <2>2. CardInv'
    BY <1>0, <1>1, <2>1 DEF CardInv, inputs
  <2>3. \A c \in LogCats : ReaderInv(c)'
    BY <1>0, <1>1, <2>1 DEF ReaderInv
  <2> QED BY <1>3, <2>2, <2>3
<1>5. CASE CreateDir("mount") \/ LockUnMount("mount")
  <2> DEFINE n == tcall["mount"]
  <2>1. n \in 1..Calls /\ n \in Nat /\ Calls \in Nat
    <3>1. n \in 1..Calls
      BY PathFacts, LostFacts
    <3>2. Calls \in Nat
      BY FlagOrderFacts
    <3> QED BY <3>1, <3>2
  <2>2. CallDir("mount") = "micro"
    <3>1. ~Early /\ ~Named
      BY <1>5 DEF CreateDir, LockUnMount, TGoto, Early, Named
    <3>2. CASE n = 1
      BY <1>1, <3>1, <3>2 DEF CallDir, RootInv
    <3>3. CASE n # 1
      <4>1. n - 1 \in 1..Len(FlagOrder)
        BY <2>1, <3>3, FlagOrderFacts
      <4> QED BY <1>1, <3>1, <3>3, <4>1, FlagOrderFacts DEF CallDir, CatInv
    <3> QED BY <3>2, <3>3
  <2>3. gbChange' = gbChange /\ tstep'["mount"] # "end" /\ tstep["mount"] # "end"
    BY <1>5, PathFacts DEF CreateDir, LockUnMount, TGoto, AfterCall, flags
  <2>4. \A c \in LogCats : ReaderInv(c)'
    BY <1>0, <1>1, <2>3 DEF ReaderInv
  <2>5. depth["micro"] \in 0..2 /\ depth \in [Dirs -> 0..2] /\ "micro" \in Dirs
    BY PathFacts
  <2>6. CASE CreateDir("mount") /\ ~card
    <3>1. /\ tstep["mount"] = "create" /\ tstep'["mount"] = "locked" /\ UNCHANGED <<tcall, depth>>
      BY <2>2, <2>6, PathFacts DEF CreateDir, TGoto, Writable
    <3>2. ~(n >= 2) /\ ~(n >= 3)
      BY <1>1, <2>1, <2>6, <3>1 DEF CardInv
    <3>3. CardInv'
      BY <1>0, <1>1, <3>1, <3>2 DEF CardInv, inputs
    <3> QED BY <1>3, <2>4, <3>3
  <2>7. CASE (CreateDir("mount") /\ card) \/ LockUnMount("mount")
    <3>1. /\ tstep' = [tstep EXCEPT !["mount"] = AfterCall("mount")]
          /\ tcall' = NextCall("mount")
      BY <2>2, <2>7 DEF CreateDir, LockUnMount, TGoto, Writable
    <3>2. card
      <4>1. CASE LockUnMount("mount")
        <5>1. WaitOver(saveMicroSD["mount"], "micro", CallDepth("mount"))
          BY <2>2, <4>1 DEF LockUnMount
        <5>2. isSaveMicroSD /\ (mountState => card)
          BY <1>1 DEF isSaveMicroSD, RootInv, CardInv
        <5> QED BY <5>1, <5>2 DEF WaitOver, MkdirWorks, Writable
      <4> QED BY <2>7, <4>1
    <3>3. depth'["micro"] >= depth["micro"] /\ depth'["micro"] \in 0..2
      <4>1. depth' \in [Dirs -> 0..2]
        BY BootStepType DEF BootTypeOK, BootNext, DetectProp, WaitMountRun, Movers
      <4>2. CallDepth("mount") \in {1, 2}
        BY DEF CallDepth
      <4>3. \/ depth'["micro"] = depth["micro"]
            \/ depth["micro"] < CallDepth("mount") /\ depth'["micro"] = CallDepth("mount")
        BY <2>2, <2>5, <2>7, <3>2 DEF CreateDir, LockUnMount, WaitMakes, Writable
      <4> QED BY <2>5, <4>1, <4>2, <4>3
    <3>4. n >= 2 => depth'["micro"] = 2
      <4> SUFFICES ASSUME n >= 2 PROVE depth'["micro"] = 2
        OBVIOUS
      <4>1. tstep["mount"] = "create"
        <5>1. tstep["mount"] \in {"create", "locked"}
          BY <1>5 DEF CreateDir, LockUnMount, TGoto
        <5> QED BY <1>1, <5>1 DEF CardInv
      <4>2. CreateDir("mount")
        BY <1>5, <4>1 DEF LockUnMount, TGoto
      <4>3. CallDepth("mount") = 2
        BY <2>1 DEF CallDepth
      <4>4. depth' = [depth EXCEPT !["micro"] = IF @ < 2 THEN 2 ELSE @]
        BY <2>2, <3>2, <4>2, <4>3 DEF CreateDir, Writable
      <4> QED BY <2>5, <4>4
    <3>5. CASE n < Calls
      <4>1. tstep'["mount"] = "create" /\ tcall'["mount"] = n + 1
        BY <3>1, <3>5, PathFacts, LostFacts DEF AfterCall, NextCall
      <4>2. CardInv'
        BY <1>0, <1>1, <2>1, <3>2, <3>4, <4>1 DEF CardInv, inputs
      <4> QED BY <1>3, <2>4, <4>2
    <3>6. CASE ~(n < Calls)
      <4>1. tstep'["mount"] = "change"
        BY <3>1, <3>6, PathFacts DEF AfterCall
      <4>2. LogCats # {} => n >= 2
        BY <2>1, <3>6, FlagOrderFacts
      <4>3. CardInv'
        BY <1>0, <1>1, <3>2, <3>4, <4>1, <4>2 DEF CardInv, inputs
      <4> QED BY <1>3, <2>4, <4>3
    <3> QED BY <2>1, <3>5, <3>6
  <2> QED BY <1>5, <2>6, <2>7
<1>6. CASE SetChange("mount")
  <2>1. /\ tstep["mount"] = "change" /\ tstep'["mount"] = "end" /\ UNCHANGED depth
    BY <1>6, PathFacts DEF SetChange, TGoto, disks
  <2>2. CardInv'
    BY <1>0, <1>1, <2>1 DEF CardInv, inputs
  <2>3. \A c \in LogCats : ReaderInv(c)'
    BY <1>0, <1>1, <2>1 DEF ReaderInv
  <2> QED BY <1>3, <2>2, <2>3
<1> QED BY <1>2, <1>4, <1>5, <1>6 DEF Move

\* detectProp has nothing to do.
LEMMA PollLost ==
  ASSUME BootTypeOK, PathInv, LostInv, (\E c \in LogCats : PollEnable(c)) \/ PollSaveDir
  PROVE  LostInv'
<1> SUFFICES ASSUME moves' = 0 /\ toggles' = 0 PROVE FALSE
  BY DEF LostInv
<1>1. moves = 0 /\ toggles = 0
  BY DEF PollEnable, PollSaveDir, inputs
<1>2. support = seenEnable /\ saveDir = seenRoot
  BY <1>1 DEF LostInv, CardInv, PathInv, RootInv
<1> QED BY <1>2 DEF PollEnable, PollSaveDir

\* The move of a category with a boot log in /data/Asuslog/: its own log is moved, or
\* was moved or lost before.
LEMMA MoveBoot ==
  ASSUME BootTypeOK, PathInv, LostInv, moves = 0, toggles = 0, NEW c \in LogCats, HandleMove(c)
  PROVE  LostToAnother'
<1>1. /\ CardInv /\ (\A d \in LogCats : ReaderInv(d)) /\ LostToAnother
      /\ RootInv /\ \A d \in LogCats : CatInv(d)
  BY DEF LostInv, PathInv
<1>2. /\ rstep[c] = "handle" /\ rflag[c] /\ storePath[c] # ""
      /\ boot' = BootAfter(c, storePath[c]) /\ UNCHANGED inputs
  BY DEF HandleMove, ReadGoto
<1>3. storePath[c] = "wait"
  BY <1>1, <1>2 DEF CatInv
<1>4. tstep["mount"] = "end" /\ boot[c] # "none"
  BY <1>1, <1>2, <1>3 DEF ReaderInv
<1>5. gszLogDir[c] = "micro" /\ card /\ depth["micro"] = 2
  BY <1>1, <1>4 DEF CardInv, CatInv, Early, Named
<1>6. \A b \in LogCats : boot'[b] = IF boot[b] # "wait" THEN boot[b]
                                  ELSE IF b = c THEN "moved" ELSE "lost"
  BY <1>2, <1>3, <1>5 DEF BootAfter, Writable
<1>7. LostToAnother => \A d \in LogCats : boot[d] = "lost" => \E b \in LogCats \ {d} : boot[b] = "moved"
  BY DEF LostToAnother
<1>8. \A b \in LogCats : boot[b] \in {"none", "wait", "moved", "lost"}
  BY LostFacts
<1>9. ASSUME NEW d \in LogCats, boot'[d] = "lost"
      PROVE  \E b \in LogCats \ {d} : boot'[b] = "moved"
  <2>1. CASE boot[d] = "lost"
    BY <1>1, <1>6, <1>7, <2>1
  <2>2. CASE boot[d] = "wait" /\ d # c /\ boot[c] # "lost"
    BY <1>4, <1>6, <1>8, <2>2
  <2>3. CASE boot[d] = "wait" /\ boot[c] = "lost"
    <3>1. PICK b \in LogCats \ {c} : boot[b] = "moved"
      BY <1>1, <1>7, <2>3
    <3> QED BY <1>6, <2>3, <3>1
  <2> QED BY <1>6, <1>9, <2>1, <2>2, <2>3
<1> QED BY <1>9 DEF LostToAnother

\* The readers.
LEMMA ReadLost ==
  ASSUME BootTypeOK, PathInv, LostInv, NEW c \in LogCats, ReadBoot(c)
  PROVE  LostInv'
<1> SUFFICES ASSUME moves' = 0 /\ toggles' = 0
             PROVE  CardInv' /\ (\A d \in LogCats : ReaderInv(d)') /\ LostToAnother'
  BY DEF LostInv
<1>0. UNCHANGED <<inputs, paths, tstep, tcall, lasts>>
  BY DEF ReadBoot, LineChange, HandlePlain, HandleNull, HandleMove, OpenPath,
         ClearWaitMount, ClearChange, movers
<1>1. /\ moves = 0 /\ toggles = 0 /\ CardInv /\ (\A d \in LogCats : ReaderInv(d)) /\ LostToAnother
      /\ RootInv /\ \A d \in LogCats : CatInv(d)
  BY <1>0 DEF LostInv, PathInv, inputs
<1>2. \A d \in LogCats : d # c =>
        /\ storePath'[d] = storePath[d] /\ rstep'[d] = rstep[d] /\ rflag'[d] = rflag[d]
        /\ gbChange'[d] = gbChange[d] /\ (boot[d] # "none" => boot'[d] # "none")
  <2>1. \A d \in LogCats : d # c => (boot[d] # "none" => boot'[d] # "none")
    <3>1. CASE HandleMove(c)
      BY <3>1 DEF HandleMove, BootAfter
    <3>2. CASE OpenPath(c)
      BY <3>2, LostFacts DEF OpenPath
    <3>3. CASE ~HandleMove(c) /\ ~OpenPath(c)
      BY <3>3 DEF ReadBoot, LineChange, HandlePlain, HandleNull, ClearWaitMount, ClearChange, disks
    <3> QED BY <3>1, <3>2, <3>3
  <2> QED BY <2>1, PathFacts, LostFacts
          DEF ReadBoot, LineChange, HandlePlain, HandleNull, HandleMove, OpenPath,
              ClearWaitMount, ClearChange, ReadGoto, flags, reads
<1>3. \A d \in LogCats : d # c => ReaderInv(d)'
  BY <1>0, <1>1, <1>2 DEF ReaderInv
<1>4. CardInv'
  <2>1. depth'["micro"] = depth["micro"]
    <3>1. CASE HandleMove(c)
      <4>1. storePath[c] = "wait"
        BY <1>1, <3>1 DEF HandleMove, ReadGoto, CatInv
      <4> QED BY <3>1, <4>1, PathFacts DEF HandleMove
    <3>2. CASE ~HandleMove(c)
      BY <3>2 DEF ReadBoot, LineChange, HandlePlain, HandleNull, OpenPath, ClearWaitMount,
                  ClearChange, disks
    <3> QED BY <3>1, <3>2
  <2> QED BY <1>0, <1>1, <2>1 DEF CardInv, inputs, lasts
<1>5. CASE HandlePlain(c) \/ HandleMove(c)
  <2>1. rstep'[c] = "open"
    BY <1>5, PathFacts DEF HandlePlain, HandleMove, ReadGoto
  <2>2. ReaderInv(c)'
    BY <2>1 DEF ReaderInv
  <2>3. LostToAnother'
    <3>1. CASE HandlePlain(c)
      BY <1>1, <3>1 DEF HandlePlain, LostToAnother, disks
    <3> QED BY <1>1, <1>5, <3>1, MoveBoot
  <2> QED BY <1>3, <1>4, <2>2, <2>3
<1>6. CASE OpenPath(c)
  <2>1. UNCHANGED <<rflag, storePath, gbChange>>
    BY <1>6 DEF OpenPath, flags
  <2>2. \/ /\ rstep'[c] = "unwait"
           /\ boot' = [boot EXCEPT ![c] = IF @ = "none" /\ storePath[c] = "wait" THEN "wait" ELSE @]
        \/ rstep' = rstep /\ boot' = boot
    BY <1>6, PathFacts DEF OpenPath, ReadGoto
  <2>3. ReaderInv(c)'
    BY <1>0, <1>1, <2>1, <2>2, LostFacts DEF ReaderInv
  <2>4. LostToAnother'
    <3>1. \A d \in LogCats : boot'[d] = boot[d] \/ (boot[d] = "none" /\ boot'[d] = "wait")
      BY <2>2, LostFacts
    <3> QED BY <1>1, <3>1 DEF LostToAnother
  <2> QED BY <1>3, <1>4, <2>3, <2>4
<1>7. CASE LineChange(c) \/ HandleNull(c) \/ ClearWaitMount(c) \/ ClearChange(c)
  <2>1. boot' = boot /\ storePath' = storePath
    BY <1>7 DEF LineChange, HandleNull, ClearWaitMount, ClearChange, disks, reads
  <2>2. LostToAnother'
    BY <1>1, <2>1 DEF LostToAnother
  <2>3. ReaderInv(c)'
    <3>1. CASE LineChange(c)
      <4>1. rstep[c] = "line" /\ rstep'[c] = "handle" /\ gbChange[c]
        BY <3>1, PathFacts DEF LineChange, ReadGoto
      <4> QED BY <1>0, <1>1, <2>1, <4>1 DEF ReaderInv
    <3>2. CASE HandleNull(c)
      BY <1>0, <1>1, <2>1, <3>2 DEF HandleNull, ReaderInv, reads, flags
    <3>3. CASE ClearWaitMount(c)
      <4>1. rstep[c] = "unwait" /\ rstep'[c] = "unchange"
        BY <3>3, PathFacts DEF ClearWaitMount, ReadGoto
      <4> QED BY <1>0, <1>1, <2>1, <4>1 DEF ReaderInv
    <3>4. CASE ClearChange(c)
      <4>1. rstep[c] = "unchange" /\ rstep'[c] = "line" /\ ~gbChange'[c]
        BY <3>4, PathFacts, LostFacts DEF ClearChange, ReadGoto
      <4> QED BY <1>0, <1>1, <2>1, <4>1 DEF ReaderInv
    <3> QED BY <1>7, <3>1, <3>2, <3>3, <3>4
  <2> QED BY <1>3, <1>4, <2>2, <2>3
<1> QED BY <1>5, <1>6, <1>7 DEF ReadBoot

LEMMA LostStep == BootTypeOK /\ PathInv /\ LostInv /\ [BootNext]_bootVars => LostInv'
<1> SUFFICES ASSUME BootTypeOK, PathInv, LostInv, [BootNext]_bootVars PROVE LostInv'
  OBVIOUS
<1>0. PathInv'
  BY PathStep
<1>1. CASE World
  BY <1>1, WorldLost
<1>2. CASE WaitMountRun
  BY <1>0, <1>2, MountLost, MoveLost, PathFacts DEF WaitMountRun
<1>3. CASE DetectProp
  BY <1>0, <1>3, PollLost, MoveLost, PathFacts DEF DetectProp
<1>4. ASSUME NEW c \in LogCats, ReadBoot(c) PROVE LostInv'
  BY <1>4, ReadLost
<1>5. CASE UNCHANGED bootVars
  BY <1>5 DEF bootVars, LostInv, CardInv, ReaderInv, LostToAnother
<1> QED BY <1>1, <1>2, <1>3, <1>4, <1>5 DEF BootNext

\* Type correctness, with resetLogPath's index inside its list of calls.
THEOREM BootTypeCorrect == BootSpec => []BootTypeOK
BY BootInitType, BootStepType, PTL DEF BootSpec

\* What the invariants say of the boot logs.
LEMMA BootFacts == (PathInv => RemovesOnlyWait) /\ (LostInv => LostToAnother)
BY DEF PathInv, RootInv, RemovesOnlyWait, LostInv, LostToAnother

\* As long as the storage root stays, the rm -rf of onHandelLogPath removes nothing but
\* /data/Asuslog/, with any number of categories and of switches.
THEOREM BootRemovesOnlyWait == BootSpec => []RemovesOnlyWait
<1>1. BootInit => BootTypeOK /\ PathInv
  BY BootInitType, PathInit
<1>2. BootTypeOK /\ PathInv /\ [BootNext]_bootVars => (BootTypeOK /\ PathInv)'
  BY BootStepType, PathStep
<1> QED BY <1>1, <1>2, BootFacts, PTL DEF BootSpec

\* Without a change of the settings a boot log is lost only to the move of another
\* category, which brought its own log to the card.
THEOREM BootLostToAnother == BootSpec => []LostToAnother
<1>1. BootInit => BootTypeOK /\ PathInv /\ LostInv
  BY BootInitType, PathInit, LostInit
<1>2. BootTypeOK /\ PathInv /\ LostInv /\ [BootNext]_bootVars => (BootTypeOK /\ PathInv /\ LostInv)'
  BY BootStepType, PathStep, LostStep
<1> QED BY <1>1, <1>2, BootFacts, PTL DEF BootSpec

(***************************************************************************)
(* The machines of MCTool in one behaviour: one of them runs, the others   *)
(* rest in a state that their own invariants allow.                        *)
(***************************************************************************)
MachinesInv ==
  /\ LoggerInv
  /\ MtpInv
  /\ ControlInv
  /\ BootTypeOK /\ PathInv /\ LostInv
  /\ TypeOK /\ BoundInv

\* A step of the instance is a step of each machine, or leaves its variables alone.
LEMMA ToolSteps ==
  [ToolNext]_toolVars =>
    /\ [LoggerNext]_loggerVars
    /\ [MtpNext]_mtpVars
    /\ [ControlNext]_controlVars
    /\ [BootNext]_bootVars
    /\ [Next]_vars
BY DEF ToolNext, toolVars, InLogger, InMtp, InControl, InBoot, InRotation

LEMMA InitMachines == ToolInit => MachinesInv
<1> SUFFICES ASSUME ToolInit PROVE MachinesInv
  OBVIOUS
<1>1. LoggerInit /\ MtpInit /\ ControlInit /\ BootInit /\ Init
  BY DEF ToolInit
<1>2. LoggerInv /\ MtpInv /\ ControlInv
  BY <1>1, LoggerInitInv, MtpInitInv, ControlInitInv
<1>3. BootTypeOK /\ PathInv /\ LostInv
  BY <1>1, BootInitType, PathInit, LostInit
<1>4. TypeOK /\ BoundInv
  BY <1>1, BoundInit
<1> QED BY <1>2, <1>3, <1>4 DEF MachinesInv

LEMMA StepMachines == MachinesInv /\ [ToolNext]_toolVars => MachinesInv'
<1> SUFFICES ASSUME MachinesInv, [ToolNext]_toolVars PROVE MachinesInv'
  OBVIOUS
<1>1. /\ [LoggerNext]_loggerVars /\ [MtpNext]_mtpVars /\ [ControlNext]_controlVars
      /\ [BootNext]_bootVars /\ [Next]_vars
  BY ToolSteps
<1>2. LoggerInv' /\ MtpInv' /\ ControlInv'
  BY <1>1, LoggerStepInv, MtpStepInv, ControlStepInv DEF MachinesInv
<1>3. BootTypeOK' /\ PathInv' /\ LostInv'
  BY <1>1, BootStepType, PathStep, LostStep DEF MachinesInv
<1>4. TypeOK' /\ BoundInv'
  BY <1>1, TypeStep, BoundStep DEF MachinesInv
<1> QED BY <1>2, <1>3, <1>4 DEF MachinesInv

\* The machines of the log tool keep their types and their promises when one of them
\* runs and the others rest: loggers match the switches, no log is lost by a clear or a
\* move of the boot logs, and the number of files is bounded, for any set of machines,
\* categories, limits, deaths and moves.
THEOREM ToolCorrect ==
  ToolSpec => [](/\ ToolTypeOK /\ LoggersMatch
                 /\ NoLogLost /\ OnOnlyIfWanted
                 /\ RemovesOnlyWait /\ LostToAnother /\ Bounded)
<1>1. MachinesInv => ToolTypeOK /\ LoggersMatch
  BY LoggerTyped, LoggerSettles, MtpFacts DEF MachinesInv, ToolTypeOK
<1>2. MachinesInv => NoLogLost /\ OnOnlyIfWanted
  BY ControlFacts DEF MachinesInv
<1>3. MachinesInv => RemovesOnlyWait /\ LostToAnother
  BY BootFacts DEF MachinesInv
<1>4. MachinesInv => Bounded
  BY DEF MachinesInv, BoundInv
<1> QED BY <1>1, <1>2, <1>3, <1>4, InitMachines, StepMachines, PTL DEF ToolSpec

\* With a limit that is only raised the rotation of the instance keeps the newest files
\* and implements the bounded log, whatever machine runs.
THEOREM ToolRotates == Regular => (ToolSpec => []KeepsNewest /\ ImplementsBoundedLog)
<1> SUFFICES ASSUME Regular PROVE ToolSpec => []KeepsNewest /\ ImplementsBoundedLog
  OBVIOUS
<1>1. ToolInit => KeepInv /\ Abstract!Init
  BY KeepInit, ImplementsInit DEF ToolInit
<1>2. KeepInv /\ [ToolNext]_toolVars => KeepInv'
  BY ToolSteps, KeepStep
<1>3. KeepInv /\ [ToolNext]_toolVars => [Abstract!Next]_<<{f.gen : f \in files}, gen>>
  BY ToolSteps, ImplementsStep, KeepFacts
<1> QED BY <1>1, <1>2, <1>3, KeepFacts, PTL DEF ToolSpec, ImplementsBoundedLog, Abstract!Spec
=============================================================================
