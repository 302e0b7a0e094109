----------------------------- MODULE BootMount -----------------------------
(***************************************************************************)
(* The boot path of the log daemon when the logs belong on a micro-SD card *)
(* that is not mounted yet (libs/logdump.cpp, libs/logtool.cpp).           *)
(*                                                                         *)
(* init() then logs to /data/Asuslog/ ("wait") and main() creates a third  *)
(* kind of thread, waitMountRun, that waits for the card and moves the     *)
(* logs, while detectProp may move them too and the readers reopen their   *)
(* files whenever they see a Change flag.  Nothing is locked.              *)
(*                                                                         *)
(* Abstractions.  A directory is its storage root and how deep it exists   *)
(* (0 nothing, 1 the root, 2 the dated directory all categories share).    *)
(* Descriptors, rotation and the single accesses of callback are in        *)
(* LogDump; here a poll of one category is one step, in any order.         *)
(***************************************************************************)
EXTENDS Integers, Sequences, FiniteSets

CONSTANTS
  LogCats,       \* the log categories
  FlagOrder,     \* order in which waitMountRun raises the WaitMount flags
  MaxToggles,    \* bound: how often the user switches a category
  MaxMoves       \* bound: how often KEY_SAVE_DIR changes or the card is pulled

ASSUME BootMountAssumption ==
  /\ FlagOrder \in Seq(LogCats)
  /\ \A c \in LogCats : \E i \in 1..Len(FlagOrder) : FlagOrder[i] = c
  /\ Len(FlagOrder) = Cardinality(LogCats)    \* each once
  /\ MaxToggles \in Nat /\ MaxMoves \in Nat

VARIABLES
  support, saveDir,            \* the enable properties and KEY_SAVE_DIR
  card, mountState, late,      \* the card, KEY_BOOTMOUNT_STATE, uptime > 60 s
  gbEnable, gbChange, gbWaitMount,
  gszLogDir, gszLogRootDir,
  depth,         \* how deep each storage root's directory exists
  rstep, rflag, storePath,     \* reader: control, its WaitMount argument, its file
  tstep, tcall,                \* mover: control, the createDirWaitMount call it is at
  saveMicroSD,   \* mover: waitMount's first argument
  seenEnable, seenRoot, dynRoot,   \* detectProp's last values, and the root just read
  boot,          \* history: what became of the category's boot log
  removed,       \* history: the roots removed by onHandelLogPath
  down,          \* the process ended: "no", exit(-1), or a null pointer
  toggles, moves

inputs == <<support, saveDir, card, mountState, late, toggles, moves>>
flags  == <<gbEnable, gbChange, gbWaitMount>>
paths  == <<gszLogDir, gszLogRootDir>>
disks  == <<depth, boot, removed>>
reads  == <<rstep, rflag, storePath>>
movers == <<tstep, tcall, saveMicroSD>>
lasts  == <<seenEnable, seenRoot, dynRoot>>
bootVars == <<support, saveDir, card, mountState, late, toggles, moves,
              gbEnable, gbChange, gbWaitMount, gszLogDir, gszLogRootDir,
              depth, boot, removed, rstep, rflag, storePath,
              tstep, tcall, saveMicroSD, seenEnable, seenRoot, dynRoot, down>>

Dirs == {"wait", "micro", "internal"}
Movers == {"mount", "main"}        \* waitMountRun and detectProp
Calls == 1 + Cardinality(LogCats)  \* directories resetLogPath creates

Running == down = "no"

\* The file system the directory lives on accepts mkdir.
Writable(d) == d = "micro" => card

isSaveMicroSD == saveDir = "micro"

\* After init() found the card missing and startRecordLog started the readers.
\* The broadcast may have come before setBootMountEnable(false): then the card
\* is there and KEY_BOOTMOUNT_STATE says it is not.
BootInit ==
  /\ support \in [LogCats -> BOOLEAN]
  /\ saveDir = "micro"
  /\ card \in BOOLEAN
  /\ mountState = FALSE /\ late = FALSE
  /\ gbEnable \in {support, [c \in LogCats |-> FALSE]}   \* checkMemorySafe
  /\ gbChange = gbEnable
  /\ gbWaitMount = [c \in LogCats |-> FALSE]
  /\ gszLogRootDir = "wait"
  /\ gszLogDir = [c \in LogCats |-> "wait"]
  /\ depth = [d \in Dirs |-> IF d = "micro" THEN 0 ELSE 2]
  /\ rstep = [c \in LogCats |-> IF gbEnable[c] THEN "line" ELSE "off"]
  /\ rflag = [c \in LogCats |-> FALSE]
  /\ storePath = [c \in LogCats |-> ""]
  /\ tstep = [t \in Movers |-> IF t = "mount" THEN "wait" ELSE "poll"]
  /\ tcall = [t \in Movers |-> 1]
  /\ saveMicroSD = [t \in Movers |-> TRUE]
  /\ seenEnable = support
  /\ seenRoot = saveDir /\ dynRoot = saveDir
  /\ boot = [c \in LogCats |-> "none"]
  /\ removed = {}
  /\ down = "no"
  /\ toggles = 0 /\ moves = 0

(***************************************************************************)
(* The card, the clock, the app and MountReceiver.                         *)
(***************************************************************************)
Toggle(c) ==
  /\ toggles < MaxToggles
  /\ toggles' = toggles + 1
  /\ support' = [support EXCEPT ![c] = ~@]
  /\ UNCHANGED <<saveDir, card, mountState, late, moves>>

ChooseRoot(d) ==
  /\ moves < MaxMoves
  /\ d # saveDir
  /\ moves' = moves + 1
  /\ saveDir' = d
  /\ UNCHANGED <<support, card, mountState, late, toggles>>

\* MountReceiver: an unmounted card sends the logs to internal storage.
Unmounted ==
  /\ moves < MaxMoves
  /\ card
  /\ moves' = moves + 1
  /\ card' = FALSE
  /\ saveDir' = "internal"
  /\ UNCHANGED <<support, mountState, late, toggles>>

\* The card is mounted; MountReceiver's broadcast comes later.
Mounted ==
  /\ ~card
  /\ card' = TRUE
  /\ UNCHANGED <<support, saveDir, mountState, late, toggles, moves>>

MediaMounted ==
  /\ card /\ ~mountState
  /\ mountState' = TRUE
  /\ UNCHANGED <<support, saveDir, card, late, toggles, moves>>

Uptime60 ==
  /\ ~late
  /\ late' = TRUE
  /\ UNCHANGED <<support, saveDir, card, mountState, toggles, moves>>

World ==
  /\ Running
  /\ \/ \E c \in LogCats : Toggle(c)
     \/ \E d \in {"micro", "internal"} : ChooseRoot(d)
     \/ Unmounted \/ Mounted \/ MediaMounted \/ Uptime60
  /\ UNCHANGED <<flags, paths, disks, reads, movers, lasts, down>>

(***************************************************************************)
(* waitMount, createDirWaitMount and resetLogPath, which waitMountRun and  *)
(* detectProp's callback run side by side on the same globals.             *)
(***************************************************************************)
TGoto(t, from, to) ==
  /\ Running
  /\ tstep[t] = from
  /\ tstep' = [tstep EXCEPT ![t] = to]

\* mkdir without -p: the parent must be there.
MkdirWorks(d, n) == Writable(d) /\ depth[d] >= n - 1

\* Mutant: after the first minute only the broadcast ends the wait.
WaitOverBroadcast(byCard, d, n) ==
  \/ byCard /\ ~isSaveMicroSD
  \/ byCard /\ mountState
  \/ ~byCard /\ MkdirWorks(d, n)

\* waitMount(saveMicroSD, path) leaves its loop.
WaitOver(byCard, d, n) ==
  \/ byCard /\ ~isSaveMicroSD
  \/ byCard /\ late /\ MkdirWorks(d, n)
  \/ byCard /\ ~late /\ mountState
  \/ ~byCard /\ MkdirWorks(d, n)

\* The mkdir of the waiting loop; the exits before it make nothing.
WaitMakes(byCard, d, n) ==
  IF (byCard => late /\ isSaveMicroSD) /\ depth[d] < n
  THEN [depth EXCEPT ![d] = n] ELSE depth

SetAllDir(t) ==
  /\ TGoto(t, "setdir", "create")
  /\ gszLogDir' = [c \in LogCats |-> gszLogRootDir]
  /\ tcall' = [tcall EXCEPT ![t] = 1]
  /\ UNCHANGED <<inputs, flags, gszLogRootDir, disks, reads, saveMicroSD, lasts, down>>

\* The path of the call: the root, then a category's dated directory.
CallDepth(t) == IF tcall[t] = 1 THEN 1 ELSE 2
CallDir(t) == IF tcall[t] = 1 THEN gszLogRootDir ELSE gszLogDir[FlagOrder[tcall[t] - 1]]

AfterCall(t) == IF tcall[t] < Calls THEN "create" ELSE "change"
NextCall(t) == [tcall EXCEPT ![t] = IF @ < Calls THEN @ + 1 ELSE 1]

\* createDirWaitMount: mkdir -p, or lockUnMount with the root property read now.
CreateDir(t) ==
  LET d == CallDir(t) IN
  /\ \/ /\ Writable(d)
        /\ TGoto(t, "create", AfterCall(t))
        /\ tcall' = NextCall(t)
        /\ depth' = [depth EXCEPT ![d] = IF @ < CallDepth(t) THEN CallDepth(t) ELSE @]
        /\ UNCHANGED saveMicroSD
     \/ /\ ~Writable(d)
        /\ TGoto(t, "create", "locked")
        /\ saveMicroSD' = [saveMicroSD EXCEPT ![t] = isSaveMicroSD]
        /\ UNCHANGED <<tcall, depth>>
  /\ UNCHANGED <<inputs, flags, paths, boot, removed, reads, lasts, down>>

LockUnMount(t) ==
  /\ WaitOver(saveMicroSD[t], CallDir(t), CallDepth(t))
  /\ TGoto(t, "locked", AfterCall(t))
  /\ tcall' = NextCall(t)
  /\ depth' = WaitMakes(saveMicroSD[t], CallDir(t), CallDepth(t))
  /\ UNCHANGED <<inputs, flags, paths, boot, removed, reads, saveMicroSD, lasts, down>>

\* The Change flags last; detectProp then remembers the root it moved to.
SetChange(t) ==
  /\ TGoto(t, "change", IF t = "mount" THEN "end" ELSE "poll")
  /\ gbChange' = [c \in LogCats |-> TRUE]
  /\ seenRoot' = IF t = "main" THEN dynRoot ELSE seenRoot
  /\ UNCHANGED <<inputs, gbEnable, gbWaitMount, paths, disks, reads, tcall,
                 saveMicroSD, seenEnable, dynRoot, down>>

Move(t) == SetAllDir(t) \/ CreateDir(t) \/ LockUnMount(t) \/ SetChange(t)

(***************************************************************************)
(* waitMountRun                                                            *)
(***************************************************************************)
WaitMount ==
  /\ WaitOver(TRUE, gszLogRootDir, 1)
  /\ TGoto("mount", "wait", "saved")
  /\ depth' = WaitMakes(TRUE, gszLogRootDir, 1)
  /\ UNCHANGED <<inputs, flags, paths, boot, removed, reads, tcall, saveMicroSD, lasts, down>>

\* if(isSaveMicroSD())
TestSaved ==
  /\ TGoto("mount", "saved", IF isSaveMicroSD THEN "root" ELSE "end")
  /\ UNCHANGED <<inputs, flags, paths, disks, reads, tcall, saveMicroSD, lasts, down>>

\* Mutant: the root is not read again after the wait.
MountedRootKept ==
  /\ TGoto("mount", "root", "flags")
  /\ UNCHANGED <<inputs, flags, paths, disks, reads, tcall, saveMicroSD, lasts, down>>

\* getLogRootPath and checkMemorySafe: without space no flag is raised.
MountedRoot ==
  /\ \E diskSpaceValid \in BOOLEAN :
       TGoto("mount", "root", IF diskSpaceValid THEN "flags" ELSE "setdir")
  /\ gszLogRootDir' = saveDir
  /\ UNCHANGED <<inputs, flags, gszLogDir, disks, reads, tcall, saveMicroSD, lasts, down>>

\* gb*WaitMount = true for each category that is supported now.
RaiseWaitMount ==
  LET i == tcall["mount"] IN
  /\ TGoto("mount", "flags", IF i < Len(FlagOrder) THEN "flags" ELSE "setdir")
  /\ gbWaitMount' = [gbWaitMount EXCEPT ![FlagOrder[i]] = @ \/ support[FlagOrder[i]]]
  /\ tcall' = [tcall EXCEPT !["mount"] = IF i < Len(FlagOrder) THEN i + 1 ELSE 1]
  /\ UNCHANGED <<inputs, gbEnable, gbChange, paths, disks, reads, saveMicroSD, lasts, down>>

WaitMountRun == WaitMount \/ TestSaved \/ MountedRoot \/ RaiseWaitMount \/ Move("mount")

(***************************************************************************)
(* detectProp and callback                                                 *)
(***************************************************************************)
PollEnable(c) ==
  /\ Running
  /\ tstep["main"] = "poll"
  /\ support[c] # seenEnable[c]
  /\ seenEnable' = [seenEnable EXCEPT ![c] = support[c]]
  /\ gbEnable' = [gbEnable EXCEPT ![c] = support[c]]
  /\ \/ /\ support[c]
        /\ gszLogDir' = [gszLogDir EXCEPT ![c] = gszLogRootDir]
        /\ gbChange' = [gbChange EXCEPT ![c] = @ \/ rstep[c] = "off"]
        /\ rstep' = [rstep EXCEPT ![c] = IF @ = "off" THEN "line" ELSE @]
     \/ /\ ~support[c]
        /\ gbChange' = [gbChange EXCEPT ![c] = TRUE]
        /\ UNCHANGED <<gszLogDir, rstep>>
  /\ UNCHANGED <<inputs, gbWaitMount, gszLogRootDir, disks, rflag, storePath,
                 movers, seenRoot, dynRoot, down>>

\* LOG_PATH_CHANGE: the files are closed (LogDump), then the root is stored.
PollSaveDir ==
  /\ saveDir # seenRoot
  /\ TGoto("main", "poll", "setdir")
  /\ gszLogRootDir' = saveDir
  /\ dynRoot' = saveDir
  /\ UNCHANGED <<inputs, flags, gszLogDir, disks, reads, tcall, saveMicroSD,
                 seenEnable, seenRoot, down>>

DetectProp == (\E c \in LogCats : PollEnable(c)) \/ PollSaveDir \/ Move("main")

(***************************************************************************)
(* The readers' change branch: onOpenLogFile and onHandelLogPath.          *)
(***************************************************************************)
ReadGoto(c, from, to) ==
  /\ Running
  /\ rstep[c] = from
  /\ rstep' = [rstep EXCEPT ![c] = to]

\* A line arrived and Change is up; the WaitMount flag is passed by value.
LineChange(c) ==
  /\ ReadGoto(c, "line", "handle")
  /\ gbEnable[c] /\ gbChange[c]
  /\ rflag' = [rflag EXCEPT ![c] = gbWaitMount[c]]
  /\ UNCHANGED <<inputs, flags, paths, disks, storePath, movers, lasts, down>>

\* onHandelLogPath without the flag: the path is built from the directory.
HandlePlain(c) ==
  /\ ReadGoto(c, "handle", "open")
  /\ ~rflag[c]
  /\ storePath' = [storePath EXCEPT ![c] = gszLogDir[c]]
  /\ UNCHANGED <<inputs, flags, paths, disks, rflag, movers, lasts, down>>

\* With the flag and no earlier file, strrchr returns NULL and strncpy gets a
\* length of (size_t)-storePath.
HandleNull(c) ==
  /\ Running
  /\ rstep[c] = "handle"
  /\ rflag[c] /\ storePath[c] = ""
  /\ down' = "null"
  /\ UNCHANGED <<inputs, flags, paths, disks, reads, movers, lasts>>

\* What the copy and the removal of directory old leave of the boot logs.
BootAfter(c, old) ==
  [b \in LogCats |->
     IF boot[b] # "wait" \/ old # "wait" THEN boot[b]
     ELSE IF b = c /\ gszLogDir[c] # "wait" /\ Writable(gszLogDir[c])
             /\ depth[gszLogDir[c]] = 2
          THEN "moved" ELSE "lost"]

\* With the flag: cat old > bootstrap_new, then rm -rf of the old path up to
\* its date, which is the storage root and not the category's own directory.
HandleMove(c) ==
  LET old == storePath[c] IN
  /\ ReadGoto(c, "handle", "open")
  /\ rflag[c] /\ old # ""
  /\ storePath' = [storePath EXCEPT ![c] = gszLogDir[c]]
  /\ boot' = BootAfter(c, old)
  /\ depth' = [depth EXCEPT ![old] = IF Writable(old) THEN 0 ELSE @]
  /\ removed' = removed \cup {old}
  /\ UNCHANGED <<inputs, flags, paths, rflag, movers, lasts, down>>

\* openfile, or exit(-1) when the dated directory is not there.
OpenPath(c) ==
  LET there == Writable(storePath[c]) /\ depth[storePath[c]] = 2 IN
  /\ \/ /\ ReadGoto(c, "open", "unwait")
        /\ there
        /\ boot' = [boot EXCEPT ![c] =
                      IF @ = "none" /\ storePath[c] = "wait" THEN "wait" ELSE @]
        /\ UNCHANGED down
     \/ /\ Running
        /\ rstep[c] = "open"
        /\ ~there
        /\ down' = "exit"
        /\ UNCHANGED <<rstep, boot>>
  /\ UNCHANGED <<inputs, flags, paths, depth, removed, rflag, storePath, movers, lasts>>

\* Mutant: gb*WaitMount stays up after the move.
ClearWaitMountKeeps(c) ==
  /\ ReadGoto(c, "unwait", "unchange")
  /\ UNCHANGED <<inputs, flags, paths, disks, rflag, storePath, movers, lasts, down>>

\* gb*WaitMount = false, whoever raised it meanwhile.
ClearWaitMount(c) ==
  /\ ReadGoto(c, "unwait", "unchange")
  /\ gbWaitMount' = [gbWaitMount EXCEPT ![c] = FALSE]
  /\ UNCHANGED <<inputs, gbEnable, gbChange, paths, disks, rflag, storePath, movers, lasts, down>>

ClearChange(c) ==
  /\ ReadGoto(c, "unchange", "line")
  /\ gbChange' = [gbChange EXCEPT ![c] = FALSE]
  /\ UNCHANGED <<inputs, gbEnable, gbWaitMount, paths, disks, rflag, storePath, movers, lasts, down>>

ReadBoot(c) ==
  \/ LineChange(c) \/ HandlePlain(c) \/ HandleNull(c) \/ HandleMove(c)
  \/ OpenPath(c) \/ ClearWaitMount(c) \/ ClearChange(c)

BootNext ==
  \/ World \/ WaitMountRun \/ DetectProp
  \/ \E c \in LogCats : ReadBoot(c)

\* Threads are scheduled and time passes; no line, card or user is promised.
BootFairness ==
  /\ WF_bootVars(WaitMountRun)
  /\ WF_bootVars(DetectProp)
  /\ WF_bootVars(World /\ late' # late)

BootSpec == BootInit /\ [][BootNext]_bootVars /\ BootFairness

(***************************************************************************)
(* Properties.                                                             *)
(***************************************************************************)

\* Type invariant, with the index of resetLogPath's calls inside its list.
BootTypeOK ==
  /\ support \in [LogCats -> BOOLEAN] /\ seenEnable \in [LogCats -> BOOLEAN]
  /\ saveDir \in {"micro", "internal"} /\ seenRoot \in {"micro", "internal"}
  /\ dynRoot \in {"micro", "internal"}
  /\ card \in BOOLEAN /\ mountState \in BOOLEAN /\ late \in BOOLEAN
  /\ gbEnable \in [LogCats -> BOOLEAN] /\ gbChange \in [LogCats -> BOOLEAN]
  /\ gbWaitMount \in [LogCats -> BOOLEAN]
  /\ gszLogRootDir \in Dirs /\ gszLogDir \in [LogCats -> Dirs]
  /\ depth \in [Dirs -> 0..2]
  /\ rstep \in [LogCats -> {"off", "line", "handle", "open", "unwait", "unchange"}]
  /\ rflag \in [LogCats -> BOOLEAN]
  /\ storePath \in [LogCats -> Dirs \cup {""}]
  /\ tstep \in [Movers -> {"wait", "saved", "root", "flags", "setdir", "create",
                           "locked", "change", "poll", "end"}]
  /\ tcall \in [Movers -> 1..Calls]
  /\ saveMicroSD \in [Movers -> BOOLEAN]
  /\ boot \in [LogCats -> {"none", "wait", "moved", "lost"}]
  /\ removed \subseteq Dirs
  /\ down \in {"no", "exit", "null"}
  /\ toggles \in 0..MaxToggles /\ moves \in 0..MaxMoves

\* The rm -rf of onHandelLogPath: as long as the storage root was not changed
\* since boot, only the temporary /data/Asuslog/ is ever removed, however the
\* three kinds of thread interleave and the user switches categories.
RemovesOnlyWait == moves = 0 => removed \subseteq {"wait"}

\* A boot log that is lost while nobody touched the settings was removed by
\* another category's move, which itself succeeded: a category alone keeps it.
LostToAnother ==
  moves = 0 /\ toggles = 0 =>
    \A c \in LogCats : boot[c] = "lost" =>
      \E b \in LogCats \ {c} : boot[b] = "moved"

\* Whoever moves the logs, they arrive: a storage root that changed at most
\* once since boot, then stays and can be written, is the directory of every
\* category for good, even if the mount broadcast was missed and although
\* waitMountRun and detectProp may both be moving the logs.
RootFollowed ==
  \A d \in {"micro", "internal"} :
    [](moves <= 1) /\ <>[](saveDir = d /\ Writable(d)) =>
      <>[](~Running \/ \A c \in LogCats : gszLogDir[c] = d)
=============================================================================
