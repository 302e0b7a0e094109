------------------------------ MODULE LogDump ------------------------------
(***************************************************************************)
(* The native log daemon (libs/logdump.cpp with libs/detectprop.cpp).      *)
(*                                                                         *)
(* One reader thread per log category copies the lines of a logcat pipe    *)
(* into the category's file; the main thread starts the readers and then   *)
(* polls the system properties once a second for ever, switching           *)
(* categories on and off and moving the logs to another storage root.  The *)
(* two kinds of thread share plain globals (gb*Enable, gb*Change, g*fd,    *)
(* gszLog*Dir) without any lock: each step below is one access to a global *)
(* that the other side can see, or one system call on a descriptor.        *)
(*                                                                         *)
(* Abstractions.  A directory is its storage root; a file is the category  *)
(* and directory it was opened for; byteCount counts lines and rotation    *)
(* happens at MaxLines instead of 8000 KB; the failing write's -1 is not  *)
(* added to byteCount; descriptors 1 and 2 are not modelled.  The micro-SD *)
(* boot path (waitMountRun) is not in this module.                         *)
(***************************************************************************)
EXTENDS Integers, Sequences, FiniteSets

CONSTANTS
  Cats,          \* the log categories: kernel, main, radio, event
  Roots,         \* the values KEY_SAVE_DIR can take
  StartOrder,    \* order of the categories in startRecordLog
  SnapOrder,     \* order in which detectProp takes its first snapshot
  PollOrder,     \* order in which detectProp polls
  CloseOrder,    \* order in which LOG_PATH_CHANGE closes the files
  ClosesOnStop,  \* categories whose stop branch closes the file (radio, event)
  EnableFirst,   \* categories whose stop branch clears Enable first (event)
  MaxFd,         \* largest descriptor number of the process
  MaxLines,      \* lines in a file before rotation
  Stdin, Free    \* descriptor table entries that are not log files

ASSUME OrderAssumption ==
  /\ StartOrder \in Seq(Cats) /\ SnapOrder \in Seq(Cats)
  /\ PollOrder \in Seq(Cats) /\ CloseOrder \in Seq(Cats)
  /\ StartOrder # << >> /\ SnapOrder # << >>
  /\ PollOrder # << >> /\ CloseOrder # << >>
  /\ \A i, j \in 1..Len(StartOrder) : StartOrder[i] = StartOrder[j] => i = j

ASSUME SetAssumption ==
  /\ ClosesOnStop \subseteq Cats /\ EnableFirst \subseteq Cats
  /\ MaxFd \in Nat /\ MaxLines \in Nat \ {0}

File == [cat : Cats, dir : Roots]

ASSUME TableAssumption == Stdin \notin File /\ Free \notin File /\ Stdin # Free

Fds == 0..MaxFd

VARIABLES
  prop,          \* persist.asuslog.*.enable, written by the app
  rootProp,      \* KEY_SAVE_DIR, written by the app
  gbEnable, gbChange,          \* per category flags
  gfd,           \* g*fd: the category's descriptor, 0 for none
  g_p,           \* g_p* # NULL: the logcat pipe was opened
  gszLogDir, gszLogRootDir,    \* target directory per category, and the root
  fdTable,       \* the process's descriptor table
  rpc, rfd, szPath, byteCount, \* reader: control, open()'s result until it is
                               \* stored, directory of the file, size
  dpc, di,       \* main thread: control and position in the current order
  last, szlogRoot, dyn,        \* detectProp's last seen values, and the root just read
  alive          \* FALSE after exit(-1)

env     == <<prop, rootProp>>
dirs    == <<gszLogDir, gszLogRootDir>>
reader  == <<rpc, rfd, szPath, byteCount>>
seen    == <<last, szlogRoot, dyn>>
control == <<dpc, di>>
vars == <<prop, rootProp, gbEnable, gbChange, gfd, g_p, gszLogDir, gszLogRootDir,
          fdTable, rpc, rfd, szPath, byteCount, dpc, di, last, szlogRoot, dyn, alive>>

(***************************************************************************)
(* System calls on the descriptor table.                                   *)
(***************************************************************************)
FileOf(c, d) == [cat |-> c, dir |-> d]

FreeFds == {n \in Fds : fdTable[n] = Free}

\* open() returns the lowest number that is free.
IsLowestFree(n) == n \in FreeFds /\ \A m \in FreeFds : n <= m

\* close(n): frees the number, whatever it refers to by now; EBADF is ignored.
Close(n) == [fdTable EXCEPT ![n] = Free]

\* closelogfd(fd): descriptor 0 stands for "no file" and is left alone.
Closelogfd(n) == IF n # 0 THEN Close(n) ELSE fdTable

(***************************************************************************)
(* Reader threads: start_kernel_run, start_main_run, start_radio_run and   *)
(* start_Events_run are the same loop over their own globals.              *)
(***************************************************************************)
RGoto(c, from, to) ==
  /\ alive
  /\ rpc[c] = from
  /\ rpc' = [rpc EXCEPT ![c] = to]

\* gbWrite*: raised around write() only.
gbWrite(c) == rpc[c] \in {"write", "wrote"}

\* fgets returned a line; the loop body first tests Enable.
Fgets(c) ==
  /\ RGoto(c, "fgets", IF gbEnable[c] THEN "change" ELSE "close")
  /\ UNCHANGED <<env, gbEnable, gbChange, gfd, g_p, dirs, fdTable, rfd, szPath,
                 byteCount, control, seen, alive>>

TestChange(c) ==
  /\ RGoto(c, "change", IF gbChange[c] THEN "reopen" ELSE "guard")
  /\ UNCHANGED <<env, gbEnable, gbChange, gfd, g_p, dirs, fdTable, rfd, szPath,
                 byteCount, control, seen, alive>>

\* Mutant: onOpenLogFile forgets the file that is still open.
ReopenKeeps(c) ==
  /\ RGoto(c, "reopen", "open")
  /\ UNCHANGED <<env, gbEnable, gbChange, gfd, g_p, dirs, fdTable, rfd, szPath,
                 byteCount, control, seen, alive>>

\* onOpenLogFile, first half: the file that is still open is closed.
ReopenClose(c) ==
  /\ RGoto(c, "reopen", "open")
  /\ fdTable' = Closelogfd(gfd[c])
  /\ UNCHANGED <<env, gbEnable, gbChange, gfd, g_p, dirs, rfd, szPath,
                 byteCount, control, seen, alive>>

\* Mutant: descriptor 0 is taken for a failure of open().
OpenFileZero(c, d, from, to) ==
  \/ \E n \in Fds \ {0} :
       /\ IsLowestFree(n)
       /\ RGoto(c, from, to)
       /\ rfd' = [rfd EXCEPT ![c] = n]
       /\ fdTable' = [fdTable EXCEPT ![n] = FileOf(c, d)]
       /\ alive' = alive
  \/ /\ FreeFds = {} \/ 0 \in FreeFds
     /\ alive
     /\ rpc[c] = from
     /\ alive' = FALSE
     /\ UNCHANGED <<rpc, rfd, fdTable>>

\* openfile, or exit(-1) when there is no descriptor left.
OpenFile(c, d, from, to) ==
  \/ \E n \in Fds :
       /\ IsLowestFree(n)
       /\ RGoto(c, from, to)
       /\ rfd' = [rfd EXCEPT ![c] = n]
       /\ fdTable' = [fdTable EXCEPT ![n] = FileOf(c, d)]
       /\ alive' = alive
  \/ /\ FreeFds = {}
     /\ alive
     /\ rpc[c] = from
     /\ alive' = FALSE
     /\ UNCHANGED <<rpc, rfd, fdTable>>

\* onOpenLogFile, second half: the path is built from the directory global.
ReopenOpen(c) ==
  /\ OpenFile(c, gszLogDir[c], "open", "assign")
  /\ szPath' = [szPath EXCEPT ![c] = gszLogDir[c]]
  /\ UNCHANGED <<env, gbEnable, gbChange, gfd, g_p, dirs, byteCount, control, seen>>

\* The new descriptor is stored and its size read back; fstat on a number
\* that was closed meanwhile leaves the size uninitialised.
ReopenAssign(c) ==
  /\ RGoto(c, "assign", "clear")
  /\ gfd' = [gfd EXCEPT ![c] = rfd[c]]
  /\ rfd' = [rfd EXCEPT ![c] = 0]
  /\ \E size \in IF fdTable[rfd[c]] = FileOf(c, szPath[c]) THEN {0} ELSE 0..MaxLines :
       byteCount' = [byteCount EXCEPT ![c] = size]
  /\ UNCHANGED <<env, gbEnable, gbChange, g_p, dirs, fdTable, szPath,
                 control, seen, alive>>

ReopenClear(c) ==
  /\ RGoto(c, "clear", "guard")
  /\ gbChange' = [gbChange EXCEPT ![c] = FALSE]
  /\ UNCHANGED <<env, gbEnable, gfd, g_p, dirs, fdTable, rfd, szPath,
                 byteCount, control, seen, alive>>

AfterLine(c) == IF byteCount[c] >= MaxLines THEN "rotate" ELSE "fgets"

\* if(g*fd != 0): without a file the line is dropped.
TestFd(c) ==
  /\ RGoto(c, "guard", IF gfd[c] # 0 THEN "mark" ELSE AfterLine(c))
  /\ UNCHANGED <<env, gbEnable, gbChange, gfd, g_p, dirs, fdTable, rfd, szPath,
                 byteCount, control, seen, alive>>

\* gbWrite = true
MarkWrite(c) ==
  /\ RGoto(c, "mark", "write")
  /\ UNCHANGED <<env, gbEnable, gbChange, gfd, g_p, dirs, fdTable, rfd, szPath,
                 byteCount, control, seen, alive>>

\* write(g*fd, line): the global is read again.
WriteLine(c) ==
  /\ RGoto(c, "write", "wrote")
  /\ byteCount' = [byteCount EXCEPT ![c] =
                     IF fdTable[gfd[c]] # Free /\ @ < MaxLines THEN @ + 1 ELSE @]
  /\ UNCHANGED <<env, gbEnable, gbChange, gfd, g_p, dirs, fdTable, rfd, szPath,
                 control, seen, alive>>

\* gbWrite = false, and the size test.
UnmarkWrite(c) ==
  /\ RGoto(c, "wrote", AfterLine(c))
  /\ UNCHANGED <<env, gbEnable, gbChange, gfd, g_p, dirs, fdTable, rfd, szPath,
                 byteCount, control, seen, alive>>

\* rotateLogs: close(fd) without the test against 0, then the next file of
\* the directory the current path names.
RotateClose(c) ==
  /\ RGoto(c, "rotate", "rotopen")
  /\ fdTable' = Close(gfd[c])
  /\ UNCHANGED <<env, gbEnable, gbChange, gfd, g_p, dirs, rfd, szPath,
                 byteCount, control, seen, alive>>

RotateOpen(c) ==
  /\ OpenFile(c, szPath[c], "rotopen", "rotassign")
  /\ UNCHANGED <<env, gbEnable, gbChange, gfd, g_p, dirs, szPath, byteCount,
                 control, seen>>

RotateAssign(c) ==
  /\ RGoto(c, "rotassign", "fgets")
  /\ gfd' = [gfd EXCEPT ![c] = rfd[c]]
  /\ rfd' = [rfd EXCEPT ![c] = 0]
  /\ byteCount' = [byteCount EXCEPT ![c] = 0]
  /\ UNCHANGED <<env, gbEnable, gbChange, g_p, dirs, fdTable, szPath,
                 control, seen, alive>>

\* Disabled: closelogfd, then the global is stored.
CloseLog(c) ==
  /\ \/ RGoto(c, "close", "closed")
     \/ RGoto(c, "eof", "eofclosed")
  /\ fdTable' = Closelogfd(gfd[c])
  /\ UNCHANGED <<env, gbEnable, gbChange, gfd, g_p, dirs, rfd, szPath,
                 byteCount, control, seen, alive>>

\* Mutant: the number of the closed file stays in g*fd.
CloseStale(c) ==
  /\ \/ RGoto(c, "closed", "fgets")
     \/ RGoto(c, "eofclosed", "left")
  /\ UNCHANGED <<env, gbEnable, gbChange, gfd, g_p, dirs, fdTable, rfd, szPath,
                 byteCount, control, seen, alive>>

CloseStore(c) ==
  /\ \/ RGoto(c, "closed", "fgets")
     \/ RGoto(c, "eofclosed", "left")
  /\ gfd' = [gfd EXCEPT ![c] = 0]
  /\ UNCHANGED <<env, gbEnable, gbChange, g_p, dirs, fdTable, rfd, szPath,
                 byteCount, control, seen, alive>>

\* logcat ended: the thread closes its file and leaves, g_p* stays set.
Eof(c) ==
  /\ RGoto(c, "fgets", "eof")
  /\ UNCHANGED <<env, gbEnable, gbChange, gfd, g_p, dirs, fdTable, rfd, szPath,
                 byteCount, control, seen, alive>>

Read(c) ==
  \/ Fgets(c) \/ TestChange(c)
  \/ ReopenClose(c) \/ ReopenOpen(c) \/ ReopenAssign(c) \/ ReopenClear(c)
  \/ TestFd(c) \/ MarkWrite(c) \/ WriteLine(c) \/ UnmarkWrite(c)
  \/ RotateClose(c) \/ RotateOpen(c) \/ RotateAssign(c)
  \/ CloseLog(c) \/ CloseStore(c)

(***************************************************************************)
(* Main thread: startRecordLog, then detectProp and its callback.          *)
(***************************************************************************)
DGoto(from, to) ==
  /\ alive
  /\ dpc = from
  /\ dpc' = to

\* Mutant: one position too many.
AdvanceBeyond(order, here, next) ==
  /\ dpc' = IF di <= Len(order) THEN here ELSE next
  /\ di' = IF di <= Len(order) THEN di + 1 ELSE 1

\* The next category of an order, or the next phase after the last one.
Advance(order, here, next) ==
  /\ dpc' = IF di < Len(order) THEN here ELSE next
  /\ di' = IF di < Len(order) THEN di + 1 ELSE 1

\* startMain and its siblings: flags, popen, pthread_create.
StartReader(c) ==
  /\ gbChange' = [gbChange EXCEPT ![c] = TRUE]
  /\ gbEnable' = [gbEnable EXCEPT ![c] = TRUE]
  /\ g_p' = [g_p EXCEPT ![c] = TRUE]
  /\ rpc' = [rpc EXCEPT ![c] = "fgets"]

\* checkMemorySafe, read once: with too little space nothing is started.
CheckMemorySafe ==
  /\ alive
  /\ dpc = "init"
  /\ dpc' \in {"start", "snap"}
  /\ UNCHANGED <<env, gbEnable, gbChange, gfd, g_p, dirs, fdTable, reader, di, seen, alive>>

StartRecordLog ==
  LET c == StartOrder[di] IN
  /\ alive
  /\ dpc = "start"
  /\ \/ prop[c] /\ StartReader(c)
     \/ ~prop[c] /\ UNCHANGED <<gbChange, gbEnable, g_p, rpc>>
  /\ Advance(StartOrder, "start", "snap")
  /\ UNCHANGED <<env, gfd, dirs, fdTable, rfd, szPath, byteCount, seen, alive>>

\* detectProp reads the properties a second time, as its first "last" values.
SnapProp ==
  LET c == SnapOrder[di] IN
  /\ alive
  /\ dpc = "snap"
  /\ last' = [last EXCEPT ![c] = prop[c]]
  /\ Advance(SnapOrder, "snap", "snaproot")
  /\ UNCHANGED <<env, gbEnable, gbChange, gfd, g_p, dirs, fdTable, reader,
                 szlogRoot, dyn, alive>>

SnapRoot ==
  /\ DGoto("snaproot", "poll")
  /\ szlogRoot' = rootProp
  /\ UNCHANGED <<env, gbEnable, gbChange, gfd, g_p, dirs, fdTable, reader, di,
                 last, dyn, alive>>

PollSame ==
  LET c == PollOrder[di] IN
  /\ alive
  /\ dpc = "poll"
  /\ prop[c] = last[c]
  /\ Advance(PollOrder, "poll", "root")
  /\ UNCHANGED <<env, gbEnable, gbChange, gfd, g_p, dirs, fdTable, reader, seen, alive>>

\* callback(KEY, "1"): the directory first,
PollOn ==
  LET c == PollOrder[di] IN
  /\ DGoto("poll", "on")
  /\ prop[c] /\ ~last[c]
  /\ gszLogDir' = [gszLogDir EXCEPT ![c] = gszLogRootDir]
  /\ UNCHANGED <<env, gbEnable, gbChange, gfd, g_p, gszLogRootDir, fdTable, reader,
                 di, seen, alive>>

\* Mutant: a category whose pipe exists is not enabled again.
CallbackOnForgets ==
  LET c == PollOrder[di] IN
  /\ alive
  /\ dpc = "on"
  /\ IF g_p[c] THEN UNCHANGED <<gbEnable, gbChange, g_p, rpc>> ELSE StartReader(c)
  /\ last' = [last EXCEPT ![c] = TRUE]
  /\ Advance(PollOrder, "poll", "root")
  /\ UNCHANGED <<env, gfd, dirs, fdTable, rfd, szPath, byteCount, szlogRoot, dyn, alive>>

\* then the first start, or only the Enable flag when the pipe exists.
CallbackOn ==
  LET c == PollOrder[di] IN
  /\ alive
  /\ dpc = "on"
  /\ \/ ~g_p[c] /\ StartReader(c)
     \/ /\ g_p[c]
        /\ gbEnable' = [gbEnable EXCEPT ![c] = TRUE]
        /\ UNCHANGED <<gbChange, g_p, rpc>>
  /\ last' = [last EXCEPT ![c] = TRUE]
  /\ Advance(PollOrder, "poll", "root")
  /\ UNCHANGED <<env, gfd, dirs, fdTable, rfd, szPath, byteCount, szlogRoot, dyn, alive>>

\* callback(KEY, "0"): the two flags in the order of the category's branch,
PollOff ==
  LET c == PollOrder[di] IN
  /\ DGoto("poll", "off")
  /\ ~prop[c] /\ last[c]
  /\ \/ /\ c \in EnableFirst
        /\ gbEnable' = [gbEnable EXCEPT ![c] = FALSE]
        /\ UNCHANGED gbChange
     \/ /\ c \notin EnableFirst
        /\ gbChange' = [gbChange EXCEPT ![c] = TRUE]
        /\ UNCHANGED gbEnable
  /\ UNCHANGED <<env, gfd, g_p, dirs, fdTable, reader, di, seen, alive>>

CallbackOff ==
  LET c == PollOrder[di] IN
  /\ alive
  /\ dpc = "off"
  /\ gbChange' = [gbChange EXCEPT ![c] = TRUE]
  /\ gbEnable' = [gbEnable EXCEPT ![c] = FALSE]
  /\ \/ /\ c \in ClosesOnStop
        /\ dpc' = "offclose"
        /\ UNCHANGED <<di, last>>
     \/ /\ c \notin ClosesOnStop
        /\ last' = [last EXCEPT ![c] = FALSE]
        /\ Advance(PollOrder, "poll", "root")
  /\ UNCHANGED <<env, gfd, g_p, dirs, fdTable, reader, szlogRoot, dyn, alive>>

\* and, for radio and event, closelogfd from this thread.
OffClose ==
  LET c == PollOrder[di] IN
  /\ DGoto("offclose", "offstore")
  /\ fdTable' = Closelogfd(gfd[c])
  /\ UNCHANGED <<env, gbEnable, gbChange, gfd, g_p, dirs, reader, di, seen, alive>>

\* Mutant: the value that was just handled is not remembered.
OffForgets ==
  LET c == PollOrder[di] IN
  /\ alive
  /\ dpc = "offstore"
  /\ gfd' = [gfd EXCEPT ![c] = 0]
  /\ Advance(PollOrder, "poll", "root")
  /\ UNCHANGED <<env, gbEnable, gbChange, g_p, dirs, fdTable, reader, seen, alive>>

OffStore ==
  LET c == PollOrder[di] IN
  /\ alive
  /\ dpc = "offstore"
  /\ gfd' = [gfd EXCEPT ![c] = 0]
  /\ last' = [last EXCEPT ![c] = FALSE]
  /\ Advance(PollOrder, "poll", "root")
  /\ UNCHANGED <<env, gbEnable, gbChange, g_p, dirs, fdTable, reader, szlogRoot, dyn, alive>>

\* The storage root is compared last; sleep(1) ends the pass.
PollRoot ==
  /\ alive
  /\ dpc = "root"
  /\ dyn' = rootProp
  /\ dpc' = IF rootProp = szlogRoot THEN "poll" ELSE "spin"
  /\ UNCHANGED <<env, gbEnable, gbChange, gfd, g_p, dirs, fdTable, reader, di,
                 last, szlogRoot, alive>>

\* callback(LOG_PATH_CHANGE): busy-wait on gbWrite, then close, per category.
SpinWrite ==
  LET c == CloseOrder[di] IN
  /\ DGoto("spin", "pclose")
  /\ ~gbWrite(c)
  /\ UNCHANGED <<env, gbEnable, gbChange, gfd, g_p, dirs, fdTable, reader, di, seen, alive>>

\* The flag is neither volatile nor atomic and the loop body has no side
\* effect on it: a build may read it once, and then the loop never ends.
SpinHoisted ==
  LET c == CloseOrder[di] IN
  /\ DGoto("spin", "stuck")
  /\ gbWrite(c)
  /\ UNCHANGED <<env, gbEnable, gbChange, gfd, g_p, dirs, fdTable, reader, di, seen, alive>>

PathClose ==
  LET c == CloseOrder[di] IN
  /\ DGoto("pclose", "pstore")
  /\ fdTable' = Closelogfd(gfd[c])
  /\ UNCHANGED <<env, gbEnable, gbChange, gfd, g_p, dirs, reader, di, seen, alive>>

PathStore ==
  LET c == CloseOrder[di] IN
  /\ alive
  /\ dpc = "pstore"
  /\ gfd' = [gfd EXCEPT ![c] = 0]
  /\ Advance(CloseOrder, "spin", "setdir")
  /\ UNCHANGED <<env, gbEnable, gbChange, g_p, dirs, fdTable, reader, seen, alive>>

\* resetLogPath: all directories, then all Change flags.
SetAllLogDir ==
  /\ DGoto("setdir", "setchange")
  /\ gszLogRootDir' = dyn
  /\ gszLogDir' = [c \in Cats |-> dyn]
  /\ UNCHANGED <<env, gbEnable, gbChange, gfd, g_p, fdTable, reader, di, seen, alive>>

\* Mutant: detectProp does not remember the root it moved to.
ResetForgets ==
  /\ DGoto("setchange", "poll")
  /\ gbChange' = [c \in Cats |-> TRUE]
  /\ UNCHANGED <<env, gbEnable, gfd, g_p, dirs, fdTable, reader, di, seen, alive>>

ResetLogPath ==
  /\ DGoto("setchange", "poll")
  /\ gbChange' = [c \in Cats |-> TRUE]
  /\ szlogRoot' = dyn
  /\ UNCHANGED <<env, gbEnable, gfd, g_p, dirs, fdTable, reader, di, last, dyn, alive>>

Detect ==
  \/ CheckMemorySafe \/ StartRecordLog \/ SnapProp \/ SnapRoot
  \/ PollSame \/ PollOn \/ CallbackOn \/ PollOff \/ CallbackOff \/ OffClose \/ OffStore
  \/ PollRoot \/ SpinWrite \/ SpinHoisted \/ PathClose \/ PathStore \/ SetAllLogDir \/ ResetLogPath

(***************************************************************************)
(* The app writes the properties at any time.                              *)
(***************************************************************************)
SetProp(c) ==
  /\ alive
  /\ prop' = [prop EXCEPT ![c] = ~@]
  /\ UNCHANGED <<rootProp, gbEnable, gbChange, gfd, g_p, dirs, fdTable, reader,
                 control, seen, alive>>

SetRoot(r) ==
  /\ alive
  /\ r # rootProp
  /\ rootProp' = r
  /\ UNCHANGED <<prop, gbEnable, gbChange, gfd, g_p, dirs, fdTable, reader,
                 control, seen, alive>>

Init ==
  /\ prop \in [Cats -> BOOLEAN]
  /\ rootProp \in Roots
  /\ gbEnable = [c \in Cats |-> FALSE]
  /\ gbChange = [c \in Cats |-> FALSE]
  /\ gfd = [c \in Cats |-> 0]
  /\ g_p = [c \in Cats |-> FALSE]
  /\ gszLogRootDir = rootProp
  /\ gszLogDir = [c \in Cats |-> rootProp]
  /\ fdTable = [n \in Fds |-> IF n = 0 THEN Stdin ELSE Free]
  /\ rpc = [c \in Cats |-> "off"]
  /\ rfd = [c \in Cats |-> 0]
  /\ szPath = [c \in Cats |-> rootProp]
  /\ byteCount = [c \in Cats |-> 0]
  /\ dpc = "init"
  /\ di = 1
  /\ last = [c \in Cats |-> FALSE]
  /\ szlogRoot = rootProp
  /\ dyn = rootProp
  /\ alive = TRUE

Next ==
  \/ Detect
  \/ \E c \in Cats : Read(c) \/ Eof(c) \/ SetProp(c)
  \/ \E r \in Roots : SetRoot(r)

Spec == Init /\ [][Next]_vars

\* Threads are scheduled; logcat keeps producing lines (its end is not fair).
\* A busy-wait that re-reads the flag samples it far more often than a line is
\* written, so it does not miss every moment at which the flag is down.
Fairness ==
  /\ WF_vars(Detect)
  /\ SF_vars(SpinWrite)
  /\ \A c \in Cats : WF_vars(Read(c))

FairSpec == Spec /\ Fairness
(***************************************************************************)
(* Properties.                                                             *)
(***************************************************************************)
RStates == {"off", "fgets", "change", "reopen", "open", "assign", "clear", "guard",
            "mark", "write", "wrote", "rotate", "rotopen", "rotassign",
            "close", "closed", "eof", "eofclosed", "left"}
DStates == {"init", "start", "snap", "snaproot", "poll", "on", "off", "offclose",
            "offstore", "root", "spin", "stuck", "pclose", "pstore", "setdir",
            "setchange"}

\* The position is inside the order the main thread is walking.
PositionOK ==
  /\ di \in Nat \ {0}
  /\ dpc = "start" => di <= Len(StartOrder)
  /\ dpc = "snap" => di <= Len(SnapOrder)
  /\ dpc \in {"poll", "on", "off", "offclose", "offstore"} => di <= Len(PollOrder)
  /\ dpc \in {"spin", "stuck", "pclose", "pstore"} => di <= Len(CloseOrder)
  /\ dpc \in {"init", "snaproot", "root", "setdir", "setchange"} => di = 1

\* Type invariant of the globals, the descriptor table and both kinds of
\* thread, including that detectProp never indexes outside its list of keys.
TypeOK ==
  /\ prop \in [Cats -> BOOLEAN]
  /\ rootProp \in Roots
  /\ gbEnable \in [Cats -> BOOLEAN]
  /\ gbChange \in [Cats -> BOOLEAN]
  /\ gfd \in [Cats -> Fds]
  /\ g_p \in [Cats -> BOOLEAN]
  /\ gszLogDir \in [Cats -> Roots]
  /\ gszLogRootDir \in Roots
  /\ fdTable \in [Fds -> File \cup {Stdin, Free}]
  /\ rpc \in [Cats -> RStates]
  /\ rfd \in [Cats -> Fds]
  /\ szPath \in [Cats -> Roots]
  /\ byteCount \in [Cats -> 0..MaxLines]
  /\ dpc \in DStates
  /\ last \in [Cats -> BOOLEAN]
  /\ szlogRoot \in Roots
  /\ dyn \in Roots
  /\ alive \in BOOLEAN
  /\ PositionOK

\* write() in a reader reaches the file that this reader opened: the number in
\* g*fd was neither closed nor reused for another category's file.
WriteToOwnFile ==
  \A c \in Cats : rpc[c] = "write" => fdTable[gfd[c]] = FileOf(c, szPath[c])

\* Every open log file is still reachable from a g*fd or from a reader that is
\* about to store it: rotation, reopening and closing leak no descriptor.
NoLeak ==
  \A n \in Fds \ {0} : fdTable[n] # Free =>
    \E c \in Cats : \/ gfd[c] = n
                    \/ rfd[c] = n /\ rpc[c] \in {"assign", "rotassign"}

\* openfile never fails for want of a descriptor, so the daemon never takes
\* the exit(-1) of onOpenLogFile and rotateLogs.
NeverExits == alive

\* Where g*fd is the reader's file, and where open()'s result is.
HoldStates == {"fgets", "change", "reopen", "clear", "guard", "mark", "write",
               "wrote", "rotate", "close", "eof"}
TransitStates == {"assign", "rotassign"}

Owns(c, n) ==
  \/ rpc[c] \in HoldStates /\ gfd[c] = n
  \/ rpc[c] \in TransitStates /\ rfd[c] = n

\* Open, but no reader will close it: none holds it or is about to store it.
Lost == {n \in Fds \ {0} : fdTable[n] # Free /\ \A c \in Cats : ~Owns(c, n)}

\* A descriptor is lost only by the main thread's g*fd = 0, stored over a number that
\* is open again after the close before it: never by rotation, reopening or closing,
\* nor by the close itself or any other step of a switch or a root move.
LosesByStore ==
  [][\A n \in Lost' \ Lost : \/ PathStore /\ gfd[CloseOrder[di]] = n
                             \/ OffStore /\ gfd[PollOrder[di]] = n]_vars

\* onOpenLogFile and rotateLogs take their exit(-1) only when so many descriptors
\* were lost that those left are fewer than the categories.
ExitsByLoss ==
  [][alive /\ ~alive' => Cardinality(Lost) + Cardinality(Cats) > MaxFd]_vars

\* While no callback for c is running, Enable is what detectProp saw last.
Agrees(c) ==
  \/ gbEnable[c] = last[c]
  \/ /\ dpc \in {"off", "offclose", "offstore"}
     /\ PollOrder[di] = c

Polling == dpc \notin {"init", "start", "snap", "snaproot"}

\* Once a category's Enable flag agrees with detectProp's last value, no later
\* step of the main thread lets the two drift apart.
AgreementStable ==
  [][\A c \in Cats : Polling /\ Agrees(c) => Agrees(c)']_vars

\* The main thread has left the process or hangs in the busy-wait.
Dead == ~alive \/ dpc = "stuck"

\* A category that agrees follows its property, though the poller's stop branch
\* closes a file its reader may just be reopening: a property that stays on
\* enables the category for good, and one that stays off disables it for good
\* and leaves its file closed.
FollowsProp ==
  \A c \in Cats :
    [](Polling /\ Agrees(c) =>
         /\ <>[]prop[c] => <>[](gbEnable[c] \/ Dead)
         /\ <>[]~prop[c] => <>[]((~gbEnable[c] /\ gfd[c] = 0) \/ Dead))

\* When the poller starts from the root the daemon logs to, it follows the
\* property: a storage root that stays is eventually, and for good, the
\* directory of every category, however often the root changed before.
FollowsRoot ==
  \A r \in Roots :
    [](dpc = "poll" /\ gszLogRootDir = szlogRoot =>
         (<>[](rootProp = r) => <>[]((\A c \in Cats : gszLogDir[c] = r) \/ Dead)))

\* "avoid is writing log" (logdump.cpp): a path change closes no file whose
\* reader is inside write().
AvoidIsWritingLog ==
  [][PathClose => ~gbWrite(CloseOrder[di])]_vars

\* "start" (logdump.cpp, callback): a category that agrees, whose property
\* stays on and whose logcat is running has its lines written again and again.
StartedIsWritten ==
  \A c \in Cats :
    [](Polling /\ Agrees(c) =>
         (<>[]prop[c] => []<>(rpc[c] \in {"wrote", "left"} \/ ~alive)))
=============================================================================
