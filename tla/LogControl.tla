----------------------------- MODULE LogControl -----------------------------
(***************************************************************************)
(* Who switches the logs on and off inside the log tool's process.  Three  *)
(* routines switch every enabled log off, work for seconds and switch on   *)
(* again what they found enabled: clearLog of DeleteTask.java on the       *)
(* AsyncTask thread, clearOldData of DumpService.java inside the disk      *)
(* monitor, and the change of the save path in DebuggerMain.java.  They    *)
(* share the enable properties with the user's switches and with the       *)
(* monitor's forced close, and nothing locks them.                         *)
(*                                                                         *)
(* The monitor's first run has a thread of its own; every later one is     *)
(* posted to the main looper, where the user's actions run too.  A clear   *)
(* holds what it has to switch on again in a local array, so the process's *)
(* death loses it.                                                         *)
(*                                                                         *)
(* Of the keys modelled, the pages switch two: tcpdump (NetWorkLog.java)   *)
(* and the modem's (ModemLog.java).  The other REMOTE_KEY logs are on by   *)
(* default, and only the jobs and the forced close write them.  The        *)
(* general page's switches write logcat.enable, .logcate and .logcatr,     *)
(* which none of the three routines and no forced close reads or writes:   *)
(* those keys are not modelled.                                            *)
(***************************************************************************)
EXTENDS Integers, Sequences

CONSTANTS
  RemoteKeys,   \* DebuggerMain.REMOTE_KEY: the daemon's enable properties
  ForceOrder,   \* the order in which the forced close switches off
  Modem,        \* persist.asuslog.qxdmlog.enable
  Tcpdump,      \* NetWorkLog.KEY_TCPDUMP, the remote key with a switch on a page
  UserBuild,    \* isUserBuild
  Reminder,     \* Settings.isReminderDiskLow
  Levels,       \* bound: the levels of free space: "ok", "low" below the upper of the
                \* two limits, "close" below the lower one
  MaxTasks,     \* bound: DeleteTasks waiting
  MaxDeaths     \* bound: deaths of the process

Keys == {RemoteKeys[i] : i \in DOMAIN RemoteKeys} \cup {Modem}

ASSUME LogControlAssumption ==
  /\ RemoteKeys \in Seq(Keys \ {Modem}) /\ RemoteKeys # <<>>
  /\ \A i, j \in DOMAIN RemoteKeys : RemoteKeys[i] = RemoteKeys[j] => i = j
  /\ \E i \in DOMAIN RemoteKeys : RemoteKeys[i] = Tcpdump
  /\ ForceOrder \in Seq(Keys) /\ \A k \in Keys : \E i \in DOMAIN ForceOrder : ForceOrder[i] = k
  /\ Levels \subseteq {"close", "low", "ok"} /\ "ok" \in Levels
  /\ UserBuild \in BOOLEAN /\ Reminder \in BOOLEAN
  /\ MaxTasks \in Nat /\ MaxDeaths \in Nat

VARIABLES
  prop,         \* the properties that are "1"
  job,          \* what a thread is doing
  stage,        \* and where in it
  idx,          \* the loop's index
  enable,       \* the local array: what the thread has to switch on again
  tasks,        \* DeleteTasks that wait for the AsyncTask thread
  monitor,      \* "posted", "running" or "ended"
  level,        \* the branch storagelisten took
  already,      \* the flags isAlreadyReminderDiskLowClose and ...Clear
  space, folder, microSD,   \* the save directory
  deaths,
  asked         \* history: what became of the last request for a key: "on",
                \* "off", "offHeld" (while a clear held it), or "givenUp" by one

thread == <<job, stage, idx, enable>>
disk == <<space, folder, microSD>>
monitors == <<monitor, level, already>>
controlVars == <<prop, thread, tasks, monitors, disk, deaths, asked>>

Threads == {"task", "main", "boot"}
Idle(t) == job[t] = "none"

\* The order in which a job switches off, which for a path change depends on the
\* direction, and the one in which all switch on.
CloseOrder == [clear   |-> RemoteKeys \o <<Modem>>,
               path    |-> IF microSD THEN <<Modem>> \o RemoteKeys ELSE RemoteKeys \o <<Modem>>,
               monitor |-> RemoteKeys]
OpenOrder == RemoteKeys \o <<Modem>>

Held(k) == \E t \in Threads : k \in enable[t]

\* k is switched off, by the user or by the forced close.
AskedOff(k) ==
  asked' = [asked EXCEPT ![k] = IF Held(k) THEN "offHeld" ELSE "off"]
\* The keys in s are no longer held by anyone.
GivenUp(s) ==
  asked' = [k \in Keys |-> IF k \in s \ prop /\ asked[k] = "on" THEN "givenUp" ELSE asked[k]]

Goto(t, s, i) == stage' = [stage EXCEPT ![t] = s] /\ idx' = [idx EXCEPT ![t] = i]
Begin(t, j, s) == job' = [job EXCEPT ![t] = j] /\ Goto(t, s, 1)
End(t) == Begin(t, "none", "none")

ControlInit ==
  /\ prop \in SUBSET Keys
  /\ job = [t \in Threads |-> IF t = "boot" THEN "monitor" ELSE "none"]
  /\ stage = [t \in Threads |-> IF t = "boot" THEN "look" ELSE "none"]
  /\ idx = [t \in Threads |-> 1]
  /\ enable = [t \in Threads |-> {}]
  /\ tasks = 0
  /\ monitor = "running" /\ level = "ok"
  /\ already = {"close", "clear"}
  /\ space \in Levels /\ folder = TRUE /\ microSD = FALSE
  /\ deaths = 0
  /\ asked = [k \in Keys |-> IF k \in prop THEN "on" ELSE "off"]

(***************************************************************************)
(* closeRemoteRunningLog and restartRemoteRunningLog, with the modem's     *)
(* property where the caller handles it.  Reading and writing a property   *)
(* are calls of their own.                                                 *)
(***************************************************************************)
\* The path change has read the modem's property when it began.
Found(t, k) == IF job[t] = "path" /\ k = Modem THEN k \in enable[t] ELSE k \in prop

\* Mutant: the found state is not remembered.
CloseReadForgets(t) ==
  /\ stage[t] = "close"
  /\ idx[t] <= Len(CloseOrder[job[t]])
  /\ LET k == CloseOrder[job[t]][idx[t]]
     IN IF Found(t, k) THEN Goto(t, "off", idx[t]) ELSE Goto(t, "close", idx[t] + 1)
  /\ UNCHANGED <<prop, job, enable, tasks, monitors, disk, deaths, asked>>

CloseRead(t) ==
  /\ stage[t] = "close"
  /\ idx[t] <= Len(CloseOrder[job[t]])
  /\ LET k == CloseOrder[job[t]][idx[t]]
     IN IF Found(t, k)
        THEN enable' = [enable EXCEPT ![t] = @ \cup {k}] /\ Goto(t, "off", idx[t])
        ELSE UNCHANGED enable /\ Goto(t, "close", idx[t] + 1)
  /\ UNCHANGED <<prop, job, tasks, monitors, disk, deaths, asked>>

CloseWrite(t) ==
  /\ stage[t] = "off"
  /\ LET k == CloseOrder[job[t]][idx[t]]
     IN /\ prop' = prop \ {k}
        /\ IF job[t] = "path" /\ k = Modem
           THEN Goto(t, "on", idx[t]) ELSE Goto(t, "close", idx[t] + 1)
  /\ UNCHANGED <<job, enable, tasks, monitors, disk, deaths, asked>>

\* The path change switches the modem log on again at once.
PathModemOn(t) ==
  /\ stage[t] = "on"
  /\ prop' = prop \cup {Modem}
  /\ Goto(t, "close", idx[t] + 1)
  /\ UNCHANGED <<job, enable, tasks, monitors, disk, deaths, asked>>

\* Mutant: a log that was off is switched on too.
RestartAll(t) ==
  /\ stage[t] = "restart"
  /\ idx[t] <= Len(OpenOrder)
  /\ prop' = prop \cup {OpenOrder[idx[t]]}
  /\ enable' = [enable EXCEPT ![t] = @ \ {OpenOrder[idx[t]]}]
  /\ Goto(t, "restart", idx[t] + 1)
  /\ UNCHANGED <<job, tasks, monitors, disk, deaths, asked>>

Restart(t) ==
  /\ stage[t] = "restart"
  /\ idx[t] <= Len(OpenOrder)
  /\ prop' = prop \cup (enable[t] \cap {OpenOrder[idx[t]]})
  /\ enable' = [enable EXCEPT ![t] = @ \ {OpenOrder[idx[t]]}]
  /\ Goto(t, "restart", idx[t] + 1)
  /\ UNCHANGED <<job, tasks, monitors, disk, deaths, asked>>

Restarted(t) == stage[t] = "restart" /\ idx[t] > Len(OpenOrder)
Closed(t, j) == stage[t] = "close" /\ job[t] = j /\ idx[t] > Len(CloseOrder[j])

(***************************************************************************)
(* clearLog on the AsyncTask thread, which executes one task at a time.    *)
(***************************************************************************)
ExecuteDeleteTask ==
  /\ Idle("main") /\ tasks < MaxTasks
  /\ tasks' = tasks + 1
  /\ UNCHANGED <<prop, thread, monitors, disk, deaths, asked>>

ClearLog ==
  /\ Idle("task") /\ tasks > 0
  /\ tasks' = tasks - 1
  /\ IF folder \/ microSD THEN Begin("task", "clear", "close") ELSE UNCHANGED <<job, stage, idx>>
  /\ UNCHANGED <<prop, enable, monitors, disk, deaths, asked>>

\* The files are removed, a new date is set and the task sleeps a second.
ClearDelete ==
  /\ Closed("task", "clear")
  /\ Goto("task", "restart", 1)
  /\ UNCHANGED <<prop, job, enable, tasks, monitors, disk, deaths, asked>>

ClearEnd ==
  /\ job["task"] = "clear" /\ Restarted("task")
  /\ End("task")
  /\ UNCHANGED <<prop, enable, tasks, monitors, disk, deaths, asked>>

(***************************************************************************)
(* The change of the save path, on the main thread.                        *)
(***************************************************************************)
SwitchPath ==
  /\ Idle("main")
  /\ Begin("main", "path", "close")
  /\ enable' = [enable EXCEPT !["main"] = prop \cap {Modem}]
  /\ UNCHANGED <<prop, tasks, monitors, disk, deaths, asked>>

\* createDirWait has created the new directory.
SwitchSaveDir ==
  /\ Closed("main", "path")
  /\ microSD' = ~microSD /\ folder' = TRUE
  /\ Goto("main", "restart", 1)
  /\ UNCHANGED <<prop, job, enable, tasks, monitors, space, deaths, asked>>

SwitchEnd ==
  /\ job["main"] = "path" /\ Restarted("main")
  /\ End("main")
  /\ UNCHANGED <<prop, enable, tasks, monitors, disk, deaths, asked>>

(***************************************************************************)
(* storagelisten: one run of the disk monitor on thread t.                 *)
(***************************************************************************)
\* mDiskHandler.postDelayed
Repost(t) == monitor' = "posted" /\ level' = "ok" /\ End(t)

RunMonitor ==
  /\ Idle("main") /\ monitor = "posted"
  /\ monitor' = "running"
  /\ Begin("main", "monitor", "look")
  /\ UNCHANGED <<prop, enable, tasks, level, already, disk, deaths, asked>>

MonitorLook(t) ==
  /\ stage[t] = "look"
  /\ \/ /\ ~folder
        /\ Repost(t)
        /\ UNCHANGED already
     \/ /\ folder /\ space = "ok"
        /\ already' = {}
        /\ Repost(t)
     \/ /\ folder /\ space # "ok"
        /\ level' = space
        /\ Goto(t, IF UserBuild /\ "clear" \notin already THEN "close" ELSE "remind", 1)
        /\ UNCHANGED <<job, monitor, already>>
  /\ UNCHANGED <<prop, enable, tasks, disk, deaths, asked>>

\* clearOldData after closeRemoteRunningLog: it returns when the folder is gone.
ClearOldData(t) ==
  /\ Closed(t, "monitor")
  /\ \/ /\ folder
        /\ Goto(t, "restart", 1)
        /\ UNCHANGED <<enable, asked>>
     \/ /\ ~folder
        /\ GivenUp(enable[t] \ UNION {enable[u] : u \in Threads \ {t}})
        /\ enable' = [enable EXCEPT ![t] = {}]
        /\ Goto(t, "measure", 1)
  /\ UNCHANGED <<prop, job, tasks, monitors, disk, deaths>>

ClearOldEnd(t) ==
  /\ job[t] = "monitor" /\ Restarted(t)
  /\ Goto(t, "measure", 1)
  /\ UNCHANGED <<prop, job, enable, tasks, monitors, disk, deaths, asked>>

\* The space is read again; when it suffices, the run returns without a repost.
Measure(t) ==
  /\ stage[t] = "measure" /\ folder
  /\ already' = already \cup {"clear"}
  /\ IF space = "ok" \/ (level = "close" /\ space # "close")
     THEN monitor' = "ended" /\ level' = "ok" /\ End(t)
     ELSE UNCHANGED <<job, monitor, level>> /\ Goto(t, "remind", 1)
  /\ UNCHANGED <<prop, enable, tasks, disk, deaths, asked>>

\* Mutant: the flag is tested the other way round.
RemindForced(t) ==
  /\ stage[t] = "remind"
  /\ IF level = "close" /\ "close" \in already
     THEN Goto(t, "force", 1) /\ UNCHANGED <<job, monitor, level>>
     ELSE Repost(t)
  /\ UNCHANGED <<prop, enable, tasks, already, disk, deaths, asked>>

\* Below the upper limit only, a dialog is all that happens.
Remind(t) ==
  /\ stage[t] = "remind"
  /\ IF level = "close" /\ "close" \notin already
     THEN Goto(t, "force", 1) /\ UNCHANGED <<job, monitor, level>>
     ELSE Repost(t)
  /\ UNCHANGED <<prop, enable, tasks, already, disk, deaths, asked>>

\* GeneralLog.forceState(false), ModemLog.forceStop and NetWorkLog.forceStop.
ForceState(t) ==
  /\ stage[t] = "force" /\ idx[t] <= Len(ForceOrder)
  /\ LET k == ForceOrder[idx[t]]
     IN /\ prop' = prop \ {k}
        /\ AskedOff(k)
  /\ Goto(t, "force", idx[t] + 1)
  /\ UNCHANGED <<job, enable, tasks, monitors, disk, deaths>>

ForceEnd(t) ==
  /\ stage[t] = "force" /\ idx[t] > Len(ForceOrder)
  /\ already' = IF Reminder THEN already \cup {"close"} ELSE already
  /\ Repost(t)
  /\ UNCHANGED <<prop, enable, tasks, disk, deaths, asked>>

(***************************************************************************)
(* The user, the storage and the process.                                  *)
(***************************************************************************)
Switched == {Tcpdump, Modem}

\* Tcpdump's switch is refused while isDiskAllowOpen is false.  The modem's does
\* not look at the disk.
SwitchOn(k) ==
  /\ Idle("main") /\ k \notin prop
  /\ k # Modem => folder /\ space = "ok"
  /\ prop' = prop \cup {k}
  /\ asked' = [asked EXCEPT ![k] = "on"]
  /\ UNCHANGED <<thread, tasks, monitors, disk, deaths>>

\* By the user, or by the page's receiver of the forced close's broadcast.
SwitchOff(k) ==
  /\ Idle("main") /\ k \in prop
  /\ prop' = prop \ {k}
  /\ AskedOff(k)
  /\ UNCHANGED <<thread, tasks, monitors, disk, deaths>>

SpaceChanges ==
  /\ space' \in Levels \ {space}
  /\ UNCHANGED <<prop, thread, tasks, monitors, folder, microSD, deaths, asked>>

\* The card is taken out or put back.
FolderChanges ==
  /\ microSD /\ folder' = ~folder
  /\ UNCHANGED <<prop, thread, tasks, monitors, space, microSD, deaths, asked>>

\* The process dies and the system creates the sticky service again, whose
\* onCreate makes the directory if it can and starts a monitor.
Dies ==
  /\ GivenUp(UNION {enable[t] : t \in Threads})
  /\ enable' = [t \in Threads |-> {}]
  /\ job' = [t \in Threads |-> IF t = "boot" THEN "monitor" ELSE "none"]
  /\ stage' = [t \in Threads |-> IF t = "boot" THEN "look" ELSE "none"]
  /\ idx' = [t \in Threads |-> 1]
  /\ tasks' = 0
  /\ monitor' = "running" /\ level' = "ok"
  /\ folder' \in {folder, TRUE}
  /\ UNCHANGED <<prop, already, space, microSD>>

Killed ==
  /\ deaths < MaxDeaths /\ deaths' = deaths + 1
  /\ Dies

\* StatFs throws when the folder is still gone.
MeasureThrows(t) ==
  /\ stage[t] = "measure" /\ ~folder
  /\ Dies
  /\ UNCHANGED deaths

ThreadStep(t) ==
  \/ CloseRead(t) \/ CloseWrite(t) \/ PathModemOn(t) \/ Restart(t)
  \/ MonitorLook(t) \/ ClearOldData(t) \/ ClearOldEnd(t) \/ Measure(t)
  \/ Remind(t) \/ ForceState(t) \/ ForceEnd(t) \/ MeasureThrows(t)

ControlNext ==
  \/ \E t \in Threads : ThreadStep(t)
  \/ ExecuteDeleteTask \/ ClearLog \/ ClearDelete \/ ClearEnd
  \/ SwitchPath \/ SwitchSaveDir \/ SwitchEnd
  \/ RunMonitor
  \/ \E k \in Switched : SwitchOn(k) \/ SwitchOff(k)
  \/ SpaceChanges \/ FolderChanges \/ Killed

ControlSpec == ControlInit /\ [][ControlNext]_controlVars

\* Threads run, and the looper takes every message that was posted to it.
ControlFairness ==
  /\ \A t \in Threads : WF_controlVars(ThreadStep(t))
  /\ WF_controlVars(ClearLog \/ ClearDelete \/ ClearEnd)
  /\ WF_controlVars(SwitchSaveDir \/ SwitchEnd)
  /\ SF_controlVars(RunMonitor)

ControlFairSpec == ControlSpec /\ ControlFairness

(***************************************************************************)
(* Properties.                                                             *)
(***************************************************************************)
\* Type invariant.
ControlTypeOK ==
  /\ prop \subseteq Keys
  /\ asked \in [Keys -> {"on", "off", "offHeld", "givenUp"}]
  /\ job \in [Threads -> {"none", "clear", "path", "monitor"}]
  /\ stage \in [Threads -> {"none", "look", "close", "off", "on", "restart",
                            "measure", "remind", "force"}]
  /\ idx \in [Threads -> Nat]
  /\ enable \in [Threads -> SUBSET Keys]
  /\ tasks \in Nat /\ deaths \in Nat
  /\ monitor \in {"posted", "running", "ended"}
  /\ level \in {"close", "low", "ok"} /\ space \in {"close", "low", "ok"}
  /\ already \subseteq {"close", "clear"}
  /\ folder \in BOOLEAN /\ microSD \in BOOLEAN

\* A log the user wants is never lost: however clears, path changes and monitor
\* runs overlap, it is on, or some thread will switch it on again -- unless a
\* clear gave it up, because the folder vanished under clearOldData or because
\* the process died.
NoLogLost == \A k \in Keys : asked[k] = "on" => k \in prop \/ Held(k)

\* No log comes back by itself: one that is on though it was last switched off,
\* by the user or by the forced close on a full disk, was switched off while a
\* clear held it.
OnOnlyIfWanted == \A k \in prop : asked[k] # "off"

\* When the disk fills up for good between two runs of the monitor that follow
\* one that saw room, every log whose switch looks at the disk is closed in the
\* end and stays closed, whatever clears, path changes and deaths come between,
\* with one exception, which the code does not prevent: a log that a path change
\* or a clear held when it was forced off comes back with that job.  (The modem's
\* log may be switched on again on the full disk, and a monitor that a successful
\* clear ended is not posted and closes nothing any more.)
DiskLowCloses ==
  \A i \in DOMAIN RemoteKeys :
    [](("close" \notin already /\ monitor = "posted" /\ [](space = "close" /\ folder))
         => <>[](RemoteKeys[i] \notin prop \/ asked[RemoteKeys[i]] = "offHeld"))
=============================================================================
