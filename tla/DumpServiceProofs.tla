------------------------- MODULE DumpServiceProofs -------------------------
(***************************************************************************)
(* Proofs about the log tool's app, three machines that share no variable. *)
(*                                                                         *)
(* LogControl.  However clears, path changes, runs of the disk monitor,    *)
(* switches and deaths of the process overlap: a log the user wants is on  *)
(* or about to be switched on again, and a log that comes back was held by *)
(* a clear when it was switched off.  For any set of logs, any order in    *)
(* which the forced close takes them and any number of tasks and deaths.   *)
(*                                                                         *)
(* MtpUpdater.  How many copies of the periodic media scan can be queued.  *)
(*                                                                         *)
(* DumpLogger.  The two callers that stop and start a category's logger,   *)
(* statement by statement, for any number of loggers.                      *)
(***************************************************************************)
EXTENDS LogControl, MtpUpdater, DumpLogger, TLAPS

Jobs == {"clear", "path", "monitor"}

\* What a thread is doing fits where it is, and only main changes the path.
JobInv(t) ==
  /\ idx[t] >= 1
  /\ stage[t] = "none" <=> job[t] = "none"
  /\ stage[t] \in {"look", "measure", "remind", "force"} => job[t] = "monitor"
  /\ stage[t] = "on" => job[t] = "path"
  /\ job[t] = "path" => t = "main"

\* The local array: empty outside closeRemoteRunningLog and restartRemoteRunningLog;
\* a log is remembered before it is switched off, and what is remembered lies ahead
\* of the loop that switches on.
HoldInv(t) ==
  /\ stage[t] \in {"none", "look", "measure", "remind", "force"} => enable[t] = {}
  /\ stage[t] = "off" => /\ idx[t] \in DOMAIN CloseOrder[job[t]]
                         /\ CloseOrder[job[t]][idx[t]] \in enable[t]
  /\ stage[t] = "on" => Modem \in enable[t]
  /\ stage[t] = "restart" =>
       \A k \in enable[t] : \E i \in idx[t]..Len(OpenOrder) : OpenOrder[i] = k

\* What a thread will switch on again was wanted when it was found.
HeldWanted == \A k \in Keys : Held(k) => asked[k] # "off"

ThreadsInv == \A t \in Threads : JobInv(t) /\ HoldInv(t)

ControlInv ==
  /\ ControlTypeOK /\ ThreadsInv
  /\ NoLogLost /\ OnOnlyIfWanted /\ HeldWanted
(***************************************************************************)
(* The orders.                                                             *)
(***************************************************************************)
LEMMA OrderFacts ==
  /\ Modem \in Keys
  /\ OpenOrder \in Seq(Keys)
  /\ \A k \in Keys : \E i \in 1..Len(OpenOrder) : OpenOrder[i] = k
  /\ \A j \in Jobs : CloseOrder[j] \in Seq(Keys)
<1>1. RemoteKeys \in Seq(Keys) /\ Modem \in Keys BY LogControlAssumption DEF Keys
<1>2. OpenOrder \in Seq(Keys) BY <1>1 DEF OpenOrder
<1>3. ASSUME NEW k \in Keys
      PROVE  \E i \in 1..Len(OpenOrder) : OpenOrder[i] = k
  <2>1. /\ Len(OpenOrder) = Len(RemoteKeys) + 1
        /\ \A i \in 1..Len(RemoteKeys) : OpenOrder[i] = RemoteKeys[i]
        /\ OpenOrder[Len(RemoteKeys) + 1] = Modem
    BY <1>1 DEF OpenOrder
  <2>2. DOMAIN RemoteKeys = 1..Len(RemoteKeys) /\ Len(RemoteKeys) \in Nat BY <1>1
  <2>3. CASE k = Modem BY <2>1, <2>2, <2>3
  <2>4. CASE k # Modem
    <3>1. PICK i \in 1..Len(RemoteKeys) : RemoteKeys[i] = k BY <2>2, <2>4 DEF Keys
    <3> QED BY <2>1, <2>2, <3>1
  <2> QED BY <2>3, <2>4
<1>4. \A j \in Jobs : CloseOrder[j] \in Seq(Keys)
  <2>1. /\ RemoteKeys \o <<Modem>> \in Seq(Keys)
        /\ <<Modem>> \o RemoteKeys \in Seq(Keys)
    BY <1>1
  <2>2. /\ CloseOrder["clear"] = RemoteKeys \o <<Modem>>
        /\ CloseOrder["path"] \in {<<Modem>> \o RemoteKeys, RemoteKeys \o <<Modem>>}
        /\ CloseOrder["monitor"] = RemoteKeys
    BY DEF CloseOrder
  <2> QED BY <1>1, <2>1, <2>2 DEF Jobs
<1> QED BY <1>1, <1>2, <1>3, <1>4

\* Only the direction of a path change moves the order of a close.
LEMMA CloseOrderKept ==
  /\ UNCHANGED microSD => CloseOrder' = CloseOrder
  /\ \A j \in Jobs \ {"path"} : CloseOrder'[j] = CloseOrder[j]
<1>1. UNCHANGED microSD => CloseOrder' = CloseOrder BY DEF CloseOrder
<1>2. CloseOrder'["clear"] = CloseOrder["clear"] BY DEF CloseOrder
<1>3. CloseOrder'["monitor"] = CloseOrder["monitor"] BY DEF CloseOrder
<1> QED BY <1>1, <1>2, <1>3 DEF Jobs

LEMMA ForceKey ==
  ASSUME NEW i \in Nat, i >= 1, i <= Len(ForceOrder) PROVE ForceOrder[i] \in Keys
BY LogControlAssumption

LEMMA SwitchedKeys == Switched \subseteq Keys
<1>1. \E i \in DOMAIN RemoteKeys : RemoteKeys[i] = Tcpdump BY LogControlAssumption
<1>2. Tcpdump \in Keys BY <1>1, Zenon DEF Keys
<1> QED BY <1>2, OrderFacts, Zenon DEF Switched

(***************************************************************************)
(* The initial states.                                                     *)
(***************************************************************************)
LEMMA ControlInitInv == ControlInit => ControlInv
<1> SUFFICES ASSUME ControlInit PROVE ControlInv OBVIOUS
<1>a. space \in {"close", "low", "ok"} BY LogControlAssumption DEF ControlInit
<1>1. ControlTypeOK BY <1>a DEF ControlInit, ControlTypeOK, Threads
<1>2. ThreadsInv BY DEF ControlInit, ThreadsInv, JobInv, HoldInv, Threads
<1>3. NoLogLost /\ OnOnlyIfWanted /\ HeldWanted
  BY DEF ControlInit, NoLogLost, OnOnlyIfWanted, HeldWanted, Held
<1> QED BY <1>1, <1>2, <1>3 DEF ControlInv

(***************************************************************************)
(* Type correctness.                                                       *)
(***************************************************************************)
LEMMA ControlTypeStep ==
  ASSUME ControlTypeOK, ThreadsInv, [ControlNext]_controlVars PROVE ControlTypeOK'
<1>a. Modem \in Keys BY OrderFacts
<1> USE <1>a DEF ControlTypeOK, Goto, Begin, End, Repost, thread, monitors, disk
<1>1. ASSUME NEW t \in Threads, ThreadStep(t) PROVE ControlTypeOK'
  <2>1. CASE CloseRead(t)
    <3>1. CloseOrder[job[t]] \in Seq(Keys)
      BY <2>1, OrderFacts DEF CloseRead, ThreadsInv, JobInv, Jobs
    <3>2. CloseOrder[job[t]][idx[t]] \in Keys
      BY <2>1, <3>1 DEF CloseRead, ThreadsInv, JobInv
    <3>3. enable' \in [Threads -> SUBSET Keys] BY <2>1, <3>2 DEF CloseRead
    <3>4. stage' \in [Threads -> {"close", "off"} \cup {stage[u] : u \in Threads}]
          /\ idx' \in [Threads -> Nat]
      BY <2>1 DEF CloseRead
    <3>5. UNCHANGED <<prop, job, tasks, monitors, disk, deaths, asked>>
      BY <2>1 DEF CloseRead
    <3> QED BY <3>3, <3>4, <3>5
  <2>2. CASE CloseWrite(t) BY <2>2 DEF CloseWrite
  <2>3. CASE PathModemOn(t) BY <2>3 DEF PathModemOn
  <2>4. CASE Restart(t) BY <2>4 DEF Restart
  <2>5. CASE MonitorLook(t)
    <3>1. UNCHANGED <<prop, enable, tasks, disk, deaths, asked>>
      BY <2>5 DEF MonitorLook
    <3>2. already' \subseteq {"close", "clear"} BY <2>5 DEF MonitorLook
    <3>3. /\ monitor' \in {"posted", "running", "ended"} /\ level' \in {"close", "low", "ok"}
          /\ job' \in [Threads -> {"none", "clear", "path", "monitor"}]
          /\ stage' \in [Threads -> {"none", "look", "close", "off", "on", "restart",
                                     "measure", "remind", "force"}]
          /\ idx' \in [Threads -> Nat]
      BY <2>5 DEF MonitorLook
    <3> QED BY <3>1, <3>2, <3>3
  <2>6. CASE ClearOldData(t) BY <2>6 DEF ClearOldData, GivenUp
  <2>7. CASE ClearOldEnd(t) BY <2>7 DEF ClearOldEnd
  <2>8. CASE Measure(t) BY <2>8 DEF Measure
  <2>9. CASE Remind(t) BY <2>9 DEF Remind
  <2>10. CASE ForceState(t)
    <3>1. ForceOrder[idx[t]] \in Keys
      BY <2>10, ForceKey DEF ForceState, ThreadsInv, JobInv
    <3> QED BY <2>10, <3>1 DEF ForceState, AskedOff
  <2>11. CASE ForceEnd(t) BY <2>11 DEF ForceEnd
  <2>12. CASE MeasureThrows(t) BY <2>12 DEF MeasureThrows, Dies, GivenUp
  <2> QED BY <1>1, <2>1, <2>2, <2>3, <2>4, <2>5, <2>6, <2>7, <2>8, <2>9, <2>10,
             <2>11, <2>12 DEF ThreadStep
<1>2. CASE ExecuteDeleteTask BY <1>2 DEF ExecuteDeleteTask
<1>3. CASE ClearLog BY <1>3 DEF ClearLog, Threads
<1>4. CASE ClearDelete BY <1>4 DEF ClearDelete
<1>5. CASE ClearEnd BY <1>5 DEF ClearEnd
<1>6. CASE SwitchPath BY <1>6 DEF SwitchPath
<1>7. CASE SwitchSaveDir BY <1>7 DEF SwitchSaveDir
<1>8. CASE SwitchEnd BY <1>8 DEF SwitchEnd
<1>9. CASE RunMonitor BY <1>9 DEF RunMonitor
<1>10. ASSUME NEW k \in Switched, SwitchOn(k) \/ SwitchOff(k) PROVE ControlTypeOK'
  BY <1>10, SwitchedKeys DEF SwitchOn, SwitchOff, AskedOff
<1>11. CASE SpaceChanges
  <2>1. space' \in {"close", "low", "ok"} BY <1>11, LogControlAssumption DEF SpaceChanges
  <2> QED BY <1>11, <2>1 DEF SpaceChanges
<1>12. CASE FolderChanges BY <1>12 DEF FolderChanges
<1>13. CASE Killed
  <2>1. folder' \in BOOLEAN BY <1>13, Zenon DEF Killed, Dies
  <2>2. deaths' \in Nat BY <1>13 DEF Killed
  <2> QED BY <1>13, <2>1, <2>2 DEF Killed, Dies, GivenUp
<1>14. CASE UNCHANGED controlVars BY <1>14 DEF controlVars
<1> QED BY <1>1, <1>2, <1>3, <1>4, <1>5, <1>6, <1>7, <1>8, <1>9, <1>10, <1>11, <1>12,
           <1>13, <1>14 DEF ControlNext
(***************************************************************************)
(* Every thread keeps to its routine.                                      *)
(***************************************************************************)
\* A thread that a step leaves alone keeps its part, when the path is not
\* switched while it closes.
LEMMA ThreadKept ==
  ASSUME NEW t \in Threads, JobInv(t), HoldInv(t),
         job'[t] = job[t], stage'[t] = stage[t], idx'[t] = idx[t], enable'[t] = enable[t],
         microSD' = microSD \/ ~(job[t] = "path" /\ stage[t] = "off"),
         job[t] \in Jobs \cup {"none"}
  PROVE  (JobInv(t) /\ HoldInv(t))'
<1>1. JobInv(t)' BY DEF JobInv
<1>2. stage[t] = "off" => CloseOrder'[job[t]] = CloseOrder[job[t]]
  BY CloseOrderKept DEF JobInv
<1>3. OpenOrder' = OpenOrder BY DEF OpenOrder
<1>4. HoldInv(t)' BY <1>2, <1>3 DEF HoldInv
<1> QED BY <1>1, <1>4

LEMMA ThreadsStep ==
  ASSUME ControlTypeOK, ThreadsInv, [ControlNext]_controlVars PROVE ThreadsInv'
<1> USE DEF Goto, Begin, End, Repost, thread, monitors, disk
<1>a. \A t \in Threads : job[t] \in Jobs \cup {"none"} BY DEF ControlTypeOK, Jobs
<1>b. OpenOrder' = OpenOrder BY DEF OpenOrder
<1>c. Modem \in Keys BY OrderFacts
<1>1. ASSUME NEW t \in Threads, ThreadStep(t), UNCHANGED microSD,
             ~MeasureThrows(t)
      PROVE  ThreadsInv'
  <2>1. ASSUME NEW u \in Threads, u # t PROVE (JobInv(u) /\ HoldInv(u))'
    <3>1. /\ job'[u] = job[u] /\ stage'[u] = stage[u]
          /\ idx'[u] = idx[u] /\ enable'[u] = enable[u]
      BY <1>1, <2>1 DEF ThreadStep, ControlTypeOK, CloseRead, CloseWrite, PathModemOn,
           Restart, MonitorLook, ClearOldData, ClearOldEnd, Measure, Remind, ForceState,
           ForceEnd
    <3> QED BY <1>1, <1>a, <3>1, ThreadKept DEF ThreadsInv
  <2>2. JobInv(t) /\ HoldInv(t) BY DEF ThreadsInv
  <2>3. CloseOrder' = CloseOrder BY <1>1, CloseOrderKept
  <2>4. CASE CloseRead(t)
    <3>1. job[t] \in Jobs BY <1>a, <2>2, <2>4 DEF CloseRead, JobInv
    <3>2. CloseOrder[job[t]] \in Seq(Keys) BY <3>1, OrderFacts
    <3>3. idx[t] \in DOMAIN CloseOrder[job[t]]
      BY <2>2, <2>4, <3>2 DEF CloseRead, JobInv, ControlTypeOK
    <3>4. JobInv(t)' BY <2>2, <2>4 DEF CloseRead, JobInv, ControlTypeOK
    <3>5. HoldInv(t)' BY <2>3, <2>4, <3>3 DEF CloseRead, HoldInv, ControlTypeOK
    <3> QED BY <2>1, <3>4, <3>5 DEF ThreadsInv
  <2>5. CASE CloseWrite(t)
    <3>1. JobInv(t)' BY <2>2, <2>5 DEF CloseWrite, JobInv, ControlTypeOK
    <3>2. HoldInv(t)' BY <2>2, <2>5 DEF CloseWrite, HoldInv, ControlTypeOK
    <3> QED BY <2>1, <3>1, <3>2 DEF ThreadsInv
  <2>6. CASE PathModemOn(t)
    <3>1. JobInv(t)' BY <2>2, <2>6 DEF PathModemOn, JobInv, ControlTypeOK
    <3>2. HoldInv(t)' BY <2>6 DEF PathModemOn, HoldInv, ControlTypeOK
    <3> QED BY <2>1, <3>1, <3>2 DEF ThreadsInv
  <2>7. CASE Restart(t)
    <3>1. JobInv(t)' BY <2>2, <2>7 DEF Restart, JobInv, ControlTypeOK
    <3>2. stage'[t] = "restart" /\ idx'[t] = idx[t] + 1
          /\ enable'[t] = enable[t] \ {OpenOrder[idx[t]]} /\ idx[t] \in Nat
          /\ Len(OpenOrder) \in Nat
      BY <2>7, OrderFacts DEF Restart, ControlTypeOK
    <3>3. \A k \in enable'[t] : \E i \in (idx[t] + 1)..Len(OpenOrder) : OpenOrder[i] = k
      BY <2>2, <2>7, <3>2 DEF Restart, HoldInv
    <3>4. HoldInv(t)' BY <1>b, <3>2, <3>3 DEF HoldInv
    <3> QED BY <2>1, <3>1, <3>4 DEF ThreadsInv
  <2>8. CASE MonitorLook(t)
    <3>1. enable'[t] = {} BY <2>2, <2>8 DEF MonitorLook, HoldInv
    <3>2. job[t] = "monitor" BY <2>2, <2>8 DEF MonitorLook, JobInv
    <3>3. \/ job'[t] = "none" /\ stage'[t] = "none" /\ idx'[t] = 1
          \/ job'[t] = "monitor" /\ stage'[t] \in {"close", "remind"} /\ idx'[t] = 1
      BY <2>8, <3>2 DEF MonitorLook, ControlTypeOK
    <3> QED BY <2>1, <3>1, <3>3 DEF ThreadsInv, JobInv, HoldInv
  <2>9. CASE ClearOldData(t)
    <3>1. job'[t] = "monitor" /\ idx'[t] = 1
      BY <2>9 DEF ClearOldData, Closed, ControlTypeOK
    <3>2. \/ stage'[t] = "restart" /\ enable'[t] = enable[t]
          \/ stage'[t] = "measure" /\ enable'[t] = {}
      BY <2>9 DEF ClearOldData, ControlTypeOK
    <3>3. \A k \in enable[t] : \E i \in 1..Len(OpenOrder) : OpenOrder[i] = k
      BY OrderFacts DEF ControlTypeOK
    <3> QED BY <1>b, <2>1, <3>1, <3>2, <3>3 DEF ThreadsInv, JobInv, HoldInv
  <2>10. CASE ClearOldEnd(t)
    <3>1. enable[t] = {}
      BY <2>2, <2>10, OrderFacts DEF ClearOldEnd, Restarted, HoldInv, ControlTypeOK
    <3> QED BY <2>1, <2>10, <3>1 DEF ClearOldEnd, ThreadsInv, JobInv, HoldInv, ControlTypeOK
  <2>11. CASE Measure(t)
    <3>1. enable'[t] = {} /\ job[t] = "monitor"
      BY <2>2, <2>11 DEF Measure, HoldInv, JobInv
    <3>2. \/ job'[t] = "none" /\ stage'[t] = "none" /\ idx'[t] = 1
          \/ job'[t] = "monitor" /\ stage'[t] = "remind" /\ idx'[t] = 1
      BY <2>11, <3>1 DEF Measure, ControlTypeOK
    <3> QED BY <2>1, <3>1, <3>2 DEF ThreadsInv, JobInv, HoldInv
  <2>12. CASE Remind(t)
    <3>1. enable'[t] = {} /\ job[t] = "monitor"
      BY <2>2, <2>12 DEF Remind, HoldInv, JobInv
    <3>2. \/ job'[t] = "none" /\ stage'[t] = "none" /\ idx'[t] = 1
          \/ job'[t] = "monitor" /\ stage'[t] = "force" /\ idx'[t] = 1
      BY <2>12, <3>1 DEF Remind, ControlTypeOK
    <3> QED BY <2>1, <3>1, <3>2 DEF ThreadsInv, JobInv, HoldInv
  <2>13. CASE ForceState(t)
    <3>1. enable'[t] = {} /\ job'[t] = "monitor" /\ stage'[t] = "force"
          /\ idx'[t] = idx[t] + 1 /\ idx[t] \in Nat
      BY <2>2, <2>13 DEF ForceState, HoldInv, JobInv, ControlTypeOK
    <3> QED BY <2>1, <3>1 DEF ThreadsInv, JobInv, HoldInv
  <2>14. CASE ForceEnd(t)
    <3>1. enable'[t] = {} /\ job'[t] = "none" /\ stage'[t] = "none" /\ idx'[t] = 1
      BY <2>2, <2>14 DEF ForceEnd, HoldInv, ControlTypeOK
    <3> QED BY <2>1, <3>1 DEF ThreadsInv, JobInv, HoldInv
  <2> QED BY <1>1, <2>4, <2>5, <2>6, <2>7, <2>8, <2>9, <2>10, <2>11, <2>12, <2>13, <2>14
          DEF ThreadStep
<1>2. ASSUME Dies PROVE ThreadsInv'
  BY <1>2 DEF Dies, ThreadsInv, JobInv, HoldInv, Threads
<1>3. ASSUME UNCHANGED <<thread, microSD>> PROVE ThreadsInv'
  BY <1>3, <1>a, ThreadKept DEF ThreadsInv
<1>4. ASSUME NEW t \in Threads, UNCHANGED <<microSD>>,
             \A u \in Threads \ {t} : /\ job'[u] = job[u] /\ stage'[u] = stage[u]
                                      /\ idx'[u] = idx[u] /\ enable'[u] = enable[u],
             (JobInv(t) /\ HoldInv(t))'
      PROVE  ThreadsInv'
  BY <1>4, <1>a, ThreadKept DEF ThreadsInv
<1>5. CASE ClearLog
  <2>1. CASE folder \/ microSD
    <3>1. enable'["task"] = {} /\ job'["task"] = "clear" /\ stage'["task"] = "close"
          /\ idx'["task"] = 1
      BY <1>5, <2>1 DEF ClearLog, Idle, ThreadsInv, HoldInv, JobInv, ControlTypeOK, Threads
    <3>2. (JobInv("task") /\ HoldInv("task"))' BY <3>1 DEF JobInv, HoldInv
    <3> QED BY <1>4, <1>5, <2>1, <3>2 DEF ClearLog, Threads, ControlTypeOK
  <2>2. CASE ~(folder \/ microSD) BY <1>3, <1>5, <2>2 DEF ClearLog
  <2> QED BY <2>1, <2>2
<1>6. CASE ClearDelete
  <2>1. \A k \in enable["task"] : \E i \in 1..Len(OpenOrder) : OpenOrder[i] = k
    BY OrderFacts DEF ControlTypeOK, Threads
  <2>2. enable'["task"] = enable["task"] /\ job'["task"] = "clear" /\ stage'["task"] = "restart"
        /\ idx'["task"] = 1
    BY <1>6 DEF ClearDelete, Closed, ControlTypeOK, Threads
  <2>3. (JobInv("task") /\ HoldInv("task"))' BY <1>b, <2>1, <2>2 DEF JobInv, HoldInv
  <2> QED BY <1>4, <1>6, <2>3 DEF ClearDelete, Threads, ControlTypeOK
<1>7. CASE ClearEnd
  <2>1. enable["task"] = {}
    BY <1>7, OrderFacts DEF ClearEnd, Restarted, ThreadsInv, HoldInv, ControlTypeOK, Threads
  <2>2. (JobInv("task") /\ HoldInv("task"))'
    BY <1>7, <2>1 DEF ClearEnd, JobInv, HoldInv, ControlTypeOK, Threads
  <2> QED BY <1>4, <1>7, <2>2 DEF ClearEnd, Threads, ControlTypeOK
<1>8. CASE SwitchPath
  <2>1. (JobInv("main") /\ HoldInv("main"))'
    BY <1>8 DEF SwitchPath, JobInv, HoldInv, ControlTypeOK, Threads
  <2> QED BY <1>4, <1>8, <2>1 DEF SwitchPath, Threads, ControlTypeOK
<1>9. CASE SwitchSaveDir
  <2>1. \A k \in enable["main"] : \E i \in 1..Len(OpenOrder) : OpenOrder[i] = k
    BY OrderFacts DEF ControlTypeOK, Threads
  <2>2. enable'["main"] = enable["main"] /\ job'["main"] = "path" /\ stage'["main"] = "restart"
        /\ idx'["main"] = 1
    BY <1>9 DEF SwitchSaveDir, Closed, ControlTypeOK, Threads
  <2>3. (JobInv("main") /\ HoldInv("main"))' BY <1>b, <2>1, <2>2 DEF JobInv, HoldInv
  <2>4. ASSUME NEW u \in Threads, u # "main" PROVE (JobInv(u) /\ HoldInv(u))'
    <3>1. /\ job'[u] = job[u] /\ stage'[u] = stage[u]
          /\ idx'[u] = idx[u] /\ enable'[u] = enable[u]
      BY <1>9, <2>4 DEF SwitchSaveDir, ControlTypeOK
    <3>2. job[u] # "path" BY <2>4 DEF ThreadsInv, JobInv
    <3> QED BY <1>a, <3>1, <3>2, ThreadKept DEF ThreadsInv
  <2> QED BY <2>3, <2>4 DEF ThreadsInv
<1>10. CASE SwitchEnd
  <2>1. enable["main"] = {}
    BY <1>10, OrderFacts DEF SwitchEnd, Restarted, ThreadsInv, HoldInv, ControlTypeOK, Threads
  <2>2. (JobInv("main") /\ HoldInv("main"))'
    BY <1>10, <2>1 DEF SwitchEnd, JobInv, HoldInv, ControlTypeOK, Threads
  <2> QED BY <1>4, <1>10, <2>2 DEF SwitchEnd, Threads, ControlTypeOK
<1>11. CASE RunMonitor
  <2>1. enable["main"] = {}
    BY <1>11 DEF RunMonitor, Idle, ThreadsInv, JobInv, HoldInv, Threads
  <2>2. (JobInv("main") /\ HoldInv("main"))'
    BY <1>11, <2>1 DEF RunMonitor, JobInv, HoldInv, ControlTypeOK, Threads
  <2> QED BY <1>4, <1>11, <2>2 DEF RunMonitor, Threads, ControlTypeOK
<1>12. ASSUME NEW t \in Threads, ThreadStep(t), ~MeasureThrows(t) PROVE UNCHANGED microSD
  BY <1>12 DEF ThreadStep, CloseRead, CloseWrite, PathModemOn, Restart, MonitorLook,
       ClearOldData, ClearOldEnd, Measure, Remind, ForceState, ForceEnd
<1>13. ASSUME NEW t \in Threads, ThreadStep(t) PROVE ThreadsInv'
  BY <1>1, <1>2, <1>12, <1>13 DEF MeasureThrows
<1>14. ASSUME NEW k \in Switched, SwitchOn(k) \/ SwitchOff(k) PROVE ThreadsInv'
  BY <1>3, <1>14 DEF SwitchOn, SwitchOff
<1>15. CASE ExecuteDeleteTask BY <1>3, <1>15 DEF ExecuteDeleteTask
<1>16. CASE SpaceChanges BY <1>3, <1>16 DEF SpaceChanges
<1>17. CASE FolderChanges BY <1>3, <1>17 DEF FolderChanges
<1>18. CASE Killed BY <1>2, <1>18 DEF Killed
<1>19. CASE UNCHANGED controlVars BY <1>3, <1>19 DEF controlVars
<1> QED BY <1>5, <1>6, <1>7, <1>8, <1>9, <1>10, <1>11, <1>13, <1>14, <1>15, <1>16, <1>17,
           <1>18, <1>19 DEF ControlNext

(***************************************************************************)
(* No log is lost, and none comes back unwanted.                           *)
(***************************************************************************)
LEMMA WantedStep ==
  ASSUME ControlInv, [ControlNext]_controlVars
  PROVE  NoLogLost' /\ OnOnlyIfWanted' /\ HeldWanted'
<1> USE DEF Goto, Begin, End, Repost, thread, monitors, disk
<1> DEFINE Wanted == NoLogLost /\ OnOnlyIfWanted /\ HeldWanted
<1>a. Wanted /\ ThreadsInv /\ ControlTypeOK BY DEF ControlInv
<1>b. Modem \in Keys BY OrderFacts
<1>c. ASSUME UNCHANGED <<prop, enable, asked>> PROVE Wanted'
  BY <1>a, <1>c DEF NoLogLost, OnOnlyIfWanted, HeldWanted, Held
<1>d. ASSUME NEW k \in Keys, prop' = prop \ {k}, AskedOff(k), UNCHANGED enable PROVE Wanted'
  BY <1>a, <1>d DEF AskedOff, NoLogLost, OnOnlyIfWanted, HeldWanted, Held, ControlTypeOK
<1>e. ASSUME Dies PROVE Wanted'
  <2>1. \A k \in Keys : ~Held(k)' BY <1>e DEF Dies, Held
  <2>2. \A k \in Keys : Held(k) <=> k \in UNION {enable[t] : t \in Threads} BY DEF Held
  <2>3. \A k \in Keys : asked'[k] = IF Held(k) /\ k \notin prop /\ asked[k] = "on"
                                    THEN "givenUp" ELSE asked[k]
    BY <1>e, <2>2 DEF Dies, GivenUp
  <2>4. prop' = prop BY <1>e DEF Dies
  <2> QED BY <1>a, <2>1, <2>3, <2>4 DEF NoLogLost, OnOnlyIfWanted, HeldWanted, ControlTypeOK
<1>1. ASSUME NEW t \in Threads, ThreadStep(t) PROVE Wanted'
  <2>a. JobInv(t) /\ HoldInv(t) BY <1>a DEF ThreadsInv
  <2>1. CASE CloseRead(t)
    <3> DEFINE k == CloseOrder[job[t]][idx[t]]
    <3>1. CASE Found(t, k)
      <4>1. k \in Keys
        <5>1. CloseOrder[job[t]] \in Seq(Keys)
          BY <1>a, <2>a, <2>1, OrderFacts DEF CloseRead, JobInv, ControlTypeOK, Jobs
        <5> QED BY <1>a, <2>a, <2>1, <5>1 DEF CloseRead, JobInv, ControlTypeOK
      <4>2. asked[k] # "off"
        BY <1>a, <3>1, <4>1 DEF Found, OnOnlyIfWanted, HeldWanted, Held
      <4>3. UNCHANGED <<prop, asked>> /\ enable' = [enable EXCEPT ![t] = @ \cup {k}]
        BY <2>1, <3>1 DEF CloseRead
      <4>4. \A u \in Threads : enable[u] \subseteq enable'[u]
                               /\ enable'[u] \subseteq enable[u] \cup {k}
        BY <1>a, <4>3 DEF ControlTypeOK
      <4> HIDE DEF k
      <4> QED BY <1>a, <4>2, <4>3, <4>4 DEF NoLogLost, OnOnlyIfWanted, HeldWanted, Held
    <3>2. CASE ~Found(t, k) BY <1>c, <2>1, <3>2 DEF CloseRead
    <3> QED BY <3>1, <3>2
  <2>2. CASE CloseWrite(t)
    <3> DEFINE k == CloseOrder[job[t]][idx[t]]
    <3>1. Held(k) BY <2>a, <2>2 DEF CloseWrite, HoldInv, Held
    <3>2. prop' = prop \ {k} /\ UNCHANGED <<enable, asked>> BY <2>2 DEF CloseWrite
    <3> HIDE DEF k
    <3> QED BY <1>a, <3>1, <3>2 DEF NoLogLost, OnOnlyIfWanted, HeldWanted, Held
  <2>3. CASE PathModemOn(t)
    <3>1. Held(Modem) BY <2>a, <2>3 DEF PathModemOn, HoldInv, Held
    <3> QED BY <1>a, <1>b, <2>3, <3>1
            DEF PathModemOn, NoLogLost, OnOnlyIfWanted, HeldWanted, Held
  <2>4. CASE Restart(t)
    <3> DEFINE k == OpenOrder[idx[t]]
    <3>1. /\ prop' = prop \cup (enable[t] \cap {k}) /\ UNCHANGED asked
          /\ enable' = [enable EXCEPT ![t] = @ \ {k}]
      BY <2>4 DEF Restart
    <3>2. /\ enable'[t] = enable[t] \ {k}
          /\ \A u \in Threads \ {t} : enable'[u] = enable[u]
          /\ enable[t] \subseteq Keys
      BY <1>a, <3>1 DEF ControlTypeOK
    <3> HIDE DEF k
    <3>3. NoLogLost' BY <1>a, <3>1, <3>2 DEF NoLogLost, Held
    <3>4. OnOnlyIfWanted' BY <1>a, <3>1, <3>2 DEF OnOnlyIfWanted, HeldWanted, Held
    <3>5. HeldWanted' BY <1>a, <3>1, <3>2 DEF HeldWanted, Held
    <3> QED BY <3>3, <3>4, <3>5
  <2>5. CASE ClearOldData(t)
    <3>1. CASE folder BY <1>c, <2>5, <3>1 DEF ClearOldData
    <3>2. CASE ~folder
      <4> DEFINE s == enable[t] \ UNION {enable[u] : u \in Threads \ {t}}
      <4>1. GivenUp(s) /\ enable' = [enable EXCEPT ![t] = {}] /\ UNCHANGED prop
        BY <2>5, <3>2 DEF ClearOldData
      <4>2. \A u \in Threads : enable'[u] = IF u = t THEN {} ELSE enable[u]
        BY <1>a, <4>1 DEF ControlTypeOK
      <4>3. \A k \in Keys : Held(k)' => Held(k) BY <4>2 DEF Held
      <4>4. \A k \in Keys : k \in s <=> Held(k) /\ ~Held(k)' BY <4>2 DEF Held
      <4>5. \A k \in Keys : asked'[k] = IF k \in s /\ k \notin prop /\ asked[k] = "on"
                                        THEN "givenUp" ELSE asked[k]
        BY <4>1 DEF GivenUp
      <4> HIDE DEF s
      <4> QED BY <1>a, <4>1, <4>3, <4>4, <4>5
              DEF NoLogLost, OnOnlyIfWanted, HeldWanted, ControlTypeOK
    <3> QED BY <3>1, <3>2
  <2>6. CASE ForceState(t)
    <3>1. ForceOrder[idx[t]] \in Keys
      BY <1>a, <2>a, <2>6, ForceKey DEF ForceState, JobInv, ControlTypeOK
    <3> QED BY <1>d, <2>6, <3>1 DEF ForceState
  <2>7. CASE MeasureThrows(t) BY <1>e, <2>7 DEF MeasureThrows
  <2>8. CASE MonitorLook(t) \/ ClearOldEnd(t) \/ Measure(t) \/ Remind(t) \/ ForceEnd(t)
    BY <1>c, <2>8 DEF MonitorLook, ClearOldEnd, Measure, Remind, ForceEnd
  <2> QED BY <1>1, <2>1, <2>2, <2>3, <2>4, <2>5, <2>6, <2>7, <2>8 DEF ThreadStep
<1>2. CASE SwitchPath
  <2>1. enable["main"] = {}
    BY <1>a, <1>2 DEF SwitchPath, Idle, ThreadsInv, JobInv, HoldInv, Threads
  <2>2. /\ UNCHANGED <<prop, asked>>
        /\ \A u \in Threads : /\ enable[u] \subseteq enable'[u]
                              /\ enable'[u] \subseteq enable[u] \cup prop
    BY <1>2, <1>a, <2>1 DEF SwitchPath, ControlTypeOK
  <2> QED BY <1>a, <2>2 DEF NoLogLost, OnOnlyIfWanted, HeldWanted, Held
<1>3. ASSUME NEW k \in Switched, SwitchOn(k) PROVE Wanted'
  BY <1>a, <1>3, SwitchedKeys DEF SwitchOn, NoLogLost, OnOnlyIfWanted, HeldWanted, Held, ControlTypeOK
<1>4. ASSUME NEW k \in Switched, SwitchOff(k) PROVE Wanted'
  BY <1>d, <1>4, SwitchedKeys DEF SwitchOff
<1>5. CASE Killed BY <1>e, <1>5 DEF Killed
<1>6. CASE ExecuteDeleteTask \/ ClearLog \/ ClearDelete \/ ClearEnd
  BY <1>c, <1>6 DEF ExecuteDeleteTask, ClearLog, ClearDelete, ClearEnd
<1>7. CASE SwitchSaveDir \/ SwitchEnd \/ RunMonitor \/ SpaceChanges \/ FolderChanges
  BY <1>c, <1>7 DEF SwitchSaveDir, SwitchEnd, RunMonitor, SpaceChanges, FolderChanges
<1>8. CASE UNCHANGED controlVars BY <1>c, <1>8 DEF controlVars
<1> QED BY <1>1, <1>2, <1>3, <1>4, <1>5, <1>6, <1>7, <1>8 DEF ControlNext

LEMMA ControlStepInv == ControlInv /\ [ControlNext]_controlVars => ControlInv'
BY ControlTypeStep, ThreadsStep, WantedStep DEF ControlInv

LEMMA ControlInvariant == ControlSpec => []ControlInv
BY ControlInitInv, ControlStepInv, PTL DEF ControlSpec

LEMMA ControlFacts == ControlInv => ControlTypeOK /\ NoLogLost /\ OnOnlyIfWanted
BY DEF ControlInv

\* Type correctness of the state the routines share.
THEOREM ControlTypeCorrect == ControlSpec => []ControlTypeOK
BY ControlFacts, ControlInvariant, PTL

\* A log the user wants is on or in the local array of a thread that will switch
\* it on again: clearLog, clearOldData and the change of the save path lose none,
\* in whatever order they overlap.
THEOREM ControlNoLogLost == ControlSpec => []NoLogLost
BY ControlFacts, ControlInvariant, PTL

\* A log that was switched off while no clear held it stays off.
THEOREM ControlOnOnlyIfWanted == ControlSpec => []OnOnlyIfWanted
BY ControlFacts, ControlInvariant, PTL

(***************************************************************************)
(* MtpUpdater: how many copies of the runnable can wait in the queue.      *)
(***************************************************************************)
\* What each thread may have left of its calls.
MainCalls == {<<>>, <<"post">>, <<"remove">>, <<"remove", "post">>, <<"test", "post">>, Triger}
TaskCalls == {<<>>, <<"delete">>, <<"remove", "delete">>}
AfterCalls == {<<>>, <<"post">>, <<"remove", "post">>, Triger, <<"testAuto">> \o Triger}

\* Whether a thread may post with no removal before it.
Owes(c) == IF c \in {<<"post">>, <<"test", "post">>} THEN 1 ELSE 0

CallsOK ==
  /\ DOMAIN calls = MtpThreads /\ calls = [t \in MtpThreads |-> calls[t]]
  /\ calls["main"] \in MainCalls /\ calls["task"] \in TaskCalls /\ calls["after"] \in AfterCalls

\* A post still owed counts like one that was made.
MtpInv ==
  /\ autoMtp \in BOOLEAN /\ needMtp \in BOOLEAN
  /\ posted \in Nat /\ CallsOK
  /\ posted + Owes(calls["main"]) + Owes(calls["after"]) <= 2

LEMMA OwesBit == \A c : Owes(c) \in {0, 1}
BY DEF Owes

\* One call before three.
LEMMA FourCalls ==
  ASSUME NEW a, NEW b, NEW c, NEW d, NEW s, NEW t, NEW r,
         s = <<a>>, t = <<b, c, d>>, r = s \o t
  PROVE  r = <<a, b, c, d>>
<1> DEFINE S == {a, b, c, d}
           q == <<a, b, c, d>>
<1>1. s \in Seq(S) /\ t \in Seq(S) /\ Len(s) = 1 /\ Len(t) = 3
  OBVIOUS
<1>2. r \in Seq(S) /\ Len(r) = 4
  BY <1>1
<1>3. r[1] = s[1]
  BY <1>1
<1>4. r[2] = t[1] /\ r[3] = t[2] /\ r[4] = t[3]
  BY <1>1
<1>5. q \in Seq(S) /\ Len(q) = 4 /\ q[1] = a /\ q[2] = b /\ q[3] = c /\ q[4] = d
  OBVIOUS
<1> HIDE DEF S, q
<1>6. r[1] = a /\ r[2] = b /\ r[3] = c /\ r[4] = d
  BY <1>3, <1>4
<1>7. r = [i \in 1..4 |-> r[i]] /\ q = [i \in 1..4 |-> q[i]]
  BY <1>2, <1>5
<1>8. \A i \in 1..4 : i = 1 \/ i = 2 \/ i = 3 \/ i = 4
  OBVIOUS
<1>9. \A i \in 1..4 : r[i] = q[i]
  BY <1>5, <1>6, <1>8
<1>10. r = q
  BY <1>7, <1>9, Zenon
<1> QED BY <1>10 DEF q

LEMMA AutoTriger == <<"testAuto">> \o Triger = <<"testAuto", "test", "remove", "post">>
BY FourCalls, Zenon DEF Triger

\* What is left of the calls after the first, of each thread.
LEMMA MainTails ==
  ASSUME NEW c \in MainCalls, c # <<>>
  PROVE  /\ Tail(c) \in MainCalls
         /\ Head(c) = "post" => Tail(c) = <<>> /\ Owes(c) = 1
         /\ Head(c) \in {"test", "testAuto"} => Owes(Tail(c)) <= Owes(c)
<1>1. CASE c = <<"post">>
  <2>1. Head(c) = "post" /\ Tail(c) = <<>>
    BY <1>1
  <2> QED BY <1>1, <2>1 DEF MainCalls, Owes
<1>2. CASE c = <<"remove">>
  <2>1. Head(c) = "remove" /\ Tail(c) = <<>>
    BY <1>2
  <2> QED BY <2>1 DEF MainCalls
<1>3. CASE c = <<"remove", "post">>
  <2>1. Head(c) = "remove" /\ Tail(c) = <<"post">>
    BY <1>3
  <2> QED BY <2>1 DEF MainCalls
<1>4. CASE c = <<"test", "post">>
  <2>1. Head(c) = "test" /\ Tail(c) = <<"post">>
    BY <1>4
  <2> QED BY <1>4, <2>1 DEF MainCalls, Owes
<1>5. CASE c = Triger
  <2>1. Head(c) = "test" /\ Tail(c) = <<"remove", "post">>
    BY <1>5 DEF Triger
  <2>2. Tail(c) # <<"post">> /\ Tail(c) # <<"test", "post">>
    BY <2>1
  <2>3. Owes(Tail(c)) = 0 /\ Owes(c) \in {0, 1}
    BY <2>2 DEF Owes
  <2> QED BY <2>1, <2>3 DEF MainCalls
<1> QED BY <1>1, <1>2, <1>3, <1>4, <1>5 DEF MainCalls

LEMMA TaskTails ==
  ASSUME NEW c \in TaskCalls, c # <<>>
  PROVE  Tail(c) \in TaskCalls /\ Head(c) \in {"remove", "delete"}
<1>1. CASE c = <<"delete">>
  <2>1. Head(c) = "delete" /\ Tail(c) = <<>>
    BY <1>1
  <2> QED BY <2>1 DEF TaskCalls
<1>2. CASE c = <<"remove", "delete">>
  <2>1. Head(c) = "remove" /\ Tail(c) = <<"delete">>
    BY <1>2
  <2> QED BY <2>1 DEF TaskCalls
<1> QED BY <1>1, <1>2 DEF TaskCalls

LEMMA AfterTails ==
  ASSUME NEW c \in AfterCalls, c # <<>>
  PROVE  /\ Tail(c) \in AfterCalls
         /\ Head(c) = "post" => Tail(c) = <<>> /\ Owes(c) = 1
         /\ Head(c) \in {"test", "testAuto"} => Owes(Tail(c)) <= Owes(c)
<1>1. CASE c = <<"post">>
  <2>1. Head(c) = "post" /\ Tail(c) = <<>>
    BY <1>1
  <2> QED BY <1>1, <2>1 DEF AfterCalls, Owes
<1>2. CASE c = <<"remove", "post">>
  <2>1. Head(c) = "remove" /\ Tail(c) = <<"post">>
    BY <1>2
  <2> QED BY <2>1 DEF AfterCalls
<1>3. CASE c = Triger
  <2>1. Head(c) = "test" /\ Tail(c) = <<"remove", "post">>
    BY <1>3 DEF Triger
  <2>2. Tail(c) # <<"post">> /\ Tail(c) # <<"test", "post">>
    BY <2>1
  <2>3. Owes(Tail(c)) = 0 /\ Owes(c) \in {0, 1}
    BY <2>2 DEF Owes
  <2> QED BY <2>1, <2>3 DEF AfterCalls
<1>4. CASE c = <<"testAuto">> \o Triger
  <2>1. Head(c) = "testAuto" /\ Tail(c) = <<"test", "remove", "post">>
    <3>1. c = <<"testAuto", "test", "remove", "post">>
      BY <1>4, AutoTriger, Zenon
    <3> QED BY <3>1
  <2>2. Tail(c) # <<"post">> /\ Tail(c) # <<"test", "post">>
    BY <2>1
  <2>3. Owes(Tail(c)) = 0 /\ Owes(c) \in {0, 1}
    BY <2>2 DEF Owes
  <2>4. Tail(c) \in AfterCalls
    BY <2>1 DEF AfterCalls, Triger
  <2> QED BY <2>1, <2>3, <2>4
<1> QED BY <1>1, <1>2, <1>3, <1>4 DEF AfterCalls

\* Nothing is owed where a removal is still to come, or nothing at all.
LEMMA OwesNone == Owes(<<>>) = 0 /\ Owes(<<"remove">>) = 0 /\ Owes(Triger) = 0 /\ Owes(<<"testAuto">> \o Triger) = 0
<1>1. <<>> \notin {<<"post">>, <<"test", "post">>} /\ <<"remove">> \notin {<<"post">>, <<"test", "post">>}
  OBVIOUS
<1>2. Triger \notin {<<"post">>, <<"test", "post">>}
  BY DEF Triger
<1>3. <<"testAuto">> \o Triger \notin {<<"post">>, <<"test", "post">>}
  <2>1. <<"testAuto", "test", "remove", "post">> \notin {<<"post">>, <<"test", "post">>}
    OBVIOUS
  <2> QED BY <2>1, AutoTriger, Zenon
<1> QED BY <1>1, <1>2, <1>3 DEF Owes

\* calls' when one thread's calls become c.
LEMMA CallsSet ==
  ASSUME CallsOK, NEW t \in MtpThreads, NEW c, calls' = [calls EXCEPT ![t] = c]
  PROVE  /\ DOMAIN calls' = MtpThreads /\ calls' = [u \in MtpThreads |-> calls'[u]]
         /\ calls'[t] = c /\ \A u \in MtpThreads : u # t => calls'[u] = calls[u]
BY DEF CallsOK, MtpThreads

LEMMA MtpInitInv == MtpInit => MtpInv
<1> SUFFICES ASSUME MtpInit PROVE MtpInv
  OBVIOUS
<1>1. calls["main"] = Triger /\ calls["task"] = <<>> /\ calls["after"] = <<>> /\ posted = 0
  BY DEF MtpInit, MtpThreads
<1>2. CallsOK
  <2>1. DOMAIN calls = MtpThreads /\ calls = [t \in MtpThreads |-> calls[t]]
    BY DEF MtpInit
  <2> QED BY <1>1, <2>1 DEF CallsOK, MainCalls, TaskCalls, AfterCalls
<1>3. autoMtp \in BOOLEAN /\ needMtp \in BOOLEAN
  BY DEF MtpInit
<1>4. posted + Owes(calls["main"]) + Owes(calls["after"]) <= 2
  BY <1>1, OwesNone
<1> QED BY <1>1, <1>2, <1>3, <1>4 DEF MtpInv

\* A call of main that leaves at most one copy of its own, or owes no more than the
\* queue loses by it.
LEMMA MainKeeps ==
  ASSUME MtpInv, NEW c \in MainCalls, calls' = [calls EXCEPT !["main"] = c],
         posted' \in Nat,
         posted' + Owes(c) <= 1 \/ posted' + Owes(c) <= posted + Owes(calls["main"]),
         autoMtp' \in BOOLEAN, needMtp' \in BOOLEAN
  PROVE  MtpInv'
<1>1. "main" \in MtpThreads /\ "task" \in MtpThreads /\ "after" \in MtpThreads /\ CallsOK
  BY DEF MtpThreads, MtpInv
<1>2. /\ DOMAIN calls' = MtpThreads /\ calls' = [u \in MtpThreads |-> calls'[u]]
      /\ calls'["main"] = c /\ calls'["task"] = calls["task"] /\ calls'["after"] = calls["after"]
  BY <1>1, CallsSet
<1>3. CallsOK'
  BY <1>1, <1>2 DEF CallsOK
<1>4. (posted + Owes(calls["main"]) + Owes(calls["after"]))' <= 2
  <2>1. /\ posted \in Nat /\ Owes(c) \in {0, 1}
        /\ Owes(calls["main"]) \in {0, 1} /\ Owes(calls["after"]) \in {0, 1}
    BY OwesBit DEF MtpInv
  <2>2. Owes(calls["main"])' = Owes(c) /\ Owes(calls["after"])' = Owes(calls["after"])
    BY <1>2 DEF Owes
  <2>3. posted + Owes(calls["main"]) + Owes(calls["after"]) <= 2
    BY DEF MtpInv
  <2>4. posted' + Owes(c) + Owes(calls["after"]) <= 2
    BY <2>1, <2>3
  <2> QED BY <2>2, <2>4
<1> QED BY <1>3, <1>4 DEF MtpInv

\* The same of the thread that resumes the scan.
LEMMA AfterKeeps ==
  ASSUME MtpInv, NEW c \in AfterCalls, calls' = [calls EXCEPT !["after"] = c],
         posted' \in Nat,
         posted' + Owes(c) <= 1 \/ posted' + Owes(c) <= posted + Owes(calls["after"]),
         autoMtp' \in BOOLEAN, needMtp' \in BOOLEAN
  PROVE  MtpInv'
<1>1. "main" \in MtpThreads /\ "task" \in MtpThreads /\ "after" \in MtpThreads /\ CallsOK
  BY DEF MtpThreads, MtpInv
<1>2. /\ DOMAIN calls' = MtpThreads /\ calls' = [u \in MtpThreads |-> calls'[u]]
      /\ calls'["after"] = c /\ calls'["task"] = calls["task"] /\ calls'["main"] = calls["main"]
  BY <1>1, CallsSet
<1>3. CallsOK'
  BY <1>1, <1>2 DEF CallsOK
<1>4. (posted + Owes(calls["main"]) + Owes(calls["after"]))' <= 2
  <2>1. /\ posted \in Nat /\ Owes(c) \in {0, 1}
        /\ Owes(calls["main"]) \in {0, 1} /\ Owes(calls["after"]) \in {0, 1}
    BY OwesBit DEF MtpInv
  <2>2. Owes(calls["after"])' = Owes(c) /\ Owes(calls["main"])' = Owes(calls["main"])
    BY <1>2 DEF Owes
  <2>3. posted + Owes(calls["main"]) + Owes(calls["after"]) <= 2
    BY DEF MtpInv
  <2>4. posted' + Owes(calls["main"]) + Owes(c) <= 2
    BY <2>1, <2>3
  <2> QED BY <2>2, <2>4
<1> QED BY <1>3, <1>4 DEF MtpInv

\* A DeleteTask's own calls post nothing.
LEMMA TaskKeeps ==
  ASSUME MtpInv, NEW c \in TaskCalls, calls' = [calls EXCEPT !["task"] = c],
         posted' \in Nat, posted' <= posted, autoMtp' \in BOOLEAN, needMtp' \in BOOLEAN
  PROVE  MtpInv'
<1>1. "main" \in MtpThreads /\ "task" \in MtpThreads /\ "after" \in MtpThreads /\ CallsOK
  BY DEF MtpThreads, MtpInv
<1>2. /\ DOMAIN calls' = MtpThreads /\ calls' = [u \in MtpThreads |-> calls'[u]]
      /\ calls'["task"] = c /\ calls'["main"] = calls["main"] /\ calls'["after"] = calls["after"]
  BY <1>1, CallsSet
<1>3. CallsOK'
  BY <1>1, <1>2 DEF CallsOK
<1>4. (posted + Owes(calls["main"]) + Owes(calls["after"]))' <= 2
  <2>1. /\ posted \in Nat /\ Owes(calls["main"]) \in {0, 1} /\ Owes(calls["after"]) \in {0, 1}
    BY OwesBit DEF MtpInv
  <2>2. Owes(calls["main"])' = Owes(calls["main"]) /\ Owes(calls["after"])' = Owes(calls["after"])
    BY <1>2 DEF Owes
  <2>3. posted + Owes(calls["main"]) + Owes(calls["after"]) <= 2
    BY DEF MtpInv
  <2>4. posted' + Owes(calls["main"]) + Owes(calls["after"]) <= 2
    BY <2>1, <2>3
  <2> QED BY <2>2, <2>4
<1> QED BY <1>3, <1>4 DEF MtpInv

LEMMA HandlersKeep ==
  ASSUME MtpInv, SwitchAutoMtp \/ PathChange \/ UpdateMtp \/ ClearStops \/ ClearResumes
  PROVE  MtpInv'
<1>1. /\ autoMtp \in BOOLEAN /\ needMtp \in BOOLEAN /\ posted \in Nat
      /\ Owes(calls["main"]) \in {0, 1} /\ Owes(calls["after"]) \in {0, 1}
  BY OwesBit DEF MtpInv
<1>2. Triger \in MainCalls /\ <<"remove">> \in MainCalls /\ <<"test", "post">> \in MainCalls
  BY DEF MainCalls
<1>3. CASE SwitchAutoMtp
  <2>1. PICK c \in {Triger, <<"remove">>} : calls' = [calls EXCEPT !["main"] = c]
    BY <1>3 DEF SwitchAutoMtp
  <2>2. c \in MainCalls /\ Owes(c) = 0
    BY <1>2, <2>1, OwesNone
  <2>3. posted' = posted /\ needMtp' = needMtp /\ autoMtp' = ~autoMtp
    BY <1>3 DEF SwitchAutoMtp
  <2>4. autoMtp' \in BOOLEAN
    BY <1>1, <2>3, Zenon
  <2>5. posted' + Owes(c) <= posted + Owes(calls["main"])
    BY <1>1, <2>2, <2>3
  <2> QED BY <1>1, <2>1, <2>2, <2>3, <2>4, <2>5, MainKeeps
<1>4. CASE PathChange
  <2>1. calls' = [calls EXCEPT !["main"] = Triger]
    BY <1>4 DEF PathChange
  <2>2. posted' = posted /\ autoMtp' = autoMtp /\ needMtp' = ~needMtp
    BY <1>4 DEF PathChange
  <2>3. needMtp' \in BOOLEAN
    BY <1>1, <2>2, Zenon
  <2>4. posted' + Owes(Triger) <= posted + Owes(calls["main"])
    BY <1>1, <2>2, OwesNone
  <2> QED BY <1>1, <1>2, <2>1, <2>2, <2>3, <2>4, MainKeeps
<1>5. CASE UpdateMtp
  <2>1. calls' = [calls EXCEPT !["main"] = <<"test", "post">>]
    BY <1>5 DEF UpdateMtp
  <2>2. posted > 0 /\ posted' = posted - 1 /\ autoMtp' = autoMtp /\ needMtp' = needMtp
    BY <1>5 DEF UpdateMtp
  <2>3. posted' \in Nat /\ Owes(<<"test", "post">>) = 1
    BY <1>1, <2>2 DEF Owes
  <2>4. posted' + Owes(<<"test", "post">>) <= posted + Owes(calls["main"])
    BY <1>1, <2>2, <2>3
  <2> QED BY <1>1, <1>2, <2>1, <2>2, <2>3, <2>4, MainKeeps
<1>6. CASE ClearStops
  <2>1. calls' = [calls EXCEPT !["task"] = <<"remove", "delete">>]
    BY <1>6 DEF ClearStops
  <2>2. posted' = posted /\ autoMtp' = autoMtp /\ needMtp' = needMtp
    BY <1>6 DEF ClearStops
  <2>3. <<"remove", "delete">> \in TaskCalls /\ posted' <= posted
    BY <1>1, <2>2 DEF TaskCalls
  <2> QED BY <1>1, <2>1, <2>2, <2>3, TaskKeeps
<1>7. CASE ClearResumes
  <2>1. /\ calls' = [calls EXCEPT !["task"] = <<>>, !["after"] = <<"testAuto">> \o Triger]
        /\ posted' = posted /\ autoMtp' = autoMtp /\ needMtp' = needMtp
    BY <1>7 DEF ClearResumes
  <2> DEFINE a == <<"testAuto">> \o Triger
  <2>2. a \in AfterCalls /\ <<>> \in TaskCalls /\ Owes(a) = 0
    BY OwesNone DEF AfterCalls, TaskCalls
  <2>3. calls' = [calls EXCEPT !["task"] = <<>>, !["after"] = a]
    BY <2>1
  <2> HIDE DEF a
  <2>4. /\ DOMAIN calls' = MtpThreads /\ calls' = [u \in MtpThreads |-> calls'[u]]
        /\ calls'["main"] = calls["main"] /\ calls'["task"] = <<>> /\ calls'["after"] = a
    BY <2>3 DEF MtpInv, CallsOK, MtpThreads
  <2>5. CallsOK'
    BY <2>2, <2>4 DEF MtpInv, CallsOK
  <2>6. Owes(calls["main"])' = Owes(calls["main"]) /\ Owes(calls["after"])' = 0
    BY <2>2, <2>4 DEF Owes
  <2>7. posted + Owes(calls["main"]) + Owes(calls["after"]) <= 2
    BY DEF MtpInv
  <2>8. posted + Owes(calls["main"]) + 0 <= 2
    BY <1>1, <2>7
  <2>9. (posted + Owes(calls["main"]) + Owes(calls["after"]))' <= 2
    BY <2>1, <2>6, <2>8
  <2> QED BY <1>1, <2>1, <2>5, <2>9 DEF MtpInv
<1> QED BY <1>3, <1>4, <1>5, <1>6, <1>7

\* One call of a thread.
LEMMA MtpStepKeeps ==
  ASSUME MtpInv, NEW t \in MtpThreads, MtpStep(t)
  PROVE  MtpInv'
<1>1. /\ autoMtp \in BOOLEAN /\ needMtp \in BOOLEAN /\ posted \in Nat /\ CallsOK
      /\ Owes(calls["main"]) \in {0, 1} /\ Owes(calls["after"]) \in {0, 1}
  BY OwesBit DEF MtpInv
<1>2. autoMtp' = autoMtp /\ needMtp' = needMtp
  BY DEF MtpStep, RemoveCallbacks, Post, Test
<1> DEFINE c == calls[t]
<1>3. c # <<>>
  BY DEF MtpStep, RemoveCallbacks, Post, Test, Free
<1>4. \/ Head(c) = "remove" /\ posted' = 0 /\ calls' = [calls EXCEPT ![t] = Tail(c)]
      \/ Head(c) = "post" /\ posted' = posted + 1 /\ calls' = [calls EXCEPT ![t] = Tail(c)]
      \/ /\ Head(c) \in {"test", "testAuto"} /\ posted' = posted
         /\ \E d \in {Tail(c), <<>>} : calls' = [calls EXCEPT ![t] = d]
  BY <1>1 DEF MtpStep, RemoveCallbacks, Post, Test, Switches, CallsOK
<1>5. t \in {"main", "task", "after"}
  BY DEF MtpThreads
<1> HIDE DEF c
<1>6. CASE t = "main"
  <2>1. c \in MainCalls /\ c = calls["main"]
    BY <1>1, <1>6 DEF CallsOK, c
  <2>2. /\ Tail(c) \in MainCalls
        /\ Head(c) = "post" => Tail(c) = <<>> /\ Owes(c) = 1
        /\ Head(c) \in {"test", "testAuto"} => Owes(Tail(c)) <= Owes(c)
    BY <1>3, <2>1, MainTails
  <2>3. <<>> \in MainCalls /\ Owes(<<>>) = 0 /\ Owes(Tail(c)) \in {0, 1}
    BY OwesNone, OwesBit DEF MainCalls
  <2>4. CASE Head(c) = "remove" /\ posted' = 0 /\ calls' = [calls EXCEPT ![t] = Tail(c)]
    <3>1. posted' \in Nat /\ posted' + Owes(Tail(c)) <= 1
      BY <2>3, <2>4
    <3> QED BY <1>1, <1>2, <1>6, <2>2, <2>4, <3>1, MainKeeps
  <2>5. CASE Head(c) = "post" /\ posted' = posted + 1 /\ calls' = [calls EXCEPT ![t] = Tail(c)]
    <3>0. Owes(Tail(c)) = 0 /\ Owes(calls["main"]) = 1
      BY <2>1, <2>2, <2>3, <2>5, Zenon
    <3>1. posted' \in Nat /\ posted' + Owes(Tail(c)) <= posted + Owes(calls["main"])
      BY <1>1, <2>5, <3>0
    <3> QED BY <1>1, <1>2, <1>6, <2>2, <2>5, <3>1, MainKeeps
  <2>6. CASE /\ Head(c) \in {"test", "testAuto"} /\ posted' = posted
             /\ \E d \in {Tail(c), <<>>} : calls' = [calls EXCEPT ![t] = d]
    <3>1. PICK d \in {Tail(c), <<>>} : calls' = [calls EXCEPT ![t] = d]
      BY <2>6
    <3>2. d \in MainCalls /\ Owes(d) <= Owes(c) /\ Owes(d) \in {0, 1}
      <4>1. CASE d = Tail(c)
        <5>1. Owes(Tail(c)) <= Owes(c)
          BY <2>2, <2>6
        <5> QED BY <2>2, <2>3, <4>1, <5>1
      <4>2. CASE d = <<>>
        <5>1. Owes(c) \in {0, 1} /\ Owes(d) = 0
          BY <2>3, <4>2, OwesBit, Zenon
        <5> QED BY <2>3, <4>2, <5>1
      <4> QED BY <3>1, <4>1, <4>2
    <3>3. posted' \in Nat /\ posted' + Owes(d) <= posted + Owes(calls["main"])
      BY <1>1, <2>1, <2>6, <3>2
    <3> QED BY <1>1, <1>2, <1>6, <3>1, <3>2, <3>3, MainKeeps
  <2> QED BY <1>4, <2>4, <2>5, <2>6
<1>7. CASE t = "task"
  <2>1. c \in TaskCalls
    BY <1>1, <1>7 DEF CallsOK, c
  <2>2. Tail(c) \in TaskCalls /\ Head(c) \in {"remove", "delete"}
    BY <1>3, <2>1, TaskTails
  <2>3. posted' = 0 /\ calls' = [calls EXCEPT ![t] = Tail(c)]
    BY <1>4, <2>2
  <2>4. posted' \in Nat /\ posted' <= posted
    BY <1>1, <2>3
  <2> QED BY <1>1, <1>2, <1>7, <2>2, <2>3, <2>4, TaskKeeps
<1>8. CASE t = "after"
  <2>1. c \in AfterCalls /\ c = calls["after"]
    BY <1>1, <1>8 DEF CallsOK, c
  <2>2. /\ Tail(c) \in AfterCalls
        /\ Head(c) = "post" => Tail(c) = <<>> /\ Owes(c) = 1
        /\ Head(c) \in {"test", "testAuto"} => Owes(Tail(c)) <= Owes(c)
    BY <1>3, <2>1, AfterTails
  <2>3. <<>> \in AfterCalls /\ Owes(<<>>) = 0 /\ Owes(Tail(c)) \in {0, 1}
    BY OwesNone, OwesBit DEF AfterCalls
  <2>4. CASE Head(c) = "remove" /\ posted' = 0 /\ calls' = [calls EXCEPT ![t] = Tail(c)]
    <3>1. posted' \in Nat /\ posted' + Owes(Tail(c)) <= 1
      BY <2>3, <2>4
    <3> QED BY <1>1, <1>2, <1>8, <2>2, <2>4, <3>1, AfterKeeps
  <2>5. CASE Head(c) = "post" /\ posted' = posted + 1 /\ calls' = [calls EXCEPT ![t] = Tail(c)]
    <3>0. Owes(Tail(c)) = 0 /\ Owes(calls["after"]) = 1
      BY <2>1, <2>2, <2>3, <2>5, Zenon
    <3>1. posted' \in Nat /\ posted' + Owes(Tail(c)) <= posted + Owes(calls["after"])
      BY <1>1, <2>5, <3>0
    <3> QED BY <1>1, <1>2, <1>8, <2>2, <2>5, <3>1, AfterKeeps
  <2>6. CASE /\ Head(c) \in {"test", "testAuto"} /\ posted' = posted
             /\ \E d \in {Tail(c), <<>>} : calls' = [calls EXCEPT ![t] = d]
    <3>1. PICK d \in {Tail(c), <<>>} : calls' = [calls EXCEPT ![t] = d]
      BY <2>6
    <3>2. d \in AfterCalls /\ Owes(d) <= Owes(c) /\ Owes(d) \in {0, 1}
      <4>1. CASE d = Tail(c)
        <5>1. Owes(Tail(c)) <= Owes(c)
          BY <2>2, <2>6
        <5> QED BY <2>2, <2>3, <4>1, <5>1
      <4>2. CASE d = <<>>
        <5>1. Owes(c) \in {0, 1} /\ Owes(d) = 0
          BY <2>3, <4>2, OwesBit, Zenon
        <5> QED BY <2>3, <4>2, <5>1
      <4> QED BY <3>1, <4>1, <4>2
    <3>3. posted' \in Nat /\ posted' + Owes(d) <= posted + Owes(calls["after"])
      BY <1>1, <2>1, <2>6, <3>2
    <3> QED BY <1>1, <1>2, <1>8, <3>1, <3>2, <3>3, AfterKeeps
  <2> QED BY <1>4, <2>4, <2>5, <2>6
<1> QED BY <1>5, <1>6, <1>7, <1>8

LEMMA MtpStepInv == MtpInv /\ [MtpNext]_mtpVars => MtpInv'
<1>1. ASSUME MtpInv, MtpNext PROVE MtpInv'
  BY <1>1, HandlersKeep, MtpStepKeeps DEF MtpNext
<1>2. ASSUME MtpInv, UNCHANGED mtpVars PROVE MtpInv'
  <2>1. posted' = posted /\ calls' = calls /\ autoMtp' = autoMtp /\ needMtp' = needMtp
    BY <1>2 DEF mtpVars
  <2> QED BY <1>2, <2>1 DEF MtpInv, CallsOK, Owes
<1> QED BY <1>1, <1>2

LEMMA CallsAreSequences ==
  ASSUME CallsOK
  PROVE  calls \in [MtpThreads -> Seq({"test", "testAuto", "remove", "post", "delete"})]
<1> DEFINE S == {"test", "testAuto", "remove", "post", "delete"}
<1>1. \A c \in MainCalls : c \in Seq(S)
  <2>1. Triger \in Seq(S) /\ <<>> \in Seq(S) /\ <<"post">> \in Seq(S) /\ <<"remove", "post">> \in Seq(S)
    BY DEF Triger
  <2>2. <<"remove">> \in Seq(S) /\ <<"test", "post">> \in Seq(S)
    OBVIOUS
  <2> QED BY <2>1, <2>2, Zenon DEF MainCalls
<1>2. \A c \in TaskCalls : c \in Seq(S)
  <2>1. <<>> \in Seq(S) /\ <<"delete">> \in Seq(S) /\ <<"remove", "delete">> \in Seq(S)
    OBVIOUS
  <2> QED BY <2>1, Zenon DEF TaskCalls
<1>3. \A c \in AfterCalls : c \in Seq(S)
  <2>1. <<"testAuto">> \o Triger \in Seq(S)
    <3>1. <<"testAuto", "test", "remove", "post">> \in Seq(S)
      OBVIOUS
    <3> QED BY <3>1, AutoTriger, Zenon
  <2>2. Triger \in Seq(S) /\ <<>> \in Seq(S) /\ <<"post">> \in Seq(S) /\ <<"remove", "post">> \in Seq(S)
    BY DEF Triger
  <2> QED BY <2>1, <2>2, Zenon DEF AfterCalls
<1> HIDE DEF S
<1>4. \A t \in MtpThreads : calls[t] \in Seq(S)
  BY <1>1, <1>2, <1>3 DEF CallsOK, MtpThreads
<1>5. calls \in [MtpThreads -> Seq(S)]
  BY <1>4 DEF CallsOK
<1> QED BY <1>5 DEF S

LEMMA MtpFacts == MtpInv => MtpTypeOK
<1> SUFFICES ASSUME MtpInv PROVE MtpTypeOK
  OBVIOUS
<1>1. posted \in 0..2
  <2>1. posted \in Nat /\ Owes(calls["main"]) \in {0, 1} /\ Owes(calls["after"]) \in {0, 1}
    BY OwesBit DEF MtpInv
  <2> QED BY <2>1 DEF MtpInv
<1> QED BY <1>1, CallsAreSequences DEF MtpInv, MtpTypeOK

\* However the user's switch, a change of the save path and the two threads of a clear
\* interleave with the runnable, at most two copies of it wait in the handler's queue.
THEOREM MtpTypeCorrect == MtpSpec => []MtpTypeOK
BY MtpFacts, MtpInitInv, MtpStepInv, PTL DEF MtpSpec

(***************************************************************************)
(* DumpLogger: the statements a caller has still to execute.               *)
(***************************************************************************)
Statements == {"interrupt", "threadNull", "close", "runnableNull", "testPrevious",
               "closePrevious", "newRunnable", "newThread", "start"}

\* Which statement comes after which; stop ends with runnableNull, a start with start.
Follows(a, b) ==
  \/ a = "interrupt" /\ b = "threadNull"
  \/ a = "threadNull" /\ b = "close"
  \/ a = "close" /\ b = "runnableNull"
  \/ a = "runnableNull" /\ b \in {"testPrevious", "newRunnable"}
  \/ a = "testPrevious" /\ b = "closePrevious"
  \/ a = "closePrevious" /\ b = "newRunnable"
  \/ a = "newRunnable" /\ b = "newThread"
  \/ a = "newThread" /\ b = "start"

Stopping == {"interrupt", "threadNull", "close", "runnableNull"}

Chained(q) == q \in Seq(Statements) /\ \A i \in 1..Len(q) - 1 : Follows(q[i], q[i + 1])
Shaped(q) ==
  /\ Chained(q)
  /\ q # <<>> => q[Len(q)] \in {"runnableNull", "start"}
  /\ \A i \in 1..Len(q) : q[i] \notin Stopping \/ (q[i] = "runnableNull" /\ i < Len(q)) => q[Len(q)] = "start"

\* A caller's next statement, and whether its calls end with a start.
Phase(q) == IF q = <<>> THEN "idle" ELSE Head(q)
Starts(q) == q # <<>> /\ q[Len(q)] = "start"
\* It has still to make a runnable.
Pends(q) == Starts(q) /\ Phase(q) \notin {"newThread", "start"}
Pend(q) == IF Pends(q) THEN 1 ELSE 0

Other(c) == IF c = "main" THEN "task" ELSE "main"

TodoInv == todo = [c \in Callers |-> todo[c]] /\ \A c \in Callers : Shaped(todo[c])

\* The runnables that may still be made.
BudgetInv == \A c \in Callers : made + Pend(todo[c]) + Pend(todo[Other(c)]) <= MaxRunnables

\* Closed, interrupted and running threads were made.
ThreadInv ==
  /\ mClose \subseteq 1..made /\ interrupted \subseteq 1..made
  /\ \A t \in Ids : t > made => at[t] = "none"
  /\ \A t \in Ids : at[t] \in {"dump", "sleep"} => target[t] # 0
  /\ mThread # 0 /\ ~thrown => at[mThread] # "none"

\* Nobody has started or interrupted the thread a caller is making.
MakesInv ==
  /\ \A c \in Callers : Phase(todo[c]) = "newThread" =>
       making[c] \in 1..made /\ at[making[c]] = "none" /\ making[c] \notin interrupted
  /\ \A c \in Callers : Phase(todo[c]) = "newThread" /\ Phase(todo[Other(c)]) = "newThread" =>
       making[c] # making[Other(c)]

ThrownInv == thrown => \A c \in Callers : todo[c] = <<>>

MakingInv == LoggerTypeOK /\ TodoInv /\ BudgetInv /\ ThreadInv /\ MakesInv /\ ThrownInv

\* A category that is switched on, once no caller has a runnable still to make, has an
\* open runnable that no interrupt will close; and once no caller has a thread to make
\* either, mThread runs it or has still to be started.
Settled == wanted /\ ~thrown /\ \A c \in Callers : ~Pends(todo[c])

EndsInv ==
  /\ todo["task"] # <<>> => Starts(todo["task"])
  /\ wanted /\ todo["main"] # <<>> => Starts(todo["main"])

RunnableInv ==
  Settled =>
    mRunnable # 0 /\ mRunnable \notin mClose /\ \A t \in interrupted : target[t] # mRunnable

RunsInv ==
  Settled /\ (\A c \in Callers : Phase(todo[c]) # "newThread") =>
    /\ mThread # 0 /\ target[mThread] = mRunnable
    /\ at[mThread] \in {"new", "check", "dump", "sleep"}
    /\ Quiet => at[mThread] # "new"

WantedInv == EndsInv /\ RunnableInv /\ RunsInv

\* While calls do not overlap and no start finds an unclosed logger.
PhaseInv(p, m) ==
  /\ p = "newRunnable" => mRunnable = 0 \/ mRunnable \in mClose
  /\ p = "closePrevious" => mRunnable # 0
  /\ p = "newThread" => m = mRunnable
  /\ p = "start" => mThread # 0 /\ at[mThread] = "new"
  /\ p = "runnableNull" => mRunnable = 0 \/ mRunnable \in mClose
  /\ p \in {"close", "runnableNull"} => mThread = 0

AloneInv ==
  ~raced =>
    /\ ~thrown /\ \A c \in Callers : todo[c] = <<>> \/ todo[Other(c)] = <<>>
    /\ \A t \in Ids : target[t] \in {0, t}
    /\ \A r \in 1..made : r \in mClose \/ r = mRunnable
    /\ \A c \in Callers : PhaseInv(Phase(todo[c]), making[c])
    /\ ~wanted => /\ todo["task"] = <<>> /\ ~Starts(todo["main"])
                  /\ todo["main"] = <<>> => mThread = 0 /\ mRunnable = 0

LoggerInv == MakingInv /\ WantedInv /\ AloneInv

LEMMA StatementFacts ==
  ASSUME NEW q, q \in Seq(Statements), q # <<>>
  PROVE  /\ Len(q) \in Nat \ {0} /\ q[1] = Head(q)
         /\ Len(Tail(q)) = Len(q) - 1 /\ Tail(q) \in Seq(Statements)
         /\ \A i \in 1..Len(q) - 1 : Tail(q)[i] = q[i + 1]
         /\ Tail(q) = <<>> <=> Len(q) = 1
<1>1. Len(q) \in Nat \ {0} /\ q[1] = Head(q)
  OBVIOUS
<1>2. Tail(q) \in Seq(Statements) /\ Len(Tail(q)) = Len(q) - 1
  OBVIOUS
<1>3. \A i \in 1..Len(q) - 1 : Tail(q)[i] = q[i + 1]
  OBVIOUS
<1>4. Tail(q) = <<>> <=> Len(q) = 1
  BY <1>1, <1>2
<1> QED BY <1>1, <1>2, <1>3, <1>4

\* What executing a statement leaves.
LEMMA ShapedTail ==
  ASSUME NEW q, Shaped(q), q # <<>>
  PROVE  /\ Shaped(Tail(q)) /\ Head(q) \in Statements
         /\ Tail(q) # <<>> => Follows(Head(q), Head(Tail(q))) /\ (Starts(Tail(q)) <=> Starts(q))
         /\ Tail(q) = <<>> => Head(q) \in {"runnableNull", "start"}
         /\ Head(q) \notin Stopping => Starts(q)
         /\ Head(q) = "runnableNull" => (Starts(q) <=> Tail(q) # <<>>)
<1> DEFINE r == Tail(q)
<1>1. /\ Len(q) \in Nat \ {0} /\ q[1] = Head(q)
      /\ Len(r) = Len(q) - 1 /\ r \in Seq(Statements)
      /\ \A i \in 1..Len(q) - 1 : r[i] = q[i + 1]
      /\ r = <<>> <=> Len(q) = 1
  BY StatementFacts DEF Shaped, Chained
<1> HIDE DEF r
<1>2. /\ q \in Seq(Statements) /\ \A i \in 1..Len(q) - 1 : Follows(q[i], q[i + 1])
      /\ q[Len(q)] \in {"runnableNull", "start"}
      /\ \A i \in 1..Len(q) :
           q[i] \notin Stopping \/ (q[i] = "runnableNull" /\ i < Len(q)) => q[Len(q)] = "start"
  BY DEF Shaped, Chained
<1>3. ASSUME NEW i \in 1..Len(r) - 1 PROVE Follows(r[i], r[i + 1])
  <2>1. i + 1 \in 1..Len(q) - 1 /\ i \in 1..Len(q) - 1
    BY <1>1
  <2>2. r[i] = q[i + 1] /\ r[i + 1] = q[i + 1 + 1]
    BY <1>1, <2>1
  <2> QED BY <1>2, <2>1, <2>2
<1>4. r # <<>> => r[Len(r)] = q[Len(q)]
  <2> SUFFICES ASSUME r # <<>> PROVE r[Len(r)] = q[Len(q)]
    OBVIOUS
  <2>1. Len(r) \in 1..Len(q) - 1 /\ Len(r) + 1 = Len(q)
    BY <1>1
  <2> QED BY <1>1, <2>1
<1>5. ASSUME NEW i \in 1..Len(r), r[i] \notin Stopping \/ (r[i] = "runnableNull" /\ i < Len(r))
      PROVE  r[Len(r)] = "start"
  <2>1. i \in 1..Len(q) - 1 /\ i + 1 \in 1..Len(q) /\ Len(r) = Len(q) - 1 /\ Len(q) # 1
    BY <1>1
  <2>2. r[i] = q[i + 1]
    BY <1>1, <2>1
  <2>3. i < Len(r) => i + 1 < Len(q)
    BY <1>1
  <2>4. q[Len(q)] = "start"
    BY <1>2, <1>5, <2>1, <2>2, <2>3
  <2> QED BY <1>1, <1>4, <2>1, <2>4
<1>6. Shaped(r)
  BY <1>1, <1>2, <1>3, <1>4, <1>5 DEF Shaped, Chained
<1>7. r # <<>> => Follows(Head(q), Head(r)) /\ (Starts(r) <=> Starts(q))
  <2> SUFFICES ASSUME r # <<>> PROVE Follows(Head(q), Head(r)) /\ (Starts(r) <=> Starts(q))
    OBVIOUS
  <2>1. r[1] = Head(r)
    BY <1>1
  <2>2. 1 \in 1..Len(q) - 1
    BY <1>1
  <2>3. r[1] = q[2] /\ Follows(q[1], q[2])
    BY <1>1, <1>2, <2>2
  <2>4. Follows(Head(q), Head(r))
    BY <1>1, <2>1, <2>3
  <2> QED BY <1>4, <2>4 DEF Starts
<1>8. r = <<>> => Head(q) \in {"runnableNull", "start"}
  BY <1>1, <1>2
<1>9. Head(q) \notin Stopping => Starts(q)
  <2>1. 1 \in 1..Len(q)
    BY <1>1
  <2> QED BY <1>1, <1>2, <2>1 DEF Starts
<1>10. Head(q) = "runnableNull" => (Starts(q) <=> r # <<>>)
  <2>1. 1 \in 1..Len(q) /\ (r # <<>> => 1 < Len(q))
    BY <1>1
  <2>2. r = <<>> => Head(q) = q[Len(q)]
    BY <1>1
  <2> QED BY <1>1, <1>2, <2>1, <2>2 DEF Starts
<1>11. Head(q) \in Statements
  BY <1>2
<1> QED BY <1>6, <1>7, <1>8, <1>9, <1>10, <1>11 DEF r

\* The phase after each statement.
LEMMA PhaseTail ==
  ASSUME NEW q, Shaped(q), q # <<>>
  PROVE  /\ Shaped(Tail(q)) /\ Phase(q) = Head(q) /\ Phase(q) \in Statements
         /\ Phase(q) = "interrupt" => Phase(Tail(q)) = "threadNull"
         /\ Phase(q) = "threadNull" => Phase(Tail(q)) = "close"
         /\ Phase(q) = "close" => Phase(Tail(q)) = "runnableNull"
         /\ Phase(q) = "runnableNull" =>
              Phase(Tail(q)) \in {"testPrevious", "newRunnable", "idle"} /\ (Starts(q) <=> Tail(q) # <<>>)
         /\ Phase(q) = "testPrevious" => Phase(Tail(q)) = "closePrevious"
         /\ Phase(q) = "closePrevious" => Phase(Tail(q)) = "newRunnable"
         /\ Phase(q) = "newRunnable" => Phase(Tail(q)) = "newThread"
         /\ Phase(q) = "newThread" => Phase(Tail(q)) = "start"
         /\ Phase(q) = "start" => Tail(q) = <<>>
         /\ Tail(q) # <<>> => (Starts(Tail(q)) <=> Starts(q))
         /\ Phase(q) \notin Stopping => Starts(q)
<1> DEFINE r == Tail(q)
<1>1. /\ Shaped(r) /\ Head(q) \in Statements
      /\ r # <<>> => Follows(Head(q), Head(r)) /\ (Starts(r) <=> Starts(q))
      /\ r = <<>> => Head(q) \in {"runnableNull", "start"}
      /\ Head(q) \notin Stopping => Starts(q)
      /\ Head(q) = "runnableNull" => (Starts(q) <=> r # <<>>)
  BY ShapedTail
<1> HIDE DEF r
<1>2. /\ Phase(q) = Head(q) /\ (r # <<>> => Phase(r) = Head(r)) /\ (r = <<>> => Phase(r) = "idle")
  BY DEF Phase
<1>3. /\ Phase(q) = "interrupt" => Phase(r) = "threadNull"
      /\ Phase(q) = "threadNull" => Phase(r) = "close"
      /\ Phase(q) = "close" => Phase(r) = "runnableNull"
      /\ Phase(q) = "runnableNull" => Phase(r) \in {"testPrevious", "newRunnable", "idle"}
      /\ Phase(q) = "testPrevious" => Phase(r) = "closePrevious"
      /\ Phase(q) = "closePrevious" => Phase(r) = "newRunnable"
      /\ Phase(q) = "newRunnable" => Phase(r) = "newThread"
      /\ Phase(q) = "newThread" => Phase(r) = "start"
      /\ Phase(q) = "start" => r = <<>>
  BY <1>1, <1>2 DEF Follows
<1> QED BY <1>1, <1>2, <1>3 DEF r

\* One list of statements after another.
LEMMA ChainedConcat ==
  ASSUME NEW s, NEW t, NEW q, Chained(s), Chained(t), s # <<>>, t # <<>>,
         Follows(s[Len(s)], t[1]), q = s \o t
  PROVE  /\ Chained(q) /\ q # <<>> /\ Head(q) = Head(s) /\ q[Len(q)] = t[Len(t)]
<1>1. s \in Seq(Statements) /\ t \in Seq(Statements)
  BY DEF Chained
<1>2. Len(s) \in Nat \ {0} /\ Len(t) \in Nat \ {0} /\ s[1] = Head(s) /\ t[1] = Head(t)
  BY <1>1, StatementFacts
<1>3. q \in Seq(Statements) /\ Len(q) = Len(s) + Len(t)
  BY <1>1
<1>4. \A i \in 1..Len(s) : q[i] = s[i]
  BY <1>1
<1>5. ASSUME NEW i \in 1..Len(t) PROVE q[Len(s) + i] = t[i]
  <2>1. Len(s) + i \in 1..Len(s) + Len(t) /\ ~(Len(s) + i <= Len(s)) /\ Len(s) + i - Len(s) = i
    BY <1>2
  <2>2. q[Len(s) + i] = t[Len(s) + i - Len(s)]
    BY <1>1, <2>1
  <2> QED BY <2>1, <2>2
<1>6. ASSUME NEW i \in 1..Len(q) - 1 PROVE Follows(q[i], q[i + 1])
  <2>1. CASE i < Len(s)
    <3>1. i \in 1..Len(s) /\ i + 1 \in 1..Len(s) /\ i \in 1..Len(s) - 1
      BY <1>2, <2>1
    <3>2. q[i] = s[i] /\ q[i + 1] = s[i + 1]
      BY <1>4, <3>1
    <3> QED BY <3>1, <3>2 DEF Chained
  <2>2. CASE i = Len(s)
    <3>1. q[i] = s[Len(s)]
      BY <1>2, <1>4, <2>2
    <3>2. q[i + 1] = t[1]
      BY <1>2, <1>5, <2>2
    <3> QED BY <3>1, <3>2
  <2>3. CASE i > Len(s)
    <3> DEFINE j == i - Len(s)
    <3>1. j \in 1..Len(t) /\ j + 1 \in 1..Len(t) /\ j \in 1..Len(t) - 1
      BY <1>2, <1>3, <2>3
    <3>2. Len(s) + j = i /\ Len(s) + (j + 1) = i + 1
      BY <1>2, <2>3
    <3> HIDE DEF j
    <3>3. q[i] = t[j] /\ q[i + 1] = t[j + 1]
      BY <1>5, <3>1, <3>2
    <3> QED BY <3>1, <3>3 DEF Chained
  <2> QED BY <1>2, <2>1, <2>2, <2>3
<1>7. q[Len(q)] = t[Len(t)]
  <2>1. q[Len(s) + Len(t)] = t[Len(t)]
    BY <1>2, <1>5
  <2> QED BY <1>3, <2>1
<1>8. q # <<>> /\ Head(q) = q[1]
  BY <1>2, <1>3
<1>9. q[1] = s[1]
  BY <1>2, <1>4
<1> QED BY <1>2, <1>3, <1>6, <1>7, <1>8, <1>9 DEF Chained

\* The statements of the calls.
LEMMA StopShaped ==
  /\ Shaped(StopStatements) /\ StopStatements # <<>> /\ Head(StopStatements) = "interrupt"
  /\ ~Starts(StopStatements) /\ StopStatements[Len(StopStatements)] = "runnableNull"
<1> DEFINE q == StopStatements
<1>1. q \in Seq(Statements) /\ Len(q) = 4
  BY DEF StopStatements, Statements
<1>2. q[1] = "interrupt" /\ q[2] = "threadNull" /\ q[3] = "close" /\ q[4] = "runnableNull"
  BY DEF StopStatements
<1> HIDE DEF q
<1>3. \A i \in 1..Len(q) - 1 : Follows(q[i], q[i + 1])
  <2>1. \A i \in 1..Len(q) - 1 : i = 1 \/ i = 2 \/ i = 3
    BY <1>1
  <2>2. Follows(q[1], q[2]) /\ Follows(q[2], q[3]) /\ Follows(q[3], q[4])
    BY <1>2 DEF Follows
  <2> QED BY <2>1, <2>2
<1>4. q # <<>> /\ Head(q) = q[1] /\ q[Len(q)] = "runnableNull"
  BY <1>1, <1>2
<1>5. \A i \in 1..Len(q) : q[i] \in Stopping /\ (q[i] = "runnableNull" => i = Len(q))
  <2>1. \A i \in 1..Len(q) : i = 1 \/ i = 2 \/ i = 3 \/ i = 4
    BY <1>1
  <2> QED BY <1>1, <1>2, <2>1 DEF Stopping
<1>6. Shaped(q)
  BY <1>1, <1>3, <1>4, <1>5 DEF Shaped, Chained
<1>7. ~Starts(q)
  BY <1>4 DEF Starts
<1> QED BY <1>2, <1>4, <1>6, <1>7 DEF q

LEMMA StartShaped ==
  /\ Shaped(StartStatements) /\ StartStatements # <<>> /\ Starts(StartStatements)
  /\ Head(StartStatements) \in {"testPrevious", "newRunnable"}
<1> DEFINE p == <<"testPrevious", "closePrevious">>
           n == <<"newRunnable", "newThread", "start">>
<1>1. n \in Seq(Statements) /\ Len(n) = 3
  BY DEF Statements
<1>2. n[1] = "newRunnable" /\ n[2] = "newThread" /\ n[3] = "start"
  OBVIOUS
<1>3. p \in Seq(Statements) /\ Len(p) = 2
  BY DEF Statements
<1>4. p[1] = "testPrevious" /\ p[2] = "closePrevious"
  OBVIOUS
<1>5. StartStatements = n \/ StartStatements = p \o n
  <2>1. <<>> \o n = n
    OBVIOUS
  <2> QED BY <2>1 DEF StartStatements
<1> HIDE DEF p, n
<1>6. Chained(n) /\ n # <<>> /\ Head(n) = "newRunnable" /\ n[Len(n)] = "start"
  <2>1. \A i \in 1..Len(n) - 1 : i = 1 \/ i = 2
    BY <1>1
  <2>2. Follows(n[1], n[2]) /\ Follows(n[2], n[3])
    BY <1>2 DEF Follows
  <2>3. \A i \in 1..Len(n) - 1 : Follows(n[i], n[i + 1])
    BY <2>1, <2>2
  <2>4. n # <<>> /\ Head(n) = n[1] /\ n[Len(n)] = "start"
    BY <1>1, <1>2
  <2> QED BY <1>1, <1>2, <2>3, <2>4 DEF Chained
<1>7. Chained(p) /\ p # <<>> /\ Head(p) = "testPrevious" /\ p[Len(p)] = "closePrevious"
  <2>1. \A i \in 1..Len(p) - 1 : i = 1
    BY <1>3
  <2>2. Follows(p[1], p[2])
    BY <1>4 DEF Follows
  <2>3. \A i \in 1..Len(p) - 1 : Follows(p[i], p[i + 1])
    BY <2>1, <2>2
  <2>4. p # <<>> /\ Head(p) = p[1] /\ p[Len(p)] = "closePrevious"
    BY <1>3, <1>4
  <2> QED BY <1>3, <1>4, <2>3, <2>4 DEF Chained
<1>8. ASSUME NEW r, r = p \o n
      PROVE  Chained(r) /\ r # <<>> /\ Head(r) = "testPrevious" /\ r[Len(r)] = "start"
  <2>1. Follows(p[Len(p)], n[1])
    BY <1>2, <1>7 DEF Follows
  <2>2. Chained(r) /\ r # <<>> /\ Head(r) = Head(p) /\ r[Len(r)] = n[Len(n)]
    BY <1>6, <1>7, <1>8, <2>1, ChainedConcat
  <2> QED BY <1>6, <1>7, <2>2
<1>9. /\ Chained(StartStatements) /\ StartStatements # <<>>
      /\ Head(StartStatements) \in {"testPrevious", "newRunnable"}
      /\ StartStatements[Len(StartStatements)] = "start"
  BY <1>5, <1>6, <1>8
<1> QED BY <1>9 DEF Shaped, Starts

LEMMA RestartShaped ==
  ASSUME NEW q, q = StopStatements \o StartStatements
  PROVE  Shaped(q) /\ q # <<>> /\ Starts(q) /\ Head(q) = "interrupt"
<1> DEFINE s == StopStatements
           t == StartStatements
<1>1. /\ Shaped(s) /\ Head(s) = "interrupt" /\ s # <<>> /\ s[Len(s)] = "runnableNull"
      /\ Shaped(t) /\ t # <<>> /\ Starts(t) /\ Head(t) \in {"testPrevious", "newRunnable"}
      /\ q = s \o t
  BY StopShaped, StartShaped
<1> HIDE DEF s, t
<1>2. t[1] = Head(t)
  BY <1>1, StatementFacts DEF Shaped, Chained
<1>3. Follows(s[Len(s)], t[1])
  BY <1>1, <1>2 DEF Follows
<1>4. Chained(s) /\ Chained(t) /\ t[Len(t)] = "start"
  BY <1>1 DEF Shaped, Starts
<1>5. Chained(q) /\ q # <<>> /\ Head(q) = Head(s) /\ q[Len(q)] = t[Len(t)]
  BY <1>1, <1>3, <1>4, ChainedConcat
<1> QED BY <1>1, <1>4, <1>5 DEF Shaped, Starts

(***************************************************************************)
(* The steps of the callers, by phases.                                    *)
(***************************************************************************)
\* Caller c went on from phase p to one of ps.
Moves(c, p, ps) ==
  /\ TodoInv' /\ todo[c] # <<>> /\ Phase(todo[c]) = p /\ Phase(todo'[c]) \in ps
  /\ todo'[Other(c)] = todo[Other(c)] /\ thrown' = thrown
  /\ todo'[c] # <<>> => (Starts(todo'[c]) <=> Starts(todo[c]))
  /\ (Starts(todo[c]) <=> todo'[c] # <<>> \/ p = "start") \/ p \in Stopping \ {"runnableNull"}

LEMMA Others ==
  ASSUME NEW c \in Callers
  PROVE  /\ Other(c) \in Callers /\ Other(c) # c /\ Other(Other(c)) = c
         /\ \A d \in Callers : d = c \/ d = Other(c)
         /\ "main" \in Callers /\ "task" \in Callers
BY DEF Other, Callers

LEMMA TodoSet ==
  ASSUME TodoInv, NEW c \in Callers, NEW q, Shaped(q), todo' = [todo EXCEPT ![c] = q]
  PROVE  TodoInv' /\ todo'[c] = q /\ todo'[Other(c)] = todo[Other(c)]
<1>1. DOMAIN todo = Callers
  BY DEF TodoInv
<1>2. todo'[c] = q /\ \A d \in Callers : d # c => todo'[d] = todo[d]
  BY <1>1
<1>3. todo' = [d \in Callers |-> todo'[d]]
  BY <1>1
<1>4. \A d \in Callers : Shaped(todo'[d])
  BY <1>2 DEF TodoInv
<1> QED BY <1>2, <1>3, <1>4, Others DEF TodoInv

LEMMA ExecuteMoves ==
  ASSUME TodoInv, NEW c \in Callers, NEW p, Execute(c, p)
  PROVE  /\ p = "interrupt" => Moves(c, p, {"threadNull"})
         /\ p = "threadNull" => Moves(c, p, {"close"})
         /\ p = "close" => Moves(c, p, {"runnableNull"})
         /\ p = "runnableNull" => Moves(c, p, {"testPrevious", "newRunnable", "idle"})
         /\ p = "testPrevious" => Moves(c, p, {"closePrevious"})
         /\ p = "closePrevious" => Moves(c, p, {"newRunnable"})
         /\ p = "newRunnable" => Moves(c, p, {"newThread"})
         /\ p = "newThread" => Moves(c, p, {"start"})
         /\ p = "start" => Moves(c, p, {"idle"})
<1> DEFINE q == todo[c]
           r == Tail(q)
<1>1. q # <<>> /\ Head(q) = p /\ todo' = [todo EXCEPT ![c] = r] /\ thrown' = thrown
  <2>1. todo' = [todo EXCEPT ![c] = Tail(todo[c])]
    BY DEF Execute, TodoInv
  <2> QED BY <2>1 DEF Execute
<1>2. Shaped(q)
  BY DEF TodoInv
<1>3. /\ Shaped(r) /\ Phase(q) = Head(q) /\ Phase(q) \in Statements
      /\ Phase(q) = "interrupt" => Phase(r) = "threadNull"
      /\ Phase(q) = "threadNull" => Phase(r) = "close"
      /\ Phase(q) = "close" => Phase(r) = "runnableNull"
      /\ Phase(q) = "runnableNull" =>
           Phase(r) \in {"testPrevious", "newRunnable", "idle"} /\ (Starts(q) <=> r # <<>>)
      /\ Phase(q) = "testPrevious" => Phase(r) = "closePrevious"
      /\ Phase(q) = "closePrevious" => Phase(r) = "newRunnable"
      /\ Phase(q) = "newRunnable" => Phase(r) = "newThread"
      /\ Phase(q) = "newThread" => Phase(r) = "start"
      /\ Phase(q) = "start" => r = <<>>
      /\ r # <<>> => (Starts(r) <=> Starts(q))
      /\ Phase(q) \notin Stopping => Starts(q)
  BY <1>1, <1>2, PhaseTail
<1> HIDE DEF q, r
<1>4. TodoInv' /\ todo'[c] = r /\ todo'[Other(c)] = todo[Other(c)]
  BY <1>1, <1>3, TodoSet
<1>5. q = todo[c]
  BY DEF q
<1>6. r = <<>> <=> Phase(r) = "idle"
  <2>1. r # <<>> => Phase(r) \in Statements
    BY <1>3, PhaseTail
  <2>2. "idle" \notin Statements
    BY DEF Statements
  <2> QED BY <2>1, <2>2 DEF Phase
<1>7. ASSUME NEW ps, Phase(r) \in ps,
             (Starts(q) <=> r # <<>> \/ p = "start") \/ p \in Stopping \ {"runnableNull"}
      PROVE  Moves(c, p, ps)
  BY <1>1, <1>3, <1>4, <1>5, <1>7 DEF Moves
<1>8. p \in {"interrupt", "threadNull", "close"} => p \in Stopping \ {"runnableNull"}
  BY DEF Stopping
<1>9. p \in {"testPrevious", "closePrevious", "newRunnable", "newThread"} => Starts(q) /\ r # <<>>
  BY <1>1, <1>3, <1>6 DEF Stopping
<1>10. p = "start" => Starts(q) /\ Phase(r) = "idle"
  BY <1>1, <1>3, <1>6 DEF Stopping
<1> QED BY <1>1, <1>3, <1>7, <1>8, <1>9, <1>10

LEMMA IdlePhase ==
  ASSUME NEW q, Shaped(q)
  PROVE  /\ (Phase(q) = "idle" <=> q = <<>>) /\ (q # <<>> => Phase(q) \in Statements)
         /\ Phase(q) \notin Stopping \cup {"idle"} => Starts(q)
         /\ q = <<>> => ~Starts(q) /\ ~Pends(q)
<1>1. q # <<>> => Phase(q) \in Statements /\ (Phase(q) \notin Stopping => Starts(q))
  BY PhaseTail
<1>2. "idle" \notin Statements
  BY DEF Statements
<1> QED BY <1>1, <1>2 DEF Phase, Starts, Pends

\* if (mAudioRunnable != null) found null.
LEMMA SkipMoves ==
  ASSUME TodoInv, NEW c \in Callers, todo[c] # <<>>, Head(todo[c]) = "testPrevious",
         todo' = [todo EXCEPT ![c] = Tail(Tail(@))], thrown' = thrown
  PROVE  Moves(c, "testPrevious", {"newRunnable"})
<1> DEFINE q == todo[c]
           r == Tail(q)
           s == Tail(r)
<1>1. q # <<>> /\ Head(q) = "testPrevious" /\ todo' = [todo EXCEPT ![c] = s] /\ Shaped(q)
  <2>1. todo' = [todo EXCEPT ![c] = Tail(Tail(todo[c]))]
    BY DEF TodoInv
  <2> QED BY <2>1 DEF TodoInv
<1>2. /\ Shaped(r) /\ Phase(q) = Head(q) /\ (Phase(q) = "testPrevious" => Phase(r) = "closePrevious")
      /\ r # <<>> => (Starts(r) <=> Starts(q))
      /\ Phase(q) \notin Stopping => Starts(q)
  BY <1>1, PhaseTail
<1>3. Phase(r) = "closePrevious" /\ r # <<>> /\ Starts(q) /\ Phase(q) = "testPrevious"
  BY <1>1, <1>2, IdlePhase DEF Stopping
<1>4. /\ Shaped(s) /\ (Phase(r) = "closePrevious" => Phase(s) = "newRunnable")
      /\ s # <<>> => (Starts(s) <=> Starts(r))
  BY <1>2, <1>3, PhaseTail
<1> HIDE DEF q, r, s
<1>5. Phase(s) = "newRunnable" /\ s # <<>> /\ Starts(s)
  BY <1>2, <1>3, <1>4, IdlePhase
<1>6. TodoInv' /\ todo'[c] = s /\ todo'[Other(c)] = todo[Other(c)]
  BY <1>1, <1>4, TodoSet
<1>7. q = todo[c]
  BY DEF q
<1> QED BY <1>1, <1>3, <1>5, <1>6, <1>7 DEF Moves

\* Only newRunnable changes whether a caller has a runnable still to make.
LEMMA MovesPend ==
  ASSUME TodoInv, NEW c \in Callers, NEW p, NEW ps, Moves(c, p, ps), p # "newRunnable",
         \/ p = "newThread" /\ ps = {"start"}
         \/ p = "start" /\ ps = {"idle"}
         \/ p = "runnableNull" /\ ps \cap {"newThread", "start"} = {}
         \/ p \notin {"newThread", "start"} /\ ps \cap {"newThread", "start", "idle"} = {}
  PROVE  Pends(todo'[c]) <=> Pends(todo[c])
<1> DEFINE q == todo[c]
           r == todo'[c]
<1>1. Shaped(q) /\ Shaped(r)
  BY DEF Moves, TodoInv
<1>2. /\ q # <<>> /\ Phase(q) = p /\ Phase(r) \in ps
      /\ r # <<>> => (Starts(r) <=> Starts(q))
      /\ (Starts(q) <=> r # <<>> \/ p = "start") \/ p \in Stopping \ {"runnableNull"}
  BY DEF Moves
<1>3. (Phase(r) = "idle" <=> r = <<>>) /\ (r = <<>> => ~Pends(r))
  BY <1>1, IdlePhase
<1> HIDE DEF q, r
<1>4. CASE p = "newThread" /\ ps = {"start"}
  BY <1>2, <1>4 DEF Pends, q, r
<1>5. CASE p = "start" /\ ps = {"idle"}
  BY <1>2, <1>3, <1>5 DEF Pends, q, r
<1>6. CASE p = "runnableNull" /\ ps \cap {"newThread", "start"} = {}
  <2>1. Pends(r) <=> Pends(q)
    BY <1>2, <1>3, <1>6 DEF Pends
  <2> QED BY <2>1 DEF q, r
<1>7. CASE p \notin {"newThread", "start"} /\ ps \cap {"newThread", "start", "idle"} = {}
  <2>1. Phase(r) \notin {"newThread", "start", "idle"}
    BY <1>2, <1>7
  <2>2. Pends(r) <=> Pends(q)
    BY <1>2, <1>3, <1>7, <2>1 DEF Pends
  <2> QED BY <2>2 DEF q, r
<1> QED BY <1>4, <1>5, <1>6, <1>7

\* The steps of a caller: those before it makes a runnable,
Prepares(c) ==
  /\ UNCHANGED <<target, at, made, making>>
  /\ \/ /\ Moves(c, "interrupt", {"threadNull"})
        /\ interrupted' = interrupted \cup ({mThread} \ {0})
        /\ UNCHANGED <<mThread, mRunnable, mClose>>
     \/ Moves(c, "threadNull", {"close"}) /\ mThread' = 0 /\ UNCHANGED <<mRunnable, mClose, interrupted>>
     \/ /\ Moves(c, "close", {"runnableNull"})
        /\ mClose' = mClose \cup ({mRunnable} \ {0})
        /\ UNCHANGED <<mThread, mRunnable, interrupted>>
     \/ /\ Moves(c, "runnableNull", {"testPrevious", "newRunnable", "idle"})
        /\ mRunnable' = 0 /\ UNCHANGED <<mThread, mClose, interrupted>>
     \/ /\ Moves(c, "testPrevious", {"closePrevious"}) /\ mRunnable # 0
        /\ UNCHANGED <<mThread, mRunnable, mClose, interrupted>>
     \/ /\ Moves(c, "testPrevious", {"newRunnable"}) /\ mRunnable = 0
        /\ UNCHANGED <<mThread, mRunnable, mClose, interrupted>>
     \/ /\ Moves(c, "closePrevious", {"newRunnable"}) /\ mRunnable # 0
        /\ mClose' = mClose \cup {mRunnable}
        /\ UNCHANGED <<mThread, mRunnable, interrupted>>

\* and those that make a runnable and a thread and start it.
MakesRunnable(c) ==
  /\ Moves(c, "newRunnable", {"newThread"})
  /\ made' = made + 1 /\ making' = [making EXCEPT ![c] = made + 1] /\ mRunnable' = made + 1
  /\ UNCHANGED <<mThread, mClose, target, at, interrupted>>
MakesThread(c) ==
  /\ Moves(c, "newThread", {"start"})
  /\ mThread' = making[c]
  /\ target' = [target EXCEPT ![making[c]] = mRunnable]
  /\ at' = [at EXCEPT ![making[c]] = "new"]
  /\ UNCHANGED <<mRunnable, mClose, interrupted, made, making>>
StartsThread(c) ==
  /\ Startable /\ Moves(c, "start", {"idle"})
  /\ at' = [at EXCEPT ![mThread] = "check"]
  /\ UNCHANGED <<mThread, mRunnable, mClose, target, interrupted, made, making>>
Throws(c) ==
  /\ Throw
  /\ \/ Phase(todo[c]) = "closePrevious" /\ mRunnable = 0
     \/ Phase(todo[c]) = "start" /\ ~Startable

LEMMA CallerCases ==
  ASSUME TodoInv, NEW c \in Callers, Caller(c)
  PROVE  /\ UNCHANGED <<category, wanted, raced>>
         /\ Prepares(c) \/ MakesRunnable(c) \/ MakesThread(c) \/ StartsThread(c) \/ Throws(c)
<1>1. UNCHANGED <<category, wanted, raced>>
  BY DEF Caller
<1>2. ASSUME NEW p, todo[c] # <<>>, Head(todo[c]) = p PROVE Phase(todo[c]) = p
  BY <1>2 DEF Phase
<1>3. CASE Interrupt(c)
  <2>1. Moves(c, "interrupt", {"threadNull"})
    BY <1>3, ExecuteMoves DEF Interrupt
  <2> QED BY <1>1, <1>3, <2>1 DEF Interrupt, Prepares, fields
<1>4. CASE CloseRunnable(c)
  <2>1. Moves(c, "close", {"runnableNull"})
    BY <1>4, ExecuteMoves DEF CloseRunnable
  <2> QED BY <1>1, <1>4, <2>1 DEF CloseRunnable, Prepares, fields
<1>5. CASE AssignNull(c)
  <2>1. CASE Execute(c, "threadNull") /\ mThread' = 0 /\ UNCHANGED mRunnable
    <3>1. Moves(c, "threadNull", {"close"})
      BY <2>1, ExecuteMoves
    <3> QED BY <1>1, <1>5, <2>1, <3>1 DEF AssignNull, Prepares, runs
  <2>2. CASE Execute(c, "runnableNull") /\ mRunnable' = 0 /\ UNCHANGED mThread
    <3>1. Moves(c, "runnableNull", {"testPrevious", "newRunnable", "idle"})
      BY <2>2, ExecuteMoves
    <3> QED BY <1>1, <1>5, <2>2, <3>1 DEF AssignNull, Prepares, runs
  <2> QED BY <1>5, <2>1, <2>2 DEF AssignNull
<1>6. CASE ClosePrevious(c)
  <2>1. CASE /\ Execute(c, "testPrevious") /\ mRunnable # 0
             /\ UNCHANGED <<fields, runs, made, making>>
    <3>1. Moves(c, "testPrevious", {"closePrevious"})
      BY <2>1, ExecuteMoves
    <3> QED BY <1>1, <2>1, <3>1 DEF Prepares, fields, runs
  <2>2. CASE /\ todo[c] # <<>> /\ Head(todo[c]) = "testPrevious" /\ mRunnable = 0
             /\ todo' = [todo EXCEPT ![c] = Tail(Tail(@))]
             /\ UNCHANGED <<fields, runs, made, making, thrown>>
    <3>1. Moves(c, "testPrevious", {"newRunnable"})
      BY <2>2, SkipMoves
    <3> QED BY <1>1, <2>2, <3>1 DEF Prepares, fields, runs
  <2>3. CASE /\ Execute(c, "closePrevious") /\ mRunnable # 0
             /\ mClose' = mClose \cup {mRunnable}
             /\ UNCHANGED <<fields, target, at, interrupted, made, making>>
    <3>1. Moves(c, "closePrevious", {"newRunnable"})
      BY <2>3, ExecuteMoves
    <3> QED BY <1>1, <2>3, <3>1 DEF Prepares, fields
  <2>4. CASE todo[c] # <<>> /\ Head(todo[c]) = "closePrevious" /\ mRunnable = 0 /\ Throw
    BY <1>1, <1>2, <2>4 DEF Throws
  <2> QED BY <1>6, <2>1, <2>2, <2>3, <2>4 DEF ClosePrevious
<1>7. CASE NewRunnable(c)
  <2>1. Moves(c, "newRunnable", {"newThread"})
    BY <1>7, ExecuteMoves DEF NewRunnable
  <2> QED BY <1>1, <1>7, <2>1 DEF NewRunnable, MakesRunnable, runs
<1>8. CASE NewThread(c)
  <2>1. Moves(c, "newThread", {"start"})
    BY <1>8, ExecuteMoves DEF NewThread
  <2> QED BY <1>1, <1>8, <2>1 DEF NewThread, MakesThread
<1>9. CASE StartThread(c)
  <2>1. CASE /\ Startable
             /\ Execute(c, "start")
             /\ at' = [at EXCEPT ![mThread] = "check"]
             /\ UNCHANGED <<fields, mClose, target, interrupted, made, making>>
    <3>1. Moves(c, "start", {"idle"})
      BY <2>1, ExecuteMoves
    <3> QED BY <1>1, <2>1, <3>1 DEF StartsThread, fields
  <2>2. CASE ~Startable /\ todo[c] # <<>> /\ Head(todo[c]) = "start" /\ Throw
    BY <1>1, <1>2, <2>2 DEF Throws
  <2> QED BY <1>9, <2>1, <2>2 DEF StartThread
<1> QED BY <1>3, <1>4, <1>5, <1>6, <1>7, <1>8, <1>9 DEF Caller

(***************************************************************************)
(* MakingInv.                                                              *)
(***************************************************************************)
LEMMA LoggerFacts ==
  ASSUME LoggerTypeOK
  PROVE  /\ MaxRunnables \in Nat /\ made \in Nat /\ made <= MaxRunnables /\ Ids = 1..MaxRunnables
         /\ mThread \in 0..made /\ mRunnable \in 0..made
         /\ \A t \in 1..made : t \in Ids /\ target[t] \in 0..made
         /\ \A t \in Ids : target[t] \in 0..made /\ t \in Nat \ {0}
         /\ target \in [Ids -> 0..made] /\ making \in [Callers -> 0..made]
         /\ at \in [Ids -> {"none", "new", "check", "dump", "sleep", "done"}]
<1>1. MaxRunnables \in Nat /\ Ids = 1..MaxRunnables
  BY DumpLoggerAssumption DEF Ids
<1>2. made \in Nat /\ made <= MaxRunnables
  BY <1>1 DEF LoggerTypeOK
<1>3. \A t \in 1..made : t \in Ids
  BY <1>1, <1>2
<1>4. target \in [Ids -> 0..made] /\ making \in [Callers -> 0..made]
      /\ at \in [Ids -> {"none", "new", "check", "dump", "sleep", "done"}]
  BY DEF LoggerTypeOK
<1>5. mThread \in 0..made /\ mRunnable \in 0..made
  BY DEF LoggerTypeOK
<1> QED BY <1>1, <1>2, <1>3, <1>4, <1>5

LEMMA PendBit == \A q : Pend(q) \in {0, 1} /\ (Pend(q) = 1 <=> Pends(q))
BY DEF Pend

LEMMA BudgetKept ==
  ASSUME BudgetInv, made' = made, \A d \in Callers : Pends(todo'[d]) <=> Pends(todo[d])
  PROVE  BudgetInv'
<1>1. \A d \in Callers : Pend(todo'[d]) = Pend(todo[d]) /\ Other(d) \in Callers
  BY Others DEF Pend
<1> QED BY <1>1 DEF BudgetInv

LEMMA MakesKept ==
  ASSUME LoggerTypeOK, MakesInv, made' = made, making' = making,
         \A d \in Callers : Phase(todo'[d]) = "newThread" => Phase(todo[d]) = "newThread",
         \A t \in 1..made : at[t] = "none" => at'[t] = "none",
         \A t \in interrupted' : t \in interrupted \/ at[t] # "none"
  PROVE  MakesInv'
<1>1. \A d \in Callers : Other(d) \in Callers
  BY Others
<1>2. \A d \in Callers : Phase(todo'[d]) = "newThread" =>
        making'[d] \in 1..made' /\ at'[making'[d]] = "none" /\ making'[d] \notin interrupted'
  BY DEF MakesInv
<1>3. \A d \in Callers : Phase(todo'[d]) = "newThread" /\ Phase(todo'[Other(d)]) = "newThread" =>
        making'[d] # making'[Other(d)]
  BY <1>1 DEF MakesInv
<1> QED BY <1>2, <1>3 DEF MakesInv

\* Before it makes a runnable a caller clears fields and closes what they hold.
LEMMA PreparesMoves ==
  ASSUME TodoInv, NEW c \in Callers, Prepares(c)
  PROVE  /\ TodoInv' /\ todo[c] # <<>> /\ todo'[Other(c)] = todo[Other(c)] /\ thrown' = thrown
         /\ \A d \in Callers : Pends(todo'[d]) <=> Pends(todo[d])
         /\ Phase(todo[c]) \notin {"newRunnable", "newThread", "start"}
         /\ Phase(todo'[c]) \notin {"newThread", "start"}
         /\ todo'[c] # <<>> => (Starts(todo'[c]) <=> Starts(todo[c]))
         /\ UNCHANGED <<target, at, made, making>>
         /\ mThread' \in {mThread, 0} /\ mRunnable' \in {mRunnable, 0}
         /\ mClose' \in {mClose, mClose \cup ({mRunnable} \ {0})}
         /\ interrupted' \in {interrupted, interrupted \cup ({mThread} \ {0})}
<1> DEFINE before == {"interrupt", "threadNull", "close", "runnableNull", "testPrevious", "closePrevious"}
           after == {"threadNull", "close", "runnableNull", "testPrevious", "closePrevious", "newRunnable"}
<1>1. /\ UNCHANGED <<target, at, made, making>>
      /\ mThread' \in {mThread, 0} /\ mRunnable' \in {mRunnable, 0}
      /\ mClose' \in {mClose, mClose \cup ({mRunnable} \ {0})}
      /\ interrupted' \in {interrupted, interrupted \cup ({mThread} \ {0})}
  BY DEF Prepares
<1>2. \/ \E p \in before \ {"runnableNull"} : \E n \in after : Moves(c, p, {n})
      \/ Moves(c, "runnableNull", {"testPrevious", "newRunnable", "idle"})
  BY DEF Prepares
<1>3. CASE \E p \in before \ {"runnableNull"} : \E n \in after : Moves(c, p, {n})
  <2>1. PICK p \in before \ {"runnableNull"}, n \in after : Moves(c, p, {n})
    BY <1>3
  <2>2. p # "newRunnable" /\ p \notin {"newThread", "start"}
        /\ {n} \cap {"newThread", "start", "idle"} = {}
    BY <2>1
  <2>3. Pends(todo'[c]) <=> Pends(todo[c])
    BY <2>1, <2>2, MovesPend
  <2>4. /\ TodoInv' /\ todo[c] # <<>> /\ todo'[Other(c)] = todo[Other(c)] /\ thrown' = thrown
        /\ Phase(todo[c]) = p /\ Phase(todo'[c]) = n
        /\ todo'[c] # <<>> => (Starts(todo'[c]) <=> Starts(todo[c]))
    BY <2>1 DEF Moves
  <2> QED BY <1>1, <2>1, <2>3, <2>4, Others
<1>4. CASE Moves(c, "runnableNull", {"testPrevious", "newRunnable", "idle"})
  <2>1. {"testPrevious", "newRunnable", "idle"} \cap {"newThread", "start"} = {}
    OBVIOUS
  <2>2. Pends(todo'[c]) <=> Pends(todo[c])
    BY <1>4, <2>1, MovesPend
  <2>3. /\ TodoInv' /\ todo[c] # <<>> /\ todo'[Other(c)] = todo[Other(c)] /\ thrown' = thrown
        /\ Phase(todo[c]) = "runnableNull" /\ Phase(todo'[c]) \in {"testPrevious", "newRunnable", "idle"}
        /\ todo'[c] # <<>> => (Starts(todo'[c]) <=> Starts(todo[c]))
    BY <1>4 DEF Moves
  <2> QED BY <1>1, <2>2, <2>3, Others
<1> QED BY <1>2, <1>3, <1>4

LEMMA PreparesMaking ==
  ASSUME MakingInv, NEW c \in Callers, Prepares(c), UNCHANGED <<category, wanted, raced>>
  PROVE  MakingInv'
<1>1. LoggerTypeOK /\ TodoInv /\ BudgetInv /\ ThreadInv /\ MakesInv /\ ThrownInv
  BY DEF MakingInv
<1>2. /\ TodoInv' /\ todo[c] # <<>> /\ todo'[Other(c)] = todo[Other(c)] /\ thrown' = thrown
      /\ \A d \in Callers : Pends(todo'[d]) <=> Pends(todo[d])
      /\ Phase(todo[c]) \notin {"newRunnable", "newThread", "start"}
      /\ Phase(todo'[c]) \notin {"newThread", "start"}
      /\ UNCHANGED <<target, at, made, making>>
      /\ mThread' \in {mThread, 0} /\ mRunnable' \in {mRunnable, 0}
      /\ mClose' \in {mClose, mClose \cup ({mRunnable} \ {0})}
      /\ interrupted' \in {interrupted, interrupted \cup ({mThread} \ {0})}
  BY <1>1, PreparesMoves
<1>3. /\ MaxRunnables \in Nat /\ made \in Nat /\ made <= MaxRunnables /\ Ids = 1..MaxRunnables
      /\ mThread \in 0..made /\ mRunnable \in 0..made
  BY <1>1, LoggerFacts
<1>4. ~thrown
  BY <1>1, <1>2 DEF ThrownInv
<1>5. mClose' \subseteq 1..made /\ interrupted' \subseteq 1..made
  <2>1. {mThread} \ {0} \subseteq 1..made /\ {mRunnable} \ {0} \subseteq 1..made
    BY <1>3
  <2>2. mClose \subseteq 1..made /\ interrupted \subseteq 1..made
    BY <1>1 DEF ThreadInv
  <2> QED BY <1>2, <2>1, <2>2
<1>6. mClose' \subseteq Ids /\ interrupted' \subseteq Ids
  <2>1. 1..made \subseteq Ids
    BY <1>3
  <2> QED BY <1>5, <2>1
<1>7. mThread' \in 0..made /\ mRunnable' \in 0..made
  BY <1>2, <1>3
<1>8. LoggerTypeOK'
  BY <1>1, <1>2, <1>6, <1>7 DEF LoggerTypeOK
<1>9. BudgetInv'
  BY <1>1, <1>2, BudgetKept
<1>10. ThreadInv'
  BY <1>1, <1>2, <1>5 DEF ThreadInv
<1>11. MakesInv'
  <2>1. \A d \in Callers : Phase(todo'[d]) = "newThread" => Phase(todo[d]) = "newThread"
    BY <1>2, Others
  <2>2. \A t \in interrupted' : t \in interrupted \/ at[t] # "none"
    <3>1. \A t \in interrupted' : t \in interrupted \/ (t = mThread /\ t # 0)
      BY <1>2
    <3> QED BY <1>1, <1>4, <3>1 DEF ThreadInv
  <2> QED BY <1>1, <1>2, <2>1, <2>2, MakesKept
<1>12. ThrownInv'
  BY <1>2, <1>4 DEF ThrownInv
<1> QED BY <1>2, <1>8, <1>9, <1>10, <1>11, <1>12 DEF MakingInv

LEMMA RunnableMaking ==
  ASSUME MakingInv, NEW c \in Callers, MakesRunnable(c), UNCHANGED <<category, wanted, raced>>
  PROVE  MakingInv'
<1>1. LoggerTypeOK /\ TodoInv /\ BudgetInv /\ ThreadInv /\ MakesInv /\ ThrownInv
  BY DEF MakingInv
<1>2. /\ TodoInv' /\ todo[c] # <<>> /\ todo'[Other(c)] = todo[Other(c)] /\ thrown' = thrown
      /\ Phase(todo[c]) = "newRunnable" /\ Phase(todo'[c]) = "newThread"
      /\ made' = made + 1 /\ making' = [making EXCEPT ![c] = made + 1] /\ mRunnable' = made + 1
      /\ UNCHANGED <<mThread, mClose, target, at, interrupted>>
  BY DEF MakesRunnable, Moves
<1>3. /\ MaxRunnables \in Nat /\ made \in Nat /\ Ids = 1..MaxRunnables
      /\ mThread \in 0..made /\ target \in [Ids -> 0..made] /\ making \in [Callers -> 0..made]
  BY <1>1, LoggerFacts
<1>4. ~thrown
  BY <1>1, <1>2 DEF ThrownInv
<1>5. Pends(todo[c]) /\ ~Pends(todo'[c])
  <2>1. Starts(todo[c])
    BY <1>1, <1>2, IdlePhase DEF TodoInv, Stopping
  <2> QED BY <1>2, <2>1 DEF Pends
<1>6. /\ Pend(todo[c]) = 1 /\ Pend(todo'[c]) = 0 /\ Pend(todo[Other(c)]) \in {0, 1}
      /\ Pend(todo'[Other(c)]) = Pend(todo[Other(c)])
  BY <1>2, <1>5, PendBit DEF Pend
<1>7. made' + Pend(todo'[c]) + Pend(todo'[Other(c)]) <= MaxRunnables
  <2>1. made + Pend(todo[c]) + Pend(todo[Other(c)]) <= MaxRunnables
    BY <1>1 DEF BudgetInv
  <2> QED BY <1>2, <1>3, <1>6, <2>1
<1>8. BudgetInv'
  <2>1. made' + Pend(todo'[Other(c)]) + Pend(todo'[c]) <= MaxRunnables
    BY <1>2, <1>3, <1>6, <1>7
  <2> QED BY <1>7, <2>1, Others DEF BudgetInv
<1>9. made + 1 \in 0..MaxRunnables
  BY <1>2, <1>3, <1>6, <1>7
<1>10. 0..made \subseteq 0..made + 1 /\ 1..made \subseteq 1..made + 1
  BY <1>3
<1>11. LoggerTypeOK'
  <2>1. making' \in [Callers -> 0..made + 1] /\ target' \in [Ids -> 0..made + 1]
    BY <1>2, <1>3, <1>10
  <2>2. mThread' \in 0..made + 1 /\ mRunnable' \in 0..made + 1
    BY <1>2, <1>3
  <2> QED BY <1>1, <1>2, <1>9, <2>1, <2>2 DEF LoggerTypeOK
<1>12. ThreadInv'
  <2>1. mClose' \subseteq 1..made' /\ interrupted' \subseteq 1..made'
    BY <1>1, <1>2, <1>10 DEF ThreadInv
  <2>2. \A t \in Ids : t > made' => at'[t] = "none"
    BY <1>1, <1>2, <1>3 DEF ThreadInv
  <2> QED BY <1>1, <1>2, <2>1, <2>2 DEF ThreadInv
<1>13. MakesInv'
  <2>1. making'[c] = made + 1 /\ making'[Other(c)] = making[Other(c)] /\ made + 1 \in 1..made'
    BY <1>2, <1>3, Others
  <2>2. at[made + 1] = "none" /\ made + 1 \notin interrupted
    <3>1. made + 1 \in Ids /\ made + 1 > made /\ made + 1 \notin 1..made
      BY <1>3, <1>9
    <3> QED BY <1>1, <3>1 DEF ThreadInv
  <2>3. Phase(todo[Other(c)]) = "newThread" =>
          /\ making[Other(c)] \in 1..made /\ at[making[Other(c)]] = "none"
          /\ making[Other(c)] \notin interrupted /\ making[Other(c)] # made + 1
    <3>1. Other(c) \in Callers /\ made + 1 \notin 1..made
      BY <1>3, Others
    <3> QED BY <1>1, <3>1 DEF MakesInv
  <2>4. \A d \in Callers : Phase(todo'[d]) = "newThread" =>
          making'[d] \in 1..made' /\ at'[making'[d]] = "none" /\ making'[d] \notin interrupted'
    BY <1>2, <1>10, <2>1, <2>2, <2>3, Others
  <2>5. \A d \in Callers : Phase(todo'[d]) = "newThread" /\ Phase(todo'[Other(d)]) = "newThread" =>
          making'[d] # making'[Other(d)]
    BY <1>2, <2>1, <2>3, Others
  <2> QED BY <2>4, <2>5 DEF MakesInv
<1>14. ThrownInv'
  BY <1>2, <1>4 DEF ThrownInv
<1> QED BY <1>2, <1>8, <1>11, <1>12, <1>13, <1>14 DEF MakingInv

LEMMA ThreadMaking ==
  ASSUME MakingInv, NEW c \in Callers, MakesThread(c), UNCHANGED <<category, wanted, raced>>
  PROVE  MakingInv'
<1>1. LoggerTypeOK /\ TodoInv /\ BudgetInv /\ ThreadInv /\ MakesInv /\ ThrownInv
  BY DEF MakingInv
<1> DEFINE m == making[c]
<1>2. /\ TodoInv' /\ todo[c] # <<>> /\ todo'[Other(c)] = todo[Other(c)] /\ thrown' = thrown
      /\ Phase(todo[c]) = "newThread" /\ Phase(todo'[c]) = "start"
      /\ mThread' = m /\ target' = [target EXCEPT ![m] = mRunnable] /\ at' = [at EXCEPT ![m] = "new"]
      /\ UNCHANGED <<mRunnable, mClose, interrupted, made, making>>
  BY DEF MakesThread, Moves
<1>3. /\ MaxRunnables \in Nat /\ made \in Nat /\ made <= MaxRunnables /\ Ids = 1..MaxRunnables
      /\ mRunnable \in 0..made /\ target \in [Ids -> 0..made]
      /\ at \in [Ids -> {"none", "new", "check", "dump", "sleep", "done"}]
  BY <1>1, LoggerFacts
<1>4. ~thrown /\ m \in 1..made /\ at[m] = "none" /\ m \notin interrupted
  BY <1>1, <1>2 DEF ThrownInv, MakesInv
<1> HIDE DEF m
<1>5. m \in Ids /\ m # 0 /\ m \in 0..made
  BY <1>3, <1>4
<1>6. BudgetInv'
  <2>1. ~Pends(todo'[c]) /\ ~Pends(todo[c])
    BY <1>2 DEF Pends
  <2> QED BY <1>1, <1>2, <2>1, Others, BudgetKept
<1>7. /\ target' \in [Ids -> 0..made]
      /\ at' \in [Ids -> {"none", "new", "check", "dump", "sleep", "done"}]
  BY <1>2, <1>3, <1>5
<1>8. LoggerTypeOK'
  BY <1>1, <1>2, <1>5, <1>7 DEF LoggerTypeOK
<1>9. /\ at'[m] = "new" /\ \A t \in Ids : t # m => at'[t] = at[t] /\ target'[t] = target[t]
  BY <1>2, <1>3, <1>5
<1>10. ThreadInv'
  <2>1. \A t \in Ids : t > made => at'[t] = "none"
    <3>1. \A t \in Ids : t > made => t # m
      BY <1>3, <1>4
    <3> QED BY <1>1, <1>9, <3>1 DEF ThreadInv
  <2>2. \A t \in Ids : at'[t] \in {"dump", "sleep"} => target'[t] # 0
    BY <1>1, <1>9 DEF ThreadInv
  <2>3. at'[mThread'] # "none"
    BY <1>2, <1>9
  <2> QED BY <1>1, <1>2, <2>1, <2>2, <2>3 DEF ThreadInv
<1>11. MakesInv'
  <2>1. Phase(todo[Other(c)]) = "newThread" =>
          /\ making[Other(c)] \in 1..made /\ at[making[Other(c)]] = "none"
          /\ making[Other(c)] \notin interrupted /\ making[Other(c)] # m
    BY <1>1, <1>2, Others DEF MakesInv, m
  <2>2. Phase(todo[Other(c)]) = "newThread" => at'[making[Other(c)]] = "none"
    <3>1. 1..made \subseteq Ids
      BY <1>3
    <3> QED BY <1>9, <2>1, <3>1
  <2>3. \A d \in Callers : Phase(todo'[d]) = "newThread" => d = Other(c)
    BY <1>2, Others
  <2>4. \A d \in Callers : Phase(todo'[d]) = "newThread" =>
          making'[d] \in 1..made' /\ at'[making'[d]] = "none" /\ making'[d] \notin interrupted'
    BY <1>2, <2>1, <2>2, <2>3
  <2>5. \A d \in Callers : ~(Phase(todo'[d]) = "newThread" /\ Phase(todo'[Other(d)]) = "newThread")
    BY <2>3, Others
  <2> QED BY <2>4, <2>5 DEF MakesInv
<1>12. ThrownInv'
  BY <1>2, <1>4 DEF ThrownInv
<1> QED BY <1>2, <1>6, <1>8, <1>10, <1>11, <1>12 DEF MakingInv

LEMMA StartMaking ==
  ASSUME MakingInv, NEW c \in Callers, StartsThread(c), UNCHANGED <<category, wanted, raced>>
  PROVE  MakingInv'
<1>1. LoggerTypeOK /\ TodoInv /\ BudgetInv /\ ThreadInv /\ MakesInv /\ ThrownInv
  BY DEF MakingInv
<1>2. /\ TodoInv' /\ todo[c] # <<>> /\ todo'[Other(c)] = todo[Other(c)] /\ thrown' = thrown
      /\ Phase(todo[c]) = "start" /\ Phase(todo'[c]) = "idle"
      /\ mThread # 0 /\ at[mThread] = "new" /\ at' = [at EXCEPT ![mThread] = "check"]
      /\ UNCHANGED <<mThread, mRunnable, mClose, target, interrupted, made, making>>
  BY DEF StartsThread, Startable, Moves
<1>3. /\ MaxRunnables \in Nat /\ made \in Nat /\ made <= MaxRunnables /\ Ids = 1..MaxRunnables
      /\ mThread \in 0..made
      /\ at \in [Ids -> {"none", "new", "check", "dump", "sleep", "done"}]
  BY <1>1, LoggerFacts
<1>4. mThread \in Ids /\ mThread \in 1..made
  BY <1>2, <1>3
<1>5. at'[mThread] = "check" /\ \A t \in Ids : t # mThread => at'[t] = at[t]
  BY <1>2, <1>3, <1>4
<1>6. at' \in [Ids -> {"none", "new", "check", "dump", "sleep", "done"}]
  BY <1>2, <1>3, <1>4
<1>7. LoggerTypeOK'
  BY <1>1, <1>2, <1>6 DEF LoggerTypeOK
<1>8. BudgetInv'
  <2>1. ~Pends(todo[c])
    BY <1>2 DEF Pends
  <2>2. ~Pends(todo'[c])
    BY <1>2, IdlePhase DEF TodoInv
  <2> QED BY <1>1, <1>2, <2>1, <2>2, Others, BudgetKept
<1>9. ThreadInv'
  <2>1. \A t \in Ids : t > made => at'[t] = "none"
    <3>1. \A t \in Ids : t > made => t # mThread
      BY <1>3, <1>4
    <3> QED BY <1>1, <1>5, <3>1 DEF ThreadInv
  <2>2. \A t \in Ids : at'[t] \in {"dump", "sleep"} => target'[t] # 0
    BY <1>1, <1>2, <1>5 DEF ThreadInv
  <2> QED BY <1>1, <1>2, <1>5, <2>1, <2>2 DEF ThreadInv
<1>10. MakesInv'
  <2>1. \A d \in Callers : Phase(todo'[d]) = "newThread" => Phase(todo[d]) = "newThread"
    BY <1>2, Others
  <2>2. \A t \in 1..made : at[t] = "none" => at'[t] = "none"
    <3>1. 1..made \subseteq Ids
      BY <1>3
    <3> QED BY <1>2, <1>5, <3>1
  <2> QED BY <1>1, <1>2, <2>1, <2>2, MakesKept
<1>11. ThrownInv'
  BY <1>1, <1>2 DEF ThrownInv
<1> QED BY <1>2, <1>7, <1>8, <1>9, <1>10, <1>11 DEF MakingInv

LEMMA ThrowMaking ==
  ASSUME MakingInv, Throw, UNCHANGED <<category, wanted, raced>>
  PROVE  MakingInv' /\ thrown' /\ \A c \in Callers : todo'[c] = <<>>
<1>1. LoggerTypeOK /\ TodoInv /\ BudgetInv /\ ThreadInv /\ MakesInv /\ ThrownInv
  BY DEF MakingInv
<1>2. /\ thrown' = TRUE /\ at' = [t \in Ids |-> "none"] /\ todo' = [d \in Callers |-> <<>>]
      /\ UNCHANGED <<mThread, mRunnable, mClose, target, interrupted, made, making>>
  BY DEF Throw, fields
<1>3. \A d \in Callers : todo'[d] = <<>> /\ Other(d) \in Callers
  BY <1>2, Others
<1>4. Shaped(<<>>) /\ ~Pends(<<>>) /\ Phase(<<>>) = "idle"
  BY DEF Shaped, Chained, Pends, Starts, Phase
<1>5. TodoInv'
  BY <1>2, <1>3, <1>4 DEF TodoInv
<1>6. \A d \in Callers : Pend(todo'[d]) = 0
  BY <1>3, <1>4 DEF Pend
<1>7. MaxRunnables \in Nat /\ made \in Nat /\ made <= MaxRunnables
  BY <1>1, LoggerFacts
<1>8. BudgetInv'
  <2>1. \A d \in Callers : made' + Pend(todo'[d]) + Pend(todo'[Other(d)]) = made
    BY <1>2, <1>3, <1>6, <1>7
  <2> QED BY <1>7, <2>1 DEF BudgetInv
<1>9. LoggerTypeOK'
  BY <1>1, <1>2 DEF LoggerTypeOK
<1>10. ThreadInv'
  BY <1>1, <1>2 DEF ThreadInv
<1>11. MakesInv'
  BY <1>3, <1>4 DEF MakesInv
<1>12. ThrownInv'
  BY <1>3 DEF ThrownInv
<1> QED BY <1>2, <1>3, <1>5, <1>8, <1>9, <1>10, <1>11, <1>12 DEF MakingInv

\* A call: c was idle, and its statements are a stop, a start or both.
LEMMA CallMaking ==
  ASSUME MakingInv, NEW c \in Callers, NEW q, Call(c, q), Shaped(q), q # <<>>, wanted' \in BOOLEAN,
         Phase(q) # "newThread"
  PROVE  /\ MakingInv' /\ todo[c] = <<>> /\ todo'[c] = q /\ todo'[Other(c)] = todo[Other(c)]
         /\ ~thrown /\ UNCHANGED <<thrown, mThread, mRunnable, mClose, target, at, interrupted, made, making>>
<1>1. LoggerTypeOK /\ TodoInv /\ BudgetInv /\ ThreadInv /\ MakesInv /\ ThrownInv
  BY DEF MakingInv
<1>2. /\ ~thrown /\ todo[c] = <<>> /\ made + (IF Quiet THEN 0 ELSE 1) < MaxRunnables
      /\ todo' = [todo EXCEPT ![c] = q]
      /\ raced' = (raced \/ ~Quiet \/ (Head(q) = "newRunnable" /\ mRunnable # 0))
      /\ UNCHANGED <<category, thrown, mThread, mRunnable, mClose, target, at, interrupted, made, making>>
  BY DEF Call, fields, runs
<1>3. TodoInv' /\ todo'[c] = q /\ todo'[Other(c)] = todo[Other(c)]
  BY <1>1, <1>2, TodoSet
<1>4. MaxRunnables \in Nat /\ made \in Nat
  BY <1>1, LoggerFacts
<1>5. BudgetInv'
  <2>1. /\ Pend(todo'[c]) \in {0, 1} /\ Pend(todo'[Other(c)]) = Pend(todo[Other(c)])
        /\ Pend(todo[Other(c)]) \in {0, 1}
    BY <1>3, PendBit
  <2>2. Quiet => Pend(todo[Other(c)]) = 0
    BY <1>1, Others, IdlePhase DEF Quiet, Pend, TodoInv
  <2>3. made + 1 + Pend(todo[Other(c)]) <= MaxRunnables
    BY <1>2, <1>4, <2>1, <2>2
  <2>4. /\ made' + Pend(todo'[c]) + Pend(todo'[Other(c)]) <= MaxRunnables
        /\ made' + Pend(todo'[Other(c)]) + Pend(todo'[c]) <= MaxRunnables
    BY <1>2, <1>4, <2>1, <2>3
  <2> QED BY <2>4, Others DEF BudgetInv
<1>6. raced' \in BOOLEAN
  BY <1>2, Zenon
<1>7. LoggerTypeOK'
  BY <1>1, <1>2, <1>6 DEF LoggerTypeOK
<1>8. ThreadInv'
  BY <1>1, <1>2 DEF ThreadInv
<1>9. MakesInv'
  <2>1. \A d \in Callers : Phase(todo'[d]) = "newThread" => Phase(todo[d]) = "newThread"
    BY <1>3, Others
  <2> QED BY <1>1, <1>2, <2>1, MakesKept
<1>10. ThrownInv'
  BY <1>2 DEF ThrownInv
<1> QED BY <1>2, <1>3, <1>5, <1>7, <1>8, <1>9, <1>10 DEF MakingInv

\* A step of a logger ends it only when it has no runnable, was interrupted or its
\* runnable was closed, and closes only the runnable of an interrupted thread.
LEMMA RunFacts ==
  ASSUME MakingInv, NEW t \in Ids, Run(t)
  PROVE  /\ at[t] \in {"check", "dump", "sleep"} /\ t \in 1..made
         /\ \E s \in {"check", "dump", "sleep", "done"} :
              /\ at' = [at EXCEPT ![t] = s]
              /\ s = "done" => target[t] = 0 \/ t \in interrupted \/ target[t] \in mClose
              /\ s \in {"dump", "sleep"} => target[t] # 0
         /\ interrupted' \subseteq interrupted
         /\ \/ mClose' = mClose
            \/ mClose' = mClose \cup {target[t]} /\ t \in interrupted /\ target[t] \in 1..made
         /\ UNCHANGED <<category, mThread, mRunnable, target, todo, made, making, thrown, wanted, raced>>
<1>1. LoggerTypeOK /\ ThreadInv
  BY DEF MakingInv
<1>2. UNCHANGED <<category, mThread, mRunnable, target, todo, made, making, thrown, wanted, raced>>
  BY DEF Run, fields
<1>3. at[t] \in {"check", "dump", "sleep"}
  BY DEF Run, RunCheck, RunDump, RunSleep
<1>4. made \in Nat /\ t \in Nat \ {0} /\ target[t] \in 0..made
  BY <1>1, LoggerFacts
<1>5. t \in 1..made
  <2>1. ~(t > made)
    BY <1>1, <1>3 DEF ThreadInv
  <2> QED BY <1>4, <2>1
<1>6. CASE RunCheck(t)
  <2>1. /\ at' = [at EXCEPT ![t] = IF target[t] = 0 \/ t \in interrupted \/ target[t] \in mClose
                                   THEN "done" ELSE "dump"]
        /\ mClose' = mClose /\ interrupted' = interrupted
    BY <1>6 DEF RunCheck, RunGoto
  <2> QED BY <1>2, <1>3, <1>5, <2>1
<1>7. CASE RunDump(t)
  <2>1. /\ at' = [at EXCEPT ![t] = IF target[t] \in mClose THEN "check" ELSE "sleep"]
        /\ mClose' = mClose
    BY <1>7 DEF RunDump, RunGoto
  <2>2. target[t] # 0
    BY <1>1, <1>7 DEF RunDump, ThreadInv
  <2>3. interrupted' \subseteq interrupted
    BY <1>7 DEF RunDump
  <2> QED BY <1>2, <1>3, <1>5, <2>1, <2>2, <2>3
<1>8. CASE RunSleep(t)
  <2>1. target[t] # 0
    BY <1>1, <1>8 DEF RunSleep, ThreadInv
  <2>2. target[t] \in 1..made
    BY <1>4, <2>1
  <2>3. CASE /\ t \in interrupted /\ interrupted' = interrupted \ {t}
             /\ mClose' = mClose \cup {target[t]} /\ at' = [at EXCEPT ![t] = "done"]
    BY <1>2, <1>3, <1>5, <2>2, <2>3
  <2>4. CASE at' = [at EXCEPT ![t] = "check"] /\ mClose' = mClose /\ interrupted' = interrupted
    BY <1>2, <1>3, <1>5, <2>4
  <2> QED BY <1>8, <2>3, <2>4 DEF RunSleep, RunGoto
<1> QED BY <1>6, <1>7, <1>8 DEF Run

LEMMA RunMaking ==
  ASSUME MakingInv, NEW t \in Ids, Run(t)
  PROVE  MakingInv'
<1>1. LoggerTypeOK /\ TodoInv /\ BudgetInv /\ ThreadInv /\ MakesInv /\ ThrownInv
  BY DEF MakingInv
<1>2. /\ at[t] \in {"check", "dump", "sleep"} /\ t \in 1..made
      /\ interrupted' \subseteq interrupted
      /\ \/ mClose' = mClose
         \/ mClose' = mClose \cup {target[t]} /\ target[t] \in 1..made
      /\ UNCHANGED <<category, mThread, mRunnable, target, todo, made, making, thrown, wanted, raced>>
  BY RunFacts
<1>3. PICK s \in {"check", "dump", "sleep", "done"} :
        /\ at' = [at EXCEPT ![t] = s]
        /\ s \in {"dump", "sleep"} => target[t] # 0
  BY RunFacts
<1>4. /\ MaxRunnables \in Nat /\ made \in Nat /\ made <= MaxRunnables /\ Ids = 1..MaxRunnables
      /\ at \in [Ids -> {"none", "new", "check", "dump", "sleep", "done"}]
  BY <1>1, LoggerFacts
<1>5. at'[t] = s /\ \A u \in Ids : u # t => at'[u] = at[u]
  BY <1>3, <1>4
<1>6. mClose' \subseteq 1..made /\ interrupted' \subseteq 1..made /\ 1..made \subseteq Ids
  <2>1. mClose \subseteq 1..made /\ interrupted \subseteq 1..made
    BY <1>1 DEF ThreadInv
  <2>2. 1..made \subseteq Ids
    BY <1>4
  <2> QED BY <1>2, <2>1, <2>2
<1>7. at' \in [Ids -> {"none", "new", "check", "dump", "sleep", "done"}]
  BY <1>3, <1>4
<1>8. mClose' \subseteq Ids /\ interrupted' \subseteq Ids
  BY <1>6
<1>9. LoggerTypeOK'
  BY <1>1, <1>2, <1>7, <1>8 DEF LoggerTypeOK
<1>10. TodoInv' /\ BudgetInv' /\ ThrownInv'
  BY <1>1, <1>2 DEF TodoInv, BudgetInv, ThrownInv, Other, Callers
<1>11. ThreadInv'
  <2>1. \A u \in Ids : u > made => at'[u] = "none"
    <3>1. \A u \in Ids : u > made => u # t
      BY <1>2, <1>4
    <3> QED BY <1>1, <1>5, <3>1 DEF ThreadInv
  <2>2. \A u \in Ids : at'[u] \in {"dump", "sleep"} => target'[u] # 0
    BY <1>1, <1>2, <1>3, <1>5 DEF ThreadInv
  <2>3. mThread' # 0 /\ ~thrown' => at'[mThread'] # "none"
    <3> SUFFICES ASSUME mThread # 0, ~thrown PROVE at'[mThread] # "none"
      BY <1>2
    <3>1. mThread \in Ids /\ at[mThread] # "none"
      BY <1>1, <1>4 DEF LoggerTypeOK, ThreadInv
    <3> QED BY <1>5, <3>1
  <2> QED BY <1>2, <1>6, <2>1, <2>2, <2>3 DEF ThreadInv
<1>12. MakesInv'
  <2>1. \A u \in 1..made : at[u] = "none" => at'[u] = "none"
    BY <1>2, <1>5, <1>6
  <2>2. \A u \in interrupted' : u \in interrupted
    BY <1>2
  <2> QED BY <1>1, <1>2, <2>1, <2>2, MakesKept
<1> QED BY <1>9, <1>10, <1>11, <1>12 DEF MakingInv

(***************************************************************************)
(* WantedInv.                                                              *)
(***************************************************************************)
LEMMA PreparesWanted ==
  ASSUME MakingInv, WantedInv, NEW c \in Callers, Prepares(c), UNCHANGED <<category, wanted, raced>>
  PROVE  WantedInv'
<1>1. TodoInv /\ EndsInv
  BY DEF MakingInv, WantedInv
<1>2. /\ TodoInv' /\ todo[c] # <<>> /\ todo'[Other(c)] = todo[Other(c)] /\ thrown' = thrown
      /\ \A d \in Callers : Pends(todo'[d]) <=> Pends(todo[d])
      /\ Phase(todo[c]) \notin {"newRunnable", "newThread", "start"}
      /\ todo'[c] # <<>> => (Starts(todo'[c]) <=> Starts(todo[c]))
      /\ wanted' = wanted
  BY <1>1, PreparesMoves
<1>3. EndsInv'
  <2>1. todo'["task"] # <<>> => Starts(todo'["task"])
    BY <1>1, <1>2, Others DEF EndsInv
  <2>2. wanted' /\ todo'["main"] # <<>> => Starts(todo'["main"])
    BY <1>1, <1>2, Others DEF EndsInv
  <2> QED BY <2>1, <2>2 DEF EndsInv
<1>4. ~Settled'
  <2> SUFFICES ASSUME wanted PROVE Pends(todo'[c])
    BY <1>2 DEF Settled
  <2>1. Starts(todo[c])
    BY <1>1, <1>2 DEF EndsInv, Callers
  <2>2. Pends(todo[c])
    BY <1>2, <2>1 DEF Pends
  <2> QED BY <1>2, <2>2
<1> QED BY <1>3, <1>4 DEF WantedInv, RunnableInv, RunsInv

LEMMA RunnableWanted ==
  ASSUME MakingInv, WantedInv, NEW c \in Callers, MakesRunnable(c), UNCHANGED <<category, wanted, raced>>
  PROVE  WantedInv'
<1>1. LoggerTypeOK /\ TodoInv /\ ThreadInv /\ EndsInv
  BY DEF MakingInv, WantedInv
<1>2. /\ TodoInv' /\ todo[c] # <<>> /\ todo'[Other(c)] = todo[Other(c)] /\ thrown' = thrown
      /\ Phase(todo'[c]) = "newThread" /\ wanted' = wanted
      /\ todo'[c] # <<>> => (Starts(todo'[c]) <=> Starts(todo[c]))
      /\ mRunnable' = made + 1
      /\ UNCHANGED <<mThread, mClose, target, at, interrupted>>
  BY DEF MakesRunnable, Moves
<1>3. made \in Nat /\ \A t \in 1..made : target[t] \in 0..made
  BY <1>1, LoggerFacts
<1>4. EndsInv'
  <2>1. todo'["task"] # <<>> => Starts(todo'["task"])
    BY <1>1, <1>2, Others DEF EndsInv
  <2>2. wanted' /\ todo'["main"] # <<>> => Starts(todo'["main"])
    BY <1>1, <1>2, Others DEF EndsInv
  <2> QED BY <2>1, <2>2 DEF EndsInv
<1>5. RunnableInv'
  <2>1. mRunnable' # 0 /\ mRunnable' \notin 1..made /\ mRunnable' \notin 0..made
    BY <1>2, <1>3
  <2>2. mClose \subseteq 1..made /\ interrupted \subseteq 1..made
    BY <1>1 DEF ThreadInv
  <2>3. \A t \in interrupted' : target'[t] # mRunnable'
    BY <1>2, <1>3, <2>1, <2>2
  <2> QED BY <1>2, <2>1, <2>2, <2>3 DEF RunnableInv
<1>6. RunsInv'
  BY <1>2 DEF RunsInv
<1> QED BY <1>4, <1>5, <1>6 DEF WantedInv

LEMMA ThreadWanted ==
  ASSUME MakingInv, WantedInv, NEW c \in Callers, MakesThread(c), UNCHANGED <<category, wanted, raced>>
  PROVE  WantedInv'
<1>1. LoggerTypeOK /\ TodoInv /\ ThreadInv /\ MakesInv /\ EndsInv /\ RunnableInv
  BY DEF MakingInv, WantedInv
<1> DEFINE m == making[c]
<1>2. /\ TodoInv' /\ todo[c] # <<>> /\ todo'[Other(c)] = todo[Other(c)] /\ thrown' = thrown
      /\ Phase(todo[c]) = "newThread" /\ Phase(todo'[c]) = "start" /\ wanted' = wanted
      /\ todo'[c] # <<>> => (Starts(todo'[c]) <=> Starts(todo[c]))
      /\ mThread' = m /\ target' = [target EXCEPT ![m] = mRunnable] /\ at' = [at EXCEPT ![m] = "new"]
      /\ UNCHANGED <<mRunnable, mClose, interrupted>>
  BY DEF MakesThread, Moves
<1>3. /\ made \in Nat /\ \A t \in 1..made : t \in Ids
      /\ target \in [Ids -> 0..made] /\ at \in [Ids -> {"none", "new", "check", "dump", "sleep", "done"}]
  BY <1>1, LoggerFacts
<1>4. m \in 1..made /\ m \notin interrupted /\ m \in Ids /\ m # 0
  BY <1>1, <1>2, <1>3 DEF MakesInv
<1> HIDE DEF m
<1>5. target'[m] = mRunnable /\ at'[m] = "new" /\ \A t \in Ids : t # m => target'[t] = target[t]
  BY <1>2, <1>3, <1>4
<1>6. EndsInv'
  <2>1. todo'["task"] # <<>> => Starts(todo'["task"])
    BY <1>1, <1>2, Others DEF EndsInv
  <2>2. wanted' /\ todo'["main"] # <<>> => Starts(todo'["main"])
    BY <1>1, <1>2, Others DEF EndsInv
  <2> QED BY <2>1, <2>2 DEF EndsInv
<1>7. Settled' => Settled
  <2>1. ~Pends(todo[c])
    BY <1>2 DEF Pends
  <2> QED BY <1>2, <2>1, Others DEF Settled
<1>8. RunnableInv'
  <2> SUFFICES ASSUME Settled'
               PROVE  mRunnable # 0 /\ mRunnable \notin mClose /\ \A t \in interrupted : target'[t] # mRunnable
    BY <1>2 DEF RunnableInv
  <2>1. mRunnable # 0 /\ mRunnable \notin mClose /\ \A t \in interrupted : target[t] # mRunnable
    BY <1>1, <1>7 DEF RunnableInv
  <2>2. interrupted \subseteq Ids
    BY <1>1 DEF LoggerTypeOK
  <2> QED BY <1>4, <1>5, <2>1, <2>2
<1>9. ~Quiet'
  <2>1. todo'[c] # <<>>
    BY <1>2, IdlePhase DEF TodoInv
  <2> QED BY <2>1 DEF Quiet
<1>10. RunsInv'
  BY <1>2, <1>4, <1>5, <1>9 DEF RunsInv
<1> QED BY <1>6, <1>8, <1>10 DEF WantedInv

LEMMA StartWanted ==
  ASSUME MakingInv, WantedInv, NEW c \in Callers, StartsThread(c), UNCHANGED <<category, wanted, raced>>
  PROVE  WantedInv'
<1>1. LoggerTypeOK /\ TodoInv /\ EndsInv /\ RunnableInv /\ RunsInv
  BY DEF MakingInv, WantedInv
<1>2. /\ TodoInv' /\ todo'[Other(c)] = todo[Other(c)] /\ thrown' = thrown
      /\ Phase(todo[c]) = "start" /\ Phase(todo'[c]) = "idle" /\ wanted' = wanted
      /\ mThread # 0 /\ at' = [at EXCEPT ![mThread] = "check"]
      /\ UNCHANGED <<mThread, mRunnable, mClose, target, interrupted>>
  BY DEF StartsThread, Startable, Moves
<1>3. todo'[c] = <<>>
  BY <1>2, IdlePhase DEF TodoInv
<1>4. EndsInv'
  <2>1. todo'["task"] # <<>> => Starts(todo'["task"])
    BY <1>1, <1>2, <1>3, Others DEF EndsInv
  <2>2. wanted' /\ todo'["main"] # <<>> => Starts(todo'["main"])
    BY <1>1, <1>2, <1>3, Others DEF EndsInv
  <2> QED BY <2>1, <2>2 DEF EndsInv
<1>5. Settled' => Settled
  <2>1. ~Pends(todo[c])
    BY <1>2 DEF Pends
  <2> QED BY <1>2, <2>1, Others DEF Settled
<1>6. RunnableInv'
  BY <1>1, <1>2, <1>5 DEF RunnableInv
<1>7. mThread \in Ids /\ at'[mThread] = "check"
  <2>1. /\ made \in Nat /\ mThread \in 0..made /\ \A t \in 1..made : t \in Ids
        /\ at \in [Ids -> {"none", "new", "check", "dump", "sleep", "done"}]
    BY <1>1, LoggerFacts
  <2>2. mThread \in Ids
    BY <1>2, <2>1
  <2> QED BY <1>2, <2>1, <2>2
<1>8. RunsInv'
  <2>1. (\A d \in Callers : Phase(todo'[d]) # "newThread") => \A d \in Callers : Phase(todo[d]) # "newThread"
    BY <1>2, Others
  <2> QED BY <1>1, <1>2, <1>5, <1>7, <2>1 DEF RunsInv
<1> QED BY <1>4, <1>6, <1>8 DEF WantedInv

LEMMA ThrowWanted ==
  ASSUME thrown', \A c \in Callers : todo'[c] = <<>>
  PROVE  WantedInv'
<1>1. EndsInv'
  BY DEF EndsInv, Callers
<1>2. ~Settled'
  BY DEF Settled
<1> QED BY <1>1, <1>2 DEF WantedInv, RunnableInv, RunsInv

\* The calls.
LEMMA CallCases ==
  ASSUME NEW c \in Callers, (c = "main" /\ (Enable \/ Disable)) \/ RestartLog(c)
  PROVE  \E q : /\ Call(c, q) /\ Shaped(q) /\ q # <<>> /\ Phase(q) = Head(q)
                /\ Phase(q) \in {"interrupt", "testPrevious", "newRunnable"}
                /\ \/ Starts(q) /\ wanted' = TRUE /\ c = "main"
                   \/ ~Starts(q) /\ wanted' = FALSE /\ c = "main" /\ Phase(q) = "interrupt"
                   \/ Starts(q) /\ wanted' = wanted /\ mThread # 0 /\ Phase(q) = "interrupt"
<1>1. CASE c = "main" /\ Enable
  <2>1. Call(c, StartStatements) /\ wanted' = TRUE
    BY <1>1 DEF Enable
  <2> QED BY <1>1, <2>1, StartShaped DEF Phase
<1>2. CASE c = "main" /\ Disable
  <2>1. Call(c, StopStatements) /\ wanted' = FALSE
    BY <1>2 DEF Disable
  <2> QED BY <1>2, <2>1, StopShaped DEF Phase
<1>3. CASE RestartLog(c)
  <2> DEFINE q == StopStatements \o StartStatements
  <2>1. Call(c, q) /\ wanted' = wanted /\ mThread # 0
    BY <1>3 DEF RestartLog
  <2>2. Shaped(q) /\ q # <<>> /\ Starts(q) /\ Head(q) = "interrupt"
    BY RestartShaped
  <2> HIDE DEF q
  <2>3. Phase(q) = Head(q)
    BY <2>2 DEF Phase
  <2> QED BY <2>1, <2>2, <2>3
<1> QED BY <1>1, <1>2, <1>3

LEMMA CallWanted ==
  ASSUME MakingInv, WantedInv, NEW c \in Callers, NEW q, Call(c, q), Shaped(q), q # <<>>,
         Phase(q) \in {"interrupt", "testPrevious", "newRunnable"},
         todo'[c] = q, todo'[Other(c)] = todo[Other(c)], thrown' = thrown,
         \/ Starts(q) /\ wanted' = TRUE /\ c = "main"
         \/ ~Starts(q) /\ wanted' = FALSE /\ c = "main"
         \/ Starts(q) /\ wanted' = wanted
  PROVE  WantedInv'
<1>1. EndsInv
  BY DEF WantedInv
<1>2. EndsInv'
  <2>1. todo'["task"] # <<>> => Starts(todo'["task"])
    BY <1>1, Others DEF EndsInv, Other
  <2>2. wanted' /\ todo'["main"] # <<>> => Starts(todo'["main"])
    BY <1>1, Others DEF EndsInv, Other
  <2> QED BY <2>1, <2>2 DEF EndsInv
<1>3. ~Settled'
  <2>1. Starts(q) => Pends(todo'[c])
    BY DEF Pends
  <2> QED BY <2>1 DEF Settled
<1> QED BY <1>2, <1>3 DEF WantedInv, RunnableInv, RunsInv

LEMMA RunWanted ==
  ASSUME MakingInv, WantedInv, NEW t \in Ids, Run(t)
  PROVE  WantedInv'
<1>1. LoggerTypeOK /\ EndsInv /\ RunnableInv /\ RunsInv
  BY DEF MakingInv, WantedInv
<1>2. /\ at[t] \in {"check", "dump", "sleep"} /\ interrupted' \subseteq interrupted
      /\ mClose' = mClose \/ (mClose' = mClose \cup {target[t]} /\ t \in interrupted)
      /\ UNCHANGED <<mThread, mRunnable, target, todo, thrown, wanted>>
  BY RunFacts
<1>3. PICK s \in {"check", "dump", "sleep", "done"} :
        /\ at' = [at EXCEPT ![t] = s]
        /\ s = "done" => target[t] = 0 \/ t \in interrupted \/ target[t] \in mClose
  BY RunFacts
<1>4. at'[t] = s /\ \A u \in Ids : u # t => at'[u] = at[u]
  BY <1>1, <1>3, LoggerFacts
<1>5. EndsInv' /\ (Settled' <=> Settled) /\ (Quiet' <=> Quiet)
  BY <1>1, <1>2 DEF EndsInv, Settled, Quiet
<1>6. RunnableInv'
  BY <1>1, <1>2, <1>5 DEF RunnableInv
<1>7. RunsInv'
  <2> SUFFICES ASSUME Settled, \A c \in Callers : Phase(todo[c]) # "newThread"
               PROVE  /\ mThread # 0 /\ target[mThread] = mRunnable
                      /\ at'[mThread] \in {"new", "check", "dump", "sleep"}
                      /\ Quiet => at'[mThread] # "new"
    BY <1>2, <1>5 DEF RunsInv
  <2>1. mRunnable # 0 /\ mRunnable \notin mClose /\ \A u \in interrupted : target[u] # mRunnable
    BY <1>1 DEF RunnableInv
  <2>2. /\ mThread # 0 /\ target[mThread] = mRunnable
        /\ at[mThread] \in {"new", "check", "dump", "sleep"}
        /\ Quiet => at[mThread] # "new"
    BY <1>1 DEF RunsInv
  <2>3. mThread \in Ids
    <3>1. made \in Nat /\ mThread \in 0..made /\ \A u \in 1..made : u \in Ids
      BY <1>1, LoggerFacts
    <3> QED BY <2>2, <3>1
  <2>4. CASE t = mThread
    BY <1>3, <1>4, <2>1, <2>2, <2>4
  <2>5. CASE t # mThread
    BY <1>4, <2>2, <2>3, <2>5
  <2> QED BY <2>4, <2>5
<1> QED BY <1>5, <1>6, <1>7 DEF WantedInv

(***************************************************************************)
(* AloneInv.                                                               *)
(***************************************************************************)
\* What AloneInv says when nothing raced, of a caller that has a statement to execute.
LEMMA AloneFacts ==
  ASSUME MakingInv, AloneInv, ~raced, NEW c \in Callers, todo[c] # <<>>
  PROVE  /\ ~thrown /\ todo[Other(c)] = <<>> /\ Phase(todo[Other(c)]) = "idle"
         /\ \A t \in Ids : target[t] \in {0, t}
         /\ \A r \in 1..made : r \in mClose \/ r = mRunnable
         /\ PhaseInv(Phase(todo[c]), making[c])
         /\ ~wanted => c = "main" /\ ~Starts(todo[c])
<1>1. todo[Other(c)] = <<>>
  BY DEF AloneInv
<1>2. ~wanted => c = "main" /\ ~Starts(todo[c])
  BY DEF AloneInv, Callers
<1> QED BY <1>1, <1>2 DEF AloneInv, Phase

\* AloneInv of the next state, when the other caller is idle.
LEMMA AloneNext ==
  ASSUME NEW c \in Callers, ~thrown', todo'[Other(c)] = <<>>,
         \A t \in Ids : target'[t] \in {0, t},
         \A r \in 1..made' : r \in mClose' \/ r = mRunnable',
         PhaseInv(Phase(todo[c]), making[c])',
         ~wanted' => /\ c = "main" /\ ~Starts(todo'[c])
                     /\ todo'[c] = <<>> => mThread' = 0 /\ mRunnable' = 0
  PROVE  AloneInv'
<1>1. \A d \in Callers : todo'[d] = <<>> \/ todo'[Other(d)] = <<>>
  BY Others
<1>2. \A d \in Callers : PhaseInv(Phase(todo[d]), making[d])'
  <2>1. Phase(todo'[Other(c)]) = "idle"
    BY DEF Phase
  <2>2. PhaseInv(Phase(todo[Other(c)]), making[Other(c)])'
    BY <2>1 DEF PhaseInv
  <2> QED BY <2>2, Others
<1>3. ~wanted' => /\ todo'["task"] = <<>> /\ ~Starts(todo'["main"])
                  /\ todo'["main"] = <<>> => mThread' = 0 /\ mRunnable' = 0
  BY DEF Other
<1> QED BY <1>1, <1>2, <1>3 DEF AloneInv

LEMMA PreparesAlone ==
  ASSUME MakingInv, AloneInv, NEW c \in Callers, Prepares(c), UNCHANGED <<category, wanted, raced>>
  PROVE  AloneInv'
<1> SUFFICES ASSUME ~raced PROVE AloneInv'
  BY DEF AloneInv
<1>1. /\ TodoInv' /\ todo[c] # <<>> /\ todo'[Other(c)] = todo[Other(c)] /\ thrown' = thrown
      /\ todo'[c] # <<>> => (Starts(todo'[c]) <=> Starts(todo[c]))
      /\ UNCHANGED <<target, at, made, making>> /\ wanted' = wanted
  BY PreparesMoves DEF MakingInv
<1>2. /\ ~thrown /\ todo[Other(c)] = <<>>
      /\ \A t \in Ids : target[t] \in {0, t}
      /\ \A r \in 1..made : r \in mClose \/ r = mRunnable
      /\ PhaseInv(Phase(todo[c]), making[c])
      /\ ~wanted => c = "main" /\ ~Starts(todo[c])
  BY <1>1, AloneFacts
<1>3. (Phase(todo'[c]) = "idle" <=> todo'[c] = <<>>) /\ (todo'[c] = <<>> => ~Starts(todo'[c]))
  BY <1>1, IdlePhase DEF TodoInv
<1>4. /\ \A r \in 1..made : r \in mClose' \/ r = mRunnable'
      /\ PhaseInv(Phase(todo[c]), making[c])'
      /\ Phase(todo'[c]) = "idle" => mThread' = 0 /\ mRunnable' = 0
  <2>1. CASE /\ Moves(c, "interrupt", {"threadNull"})
             /\ UNCHANGED <<mThread, mRunnable, mClose>>
    <3>1. Phase(todo'[c]) = "threadNull"
      BY <2>1 DEF Moves
    <3> QED BY <1>2, <2>1, <3>1 DEF PhaseInv
  <2>2. CASE Moves(c, "threadNull", {"close"}) /\ mThread' = 0 /\ UNCHANGED <<mRunnable, mClose>>
    <3>1. Phase(todo'[c]) = "close"
      BY <2>2 DEF Moves
    <3> QED BY <1>2, <2>2, <3>1 DEF PhaseInv
  <2>3. CASE /\ Moves(c, "close", {"runnableNull"})
             /\ mClose' = mClose \cup ({mRunnable} \ {0})
             /\ UNCHANGED <<mThread, mRunnable>>
    <3>1. Phase(todo'[c]) = "runnableNull" /\ Phase(todo[c]) = "close"
      BY <2>3 DEF Moves
    <3>2. mThread = 0
      BY <1>2, <3>1 DEF PhaseInv
    <3> QED BY <1>2, <2>3, <3>1, <3>2 DEF PhaseInv
  <2>4. CASE /\ Moves(c, "runnableNull", {"testPrevious", "newRunnable", "idle"})
             /\ mRunnable' = 0 /\ UNCHANGED <<mThread, mClose>>
    <3>1. Phase(todo'[c]) \in {"testPrevious", "newRunnable", "idle"} /\ Phase(todo[c]) = "runnableNull"
      BY <2>4 DEF Moves
    <3>2. mThread = 0 /\ (mRunnable = 0 \/ mRunnable \in mClose)
      BY <1>2, <3>1 DEF PhaseInv
    <3>3. \A r \in 1..made : r \in mClose
      <4>1. 0 \notin 1..made
        OBVIOUS
      <4> QED BY <1>2, <3>2, <4>1
    <3> QED BY <2>4, <3>1, <3>2, <3>3 DEF PhaseInv
  <2>5. CASE /\ Moves(c, "testPrevious", {"closePrevious"}) /\ mRunnable # 0
             /\ UNCHANGED <<mThread, mRunnable, mClose>>
    <3>1. Phase(todo'[c]) = "closePrevious"
      BY <2>5 DEF Moves
    <3> QED BY <1>2, <2>5, <3>1 DEF PhaseInv
  <2>6. CASE /\ Moves(c, "testPrevious", {"newRunnable"}) /\ mRunnable = 0
             /\ UNCHANGED <<mThread, mRunnable, mClose>>
    <3>1. Phase(todo'[c]) = "newRunnable"
      BY <2>6 DEF Moves
    <3> QED BY <1>2, <2>6, <3>1 DEF PhaseInv
  <2>7. CASE /\ Moves(c, "closePrevious", {"newRunnable"})
             /\ mClose' = mClose \cup {mRunnable}
             /\ UNCHANGED <<mThread, mRunnable>>
    <3>1. Phase(todo'[c]) = "newRunnable"
      BY <2>7 DEF Moves
    <3> QED BY <1>2, <2>7, <3>1 DEF PhaseInv
  <2> QED BY <2>1, <2>2, <2>3, <2>4, <2>5, <2>6, <2>7 DEF Prepares
<1> QED BY <1>1, <1>2, <1>3, <1>4, AloneNext

LEMMA RunnableAlone ==
  ASSUME MakingInv, AloneInv, NEW c \in Callers, MakesRunnable(c), UNCHANGED <<category, wanted, raced>>
  PROVE  AloneInv'
<1> SUFFICES ASSUME ~raced PROVE AloneInv'
  BY DEF AloneInv
<1>1. /\ todo[c] # <<>> /\ todo'[Other(c)] = todo[Other(c)] /\ thrown' = thrown
      /\ Phase(todo[c]) = "newRunnable" /\ Phase(todo'[c]) = "newThread" /\ wanted' = wanted
      /\ made' = made + 1 /\ making' = [making EXCEPT ![c] = made + 1] /\ mRunnable' = made + 1
      /\ UNCHANGED <<mThread, mClose, target, at>>
  BY DEF MakesRunnable, Moves
<1>2. /\ ~thrown /\ todo[Other(c)] = <<>>
      /\ \A t \in Ids : target[t] \in {0, t}
      /\ \A r \in 1..made : r \in mClose \/ r = mRunnable
      /\ PhaseInv(Phase(todo[c]), making[c])
      /\ ~wanted => ~Starts(todo[c])
  BY <1>1, AloneFacts
<1>3. wanted
  BY <1>1, <1>2, IdlePhase DEF MakingInv, TodoInv, Stopping
<1>4. made \in Nat /\ making \in [Callers -> 0..made]
  BY LoggerFacts DEF MakingInv
<1>5. \A r \in 1..made' : r \in mClose' \/ r = mRunnable'
  <2>1. mRunnable = 0 \/ mRunnable \in mClose
    BY <1>1, <1>2 DEF PhaseInv
  <2>2. \A r \in 1..made' : r \in 1..made \/ r = made + 1
    BY <1>1, <1>4
  <2>3. \A r \in 1..made : r \in mClose
    <3>1. 0 \notin 1..made
      OBVIOUS
    <3> QED BY <1>2, <2>1, <3>1
  <2> QED BY <1>1, <2>2, <2>3
<1>6. PhaseInv(Phase(todo[c]), making[c])'
  <2>1. making'[c] = mRunnable'
    BY <1>1, <1>4
  <2> QED BY <1>1, <2>1 DEF PhaseInv
<1> QED BY <1>1, <1>2, <1>3, <1>5, <1>6, AloneNext

LEMMA ThreadAlone ==
  ASSUME MakingInv, AloneInv, NEW c \in Callers, MakesThread(c), UNCHANGED <<category, wanted, raced>>
  PROVE  AloneInv'
<1> SUFFICES ASSUME ~raced PROVE AloneInv'
  BY DEF AloneInv
<1> DEFINE m == making[c]
<1>1. /\ todo[c] # <<>> /\ todo'[Other(c)] = todo[Other(c)] /\ thrown' = thrown
      /\ Phase(todo[c]) = "newThread" /\ Phase(todo'[c]) = "start" /\ wanted' = wanted
      /\ mThread' = m /\ target' = [target EXCEPT ![m] = mRunnable] /\ at' = [at EXCEPT ![m] = "new"]
      /\ UNCHANGED <<mRunnable, mClose, made, making>>
  BY DEF MakesThread, Moves
<1>2. /\ ~thrown /\ todo[Other(c)] = <<>>
      /\ \A t \in Ids : target[t] \in {0, t}
      /\ \A r \in 1..made : r \in mClose \/ r = mRunnable
      /\ m = mRunnable
      /\ ~wanted => ~Starts(todo[c])
  BY <1>1, AloneFacts DEF PhaseInv
<1>3. wanted
  BY <1>1, <1>2, IdlePhase DEF MakingInv, TodoInv, Stopping
<1>4. m \in Ids /\ m # 0
  <2>1. m \in 1..made
    BY <1>1 DEF MakingInv, MakesInv
  <2> QED BY <2>1, LoggerFacts DEF MakingInv
<1> HIDE DEF m
<1>5. /\ target \in [Ids -> 0..made]
      /\ at \in [Ids -> {"none", "new", "check", "dump", "sleep", "done"}]
  BY LoggerFacts DEF MakingInv
<1>6. \A t \in Ids : target'[t] \in {0, t}
  BY <1>1, <1>2, <1>4, <1>5
<1>7. PhaseInv(Phase(todo[c]), making[c])'
  <2>1. mThread' # 0 /\ at'[mThread'] = "new"
    BY <1>1, <1>4, <1>5
  <2> QED BY <1>1, <2>1 DEF PhaseInv
<1> QED BY <1>1, <1>2, <1>3, <1>6, <1>7, AloneNext

LEMMA StartAlone ==
  ASSUME MakingInv, AloneInv, NEW c \in Callers, StartsThread(c), UNCHANGED <<category, wanted, raced>>
  PROVE  AloneInv'
<1> SUFFICES ASSUME ~raced PROVE AloneInv'
  BY DEF AloneInv
<1>1. /\ todo[c] # <<>> /\ todo'[Other(c)] = todo[Other(c)] /\ thrown' = thrown
      /\ Phase(todo[c]) = "start" /\ Phase(todo'[c]) = "idle" /\ wanted' = wanted
      /\ UNCHANGED <<mRunnable, mClose, target, made>>
  BY DEF StartsThread, Moves
<1>2. /\ ~thrown /\ todo[Other(c)] = <<>>
      /\ \A t \in Ids : target[t] \in {0, t}
      /\ \A r \in 1..made : r \in mClose \/ r = mRunnable
      /\ ~wanted => ~Starts(todo[c])
  BY <1>1, AloneFacts
<1>3. wanted
  BY <1>1, <1>2, IdlePhase DEF MakingInv, TodoInv, Stopping
<1>4. PhaseInv(Phase(todo[c]), making[c])'
  BY <1>1 DEF PhaseInv
<1> QED BY <1>1, <1>2, <1>3, <1>4, AloneNext

\* Only callers that overlapped throw.
LEMMA ThrowAlone ==
  ASSUME MakingInv, AloneInv, NEW c \in Callers, Throws(c), UNCHANGED <<category, wanted, raced>>
  PROVE  AloneInv'
<1>1. ASSUME ~raced PROVE FALSE
  <2>1. todo[c] # <<>>
    BY DEF Throws, Phase
  <2>2. PhaseInv(Phase(todo[c]), making[c])
    BY <1>1, <2>1, AloneFacts
  <2> QED BY <2>2 DEF PhaseInv, Throws, Startable
<1> QED BY <1>1 DEF AloneInv

LEMMA CallAlone ==
  ASSUME MakingInv, AloneInv, NEW c \in Callers, NEW q, Call(c, q), Phase(q) = Head(q),
         Phase(q) \in {"interrupt", "testPrevious", "newRunnable"}, q # <<>>,
         todo'[c] = q, todo'[Other(c)] = todo[Other(c)],
         UNCHANGED <<thrown, mThread, mRunnable, mClose, target, at, made, making>>,
         \/ Starts(q) /\ wanted' = TRUE /\ c = "main"
         \/ ~Starts(q) /\ wanted' = FALSE /\ c = "main"
         \/ Starts(q) /\ wanted' = wanted /\ mThread # 0
  PROVE  AloneInv'
<1> SUFFICES ASSUME ~raced' PROVE AloneInv'
  BY DEF AloneInv
<1>1. ~raced /\ Quiet /\ (Head(q) = "newRunnable" => mRunnable = 0)
  BY DEF Call
<1>2. todo[Other(c)] = <<>> /\ todo["main"] = <<>>
  BY <1>1, Others DEF Quiet
<1>3. /\ ~thrown /\ \A t \in Ids : target[t] \in {0, t}
      /\ \A r \in 1..made : r \in mClose \/ r = mRunnable
      /\ ~wanted => mThread = 0
  BY <1>1, <1>2 DEF AloneInv
<1>4. PhaseInv(Phase(todo[c]), making[c])'
  BY <1>1 DEF PhaseInv
<1>5. ~wanted' => c = "main" /\ ~Starts(todo'[c]) /\ todo'[c] # <<>>
  BY <1>3
<1> QED BY <1>2, <1>3, <1>4, <1>5, AloneNext

LEMMA RunAlone ==
  ASSUME MakingInv, AloneInv, NEW t \in Ids, Run(t)
  PROVE  AloneInv'
<1> SUFFICES ASSUME ~raced PROVE AloneInv'
  BY RunFacts DEF AloneInv
<1>1. /\ at[t] \in {"check", "dump", "sleep"} /\ mClose \subseteq mClose'
      /\ UNCHANGED <<mThread, mRunnable, target, todo, made, making, thrown, wanted, raced>>
  BY RunFacts
<1>2. PICK s \in {"check", "dump", "sleep", "done"} : at' = [at EXCEPT ![t] = s]
  BY RunFacts
<1>3. \A u \in Ids : at[u] = "new" => at'[u] = "new"
  BY <1>1, <1>2, LoggerFacts DEF MakingInv
<1>4. mThread # 0 => mThread \in Ids
  <2>1. made \in Nat /\ mThread \in 0..made /\ \A u \in 1..made : u \in Ids
    BY LoggerFacts DEF MakingInv
  <2> QED BY <2>1
<1>5. \A c \in Callers : PhaseInv(Phase(todo[c]), making[c])'
  <2> SUFFICES ASSUME NEW c \in Callers PROVE PhaseInv(Phase(todo[c]), making[c])'
    OBVIOUS
  <2>1. PhaseInv(Phase(todo[c]), making[c])
    BY DEF AloneInv
  <2> QED BY <1>1, <1>3, <1>4, <2>1 DEF PhaseInv
<1>6. \A r \in 1..made : r \in mClose' \/ r = mRunnable
  BY <1>1 DEF AloneInv
<1> QED BY <1>1, <1>5, <1>6 DEF AloneInv, Other, Callers

LEMMA LoggerInitInv == LoggerInit => LoggerInv
<1> SUFFICES ASSUME LoggerInit PROVE LoggerInv
  OBVIOUS
<1>1. /\ category \in [closesPrevious : BOOLEAN, root : BOOLEAN]
      /\ mThread = 0 /\ mRunnable = 0 /\ mClose = {} /\ interrupted = {} /\ made = 0
      /\ target = [t \in Ids |-> 0] /\ at = [t \in Ids |-> "none"]
      /\ todo = [c \in Callers |-> <<>>] /\ making = [c \in Callers |-> 0]
      /\ thrown = FALSE /\ wanted = FALSE /\ raced = FALSE
  BY DEF LoggerInit
<1>2. \A c \in Callers : todo[c] = <<>> /\ Other(c) \in Callers
  BY <1>1, Others
<1>3. Shaped(<<>>) /\ ~Pends(<<>>) /\ ~Starts(<<>>) /\ Phase(<<>>) = "idle" /\ Pend(<<>>) = 0
  BY DEF Shaped, Chained, Pends, Starts, Phase, Pend
<1>4. MaxRunnables \in Nat
  BY DumpLoggerAssumption
<1>5. LoggerTypeOK
  <2>1. {thrown, wanted, raced} \subseteq BOOLEAN
    BY <1>1, Zenon
  <2>2. target \in [Ids -> 0..made] /\ making \in [Callers -> 0..made] /\ made \in 0..MaxRunnables
    BY <1>1, <1>4
  <2> QED BY <1>1, <2>1, <2>2 DEF LoggerTypeOK
<1>6. TodoInv
  BY <1>1, <1>2, <1>3 DEF TodoInv
<1>7. BudgetInv
  BY <1>1, <1>2, <1>3, <1>4 DEF BudgetInv
<1>8. ThreadInv /\ ThrownInv
  BY <1>1 DEF ThreadInv, ThrownInv
<1>9. MakesInv
  BY <1>2, <1>3 DEF MakesInv
<1>10. "main" \in Callers /\ "task" \in Callers
  BY DEF Callers
<1>11. WantedInv
  BY <1>1, <1>2, <1>10 DEF WantedInv, EndsInv, RunnableInv, RunsInv, Settled
<1>12. AloneInv
  <2>1. \A c \in Callers : PhaseInv(Phase(todo[c]), making[c])
    BY <1>2, <1>3 DEF PhaseInv
  <2>2. \A r \in 1..made : FALSE
    BY <1>1
  <2> QED BY <1>1, <1>2, <1>3, <1>10, <2>1, <2>2 DEF AloneInv
<1> QED BY <1>5, <1>6, <1>7, <1>8, <1>9, <1>11, <1>12 DEF LoggerInv, MakingInv

LEMMA CallerKeeps ==
  ASSUME LoggerInv, NEW c \in Callers, Caller(c)
  PROVE  LoggerInv'
<1>1. MakingInv /\ WantedInv /\ AloneInv /\ TodoInv
  BY DEF LoggerInv, MakingInv
<1>2. /\ UNCHANGED <<category, wanted, raced>>
      /\ Prepares(c) \/ MakesRunnable(c) \/ MakesThread(c) \/ StartsThread(c) \/ Throws(c)
  BY <1>1, CallerCases
<1>3. CASE Prepares(c)
  BY <1>1, <1>2, <1>3, PreparesMaking, PreparesWanted, PreparesAlone DEF LoggerInv
<1>4. CASE MakesRunnable(c)
  BY <1>1, <1>2, <1>4, RunnableMaking, RunnableWanted, RunnableAlone DEF LoggerInv
<1>5. CASE MakesThread(c)
  BY <1>1, <1>2, <1>5, ThreadMaking, ThreadWanted, ThreadAlone DEF LoggerInv
<1>6. CASE StartsThread(c)
  BY <1>1, <1>2, <1>6, StartMaking, StartWanted, StartAlone DEF LoggerInv
<1>7. CASE Throws(c)
  <2>1. Throw
    BY <1>7 DEF Throws
  <2>2. MakingInv' /\ thrown' /\ \A d \in Callers : todo'[d] = <<>>
    BY <1>1, <1>2, <2>1, ThrowMaking
  <2>3. WantedInv'
    BY <2>2, ThrowWanted
  <2> QED BY <1>1, <1>2, <1>7, <2>2, <2>3, ThrowAlone DEF LoggerInv
<1> QED BY <1>2, <1>3, <1>4, <1>5, <1>6, <1>7

LEMMA CallKeeps ==
  ASSUME LoggerInv, NEW c \in Callers, (c = "main" /\ (Enable \/ Disable)) \/ RestartLog(c)
  PROVE  LoggerInv'
<1>1. MakingInv /\ WantedInv /\ AloneInv
  BY DEF LoggerInv
<1>2. PICK q : /\ Call(c, q) /\ Shaped(q) /\ q # <<>> /\ Phase(q) = Head(q)
               /\ Phase(q) \in {"interrupt", "testPrevious", "newRunnable"}
               /\ \/ Starts(q) /\ wanted' = TRUE /\ c = "main"
                  \/ ~Starts(q) /\ wanted' = FALSE /\ c = "main" /\ Phase(q) = "interrupt"
                  \/ Starts(q) /\ wanted' = wanted /\ mThread # 0 /\ Phase(q) = "interrupt"
  BY CallCases
<1>3. wanted' \in BOOLEAN /\ Phase(q) # "newThread"
  <2>1. wanted \in BOOLEAN
    BY <1>1, Zenon DEF MakingInv, LoggerTypeOK
  <2> QED BY <1>2, <2>1
<1>4. /\ MakingInv' /\ todo'[c] = q /\ todo'[Other(c)] = todo[Other(c)]
      /\ UNCHANGED <<thrown, mThread, mRunnable, mClose, target, at, made, making>>
  BY <1>1, <1>2, <1>3, CallMaking
<1>5. WantedInv'
  BY <1>1, <1>2, <1>4, CallWanted
<1>6. AloneInv'
  BY <1>1, <1>2, <1>4, CallAlone
<1> QED BY <1>4, <1>5, <1>6 DEF LoggerInv

LEMMA LoggerStepInv == LoggerInv /\ [LoggerNext]_loggerVars => LoggerInv'
<1>1. ASSUME LoggerInv, Enable \/ Disable PROVE LoggerInv'
  <2>1. "main" \in Callers
    BY DEF Callers
  <2> QED BY <1>1, <2>1, CallKeeps
<1>2. ASSUME LoggerInv, NEW c \in Callers, RestartLog(c) PROVE LoggerInv'
  BY <1>2, CallKeeps
<1>3. ASSUME LoggerInv, NEW c \in Callers, Caller(c) PROVE LoggerInv'
  BY <1>3, CallerKeeps
<1>4. ASSUME LoggerInv, NEW t \in Ids, Run(t) PROVE LoggerInv'
  BY <1>4, RunMaking, RunWanted, RunAlone DEF LoggerInv
<1>5. ASSUME LoggerInv, UNCHANGED loggerVars PROVE LoggerInv'
  <2>1. UNCHANGED <<category, mThread, mRunnable, mClose, target, at, interrupted, todo, made,
                    making, thrown, wanted, raced>>
    BY <1>5 DEF loggerVars, fields, runs
  <2>2. MakingInv'
    BY <1>5, <2>1 DEF LoggerInv, MakingInv, LoggerTypeOK, TodoInv, BudgetInv, ThreadInv, MakesInv, ThrownInv
  <2>3. WantedInv'
    BY <1>5, <2>1 DEF LoggerInv, WantedInv, EndsInv, RunnableInv, RunsInv, Settled, Quiet
  <2>4. AloneInv'
    BY <1>5, <2>1 DEF LoggerInv, AloneInv, PhaseInv
  <2> QED BY <2>2, <2>3, <2>4 DEF LoggerInv
<1> QED BY <1>1, <1>2, <1>3, <1>4, <1>5 DEF LoggerNext

\* What the invariant says of the fields, and of the loggers when both callers are done.
LEMMA LoggerTyped == LoggerInv => LoggerTypeOK
BY DEF LoggerInv, MakingInv

LEMMA LoggerSettles == LoggerInv => LoggersMatch
<1> SUFFICES ASSUME LoggerInv, Quiet
             PROVE  /\ wanted /\ ~thrown => Open # {}
                    /\ ~raced => ~thrown /\ (\A t, u \in Open : t = u) /\ (~wanted => Open = {})
  BY DEF LoggersMatch
<1>1. LoggerTypeOK /\ TodoInv /\ RunnableInv /\ RunsInv /\ AloneInv
  BY DEF LoggerInv, MakingInv, WantedInv
<1>2. \A c \in Callers : todo[c] = <<>> /\ ~Pends(todo[c]) /\ Phase(todo[c]) = "idle"
  BY <1>1, IdlePhase DEF Quiet, TodoInv
<1>3. /\ made \in Nat /\ mThread \in 0..made /\ \A t \in 1..made : t \in Ids
      /\ \A t \in Ids : target[t] \in 0..made /\ t \in Nat \ {0}
  BY <1>1, LoggerFacts
<1>4. ASSUME wanted, ~thrown PROVE Open # {}
  <2>1. Settled
    BY <1>2, <1>4 DEF Settled
  <2>2. mRunnable # 0 /\ mRunnable \notin mClose /\ \A t \in interrupted : target[t] # mRunnable
    BY <1>1, <2>1 DEF RunnableInv
  <2>3. mThread # 0 /\ target[mThread] = mRunnable /\ at[mThread] \in {"check", "dump", "sleep"}
    BY <1>1, <1>2, <2>1 DEF RunsInv
  <2>4. mThread \in Ids
    BY <1>3, <2>3
  <2>5. mThread \in Open
    BY <2>2, <2>3, <2>4 DEF Open
  <2> QED BY <2>5
<1>5. ASSUME ~raced PROVE ~thrown /\ (\A t, u \in Open : t = u) /\ (~wanted => Open = {})
  <2>1. \A t \in Open : t = mRunnable /\ t # 0
    <3> SUFFICES ASSUME NEW t \in Open PROVE t = mRunnable /\ t # 0
      OBVIOUS
    <3>1. t \in Ids /\ target[t] # 0 /\ target[t] \notin mClose
      BY DEF Open
    <3>2. target[t] = t
      BY <1>1, <1>5, <3>1 DEF AloneInv
    <3>3. t \in 1..made
      BY <1>3, <3>1, <3>2
    <3> QED BY <1>1, <1>5, <3>1, <3>2, <3>3 DEF AloneInv
  <2>2. ~wanted => mRunnable = 0
    BY <1>1, <1>2, <1>5 DEF AloneInv, Callers
  <2> QED BY <1>1, <1>5, <2>1, <2>2 DEF AloneInv
<1> QED BY <1>4, <1>5

\* The fields name what was made, and no more runnables are made than calls allow.
THEOREM LoggerTypeCorrect == LoggerSpec => []LoggerTypeOK
BY LoggerTyped, LoggerInitInv, LoggerStepInv, PTL DEF LoggerSpec

\* However the statements of the main thread and of a DeleteTask interleave, a category
\* that is switched on has a logger that goes on dumping when both callers are done;
\* and as long as they did not overlap there is at most one, none when it is switched
\* off, and no exception.
THEOREM LoggerMatches == LoggerSpec => []LoggersMatch
BY LoggerSettles, LoggerInitInv, LoggerStepInv, PTL DEF LoggerSpec
=============================================================================
