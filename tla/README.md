# A TLA+ verification of the Android log tool

The repository `androidTools` collects tools for bringing up Android devices. Its
own core is `logtool/fdc-logtool`: a native daemon that copies the system's log
buffers to rotated files, and an app that switches categories on and off, moves
the logs between storages, drives the modem's trace over a serial line and
deletes old logs. This project models that core, and of the bundled network tools
the one with threads and a protocol, `wifi_tools/iperf`. Most of the rest is
third-party (iw, sigma_dut, wireless_tools, i2c-tools, the RAM dump parser,
partition tools) or consists of views; `PROJECT.json` lists every part.

## Inventory

Paths are relative to `src/logtool/fdc-logtool/`.

| Part | State | Operations | What is hard |
|---|---|---|---|
| Log daemon, `libs/logdump.cpp`, `libs/detectprop.cpp` | globals `gb*Enable`, `gb*Change`, `gbWrite*`, `g*fd`, `gszLog*Dir`, without locks | four reader threads; a poller that compares properties once a second and runs `callback` | data races between poller and readers; descriptor reuse; a busy-wait |
| Rotation, `libs/logtool.cpp` | `<prefix>_RotateLastIdx`, the files of a prefix | next index, remove, echo, open | death between system calls; full disk; a limit that changes; a glob pattern |
| Modem log session, `log/ModemLogService.java`, `log/ModemLogTrigger.java`, `tool/SerialPortControl.java` | service fields, one control and trigger per session, looper queue, delayed runnables, reader thread | start, AT scripts, retry, time-out, close | late answers against time-outs; second starts; runnables that outlive the session |
| Boot mount path, `waitMount*`, `onHandelLogPath` | `gb*WaitMount`, `gszLogRootDir`, directories, `KEY_BOOTMOUNT_STATE` | waits for the micro-SD card, moves early logs, removes the old place | a third thread that writes the daemon's globals; a missed broadcast; a card that goes |
| Dump service, `tool/DumpService.java` | a thread and a runnable per logger, disk monitor, media scan | start, stop, restart loggers, clear or close on low disk | two threads on the same fields; early returns; runnables that post themselves |
| Clear log, `tool/DeleteTask.java` | snapshot of the enable properties | switch off, delete, sleep, restore | overlap with the user, the path change and the monitor; death in between |
| iperf, `wifi_tools/iperf/{src,compat}` | a ring per report, sequence numbers and statistics, a count of threads | report packets, FIN handshake, start, join, release | no lock on the ring; an unreliable network; signals; threads that start threads |
| asuslogcat, dumpkmsg, `libs/asuslogcat.cpp`, `libs/dumpkmsg.cpp` | entry queues per device; a chunk of kernel messages | merge by time stamp, copy line by line | entries still unread, interrupted reads, a `select` that sleeps; a chunk that ends inside a line |
| Receivers and pages | none (properties, preferences) | write properties, send intents | they are the environment of the parts above |

The parts of the log tool meet in four places. The app writes `persist.asuslog.*` properties and
the daemon polls them. The daemon's readers and its poller share globals and the
process's descriptor table. Receivers send intents to the modem service, whose
objects communicate through the main looper. A clear, from its own thread, reaches into
the dump service's loggers, its media scan and the enable properties.

What makes each part correct:

- daemon: a line goes to the file its reader opened, descriptors do not leak,
  Enable follows the property, a stop closes the file, a new root is followed;
- rotation: bounded number of files, oldest first, at most one index wasted by a
  crash;
- modem session: it always ends, leaves no port open and no runnable that fails,
  repeats a command a bounded number of times, and reports a command's own answer;
- boot path: the logs arrive at the root that stays, and only the temporary
  directory is removed;
- clear log: what was enabled before is enabled after; nothing else is;
- dump service: an enabled category has one logger, a closed one ends, the scan
  follows its settings, and a full disk closes the logs of `REMOTE_KEY`;
- asuslogcat: output in the order of the time stamps, nothing kept back; dumpkmsg:
  every byte once and in order;
- iperf: packets reach the reporter in order and once, the reported loss is the number
  of datagrams that never came, both ends of a test finish, and main returns when and
  only when all work is done. (Where the code falls short of this is said below.)

## Modules

| Module | Models | Used by |
|---|---|---|
| `LogDump` | daemon | `MCLogDump`, `LogDumpProofs` |
| `BootMount` | boot mount path, on the daemon's globals | `MCTool`, `LogToolProofs` |
| `LogRotation` | rotation | `MCTool`, `LogRotationProofs` |
| `BoundedLog` | what a rotated log promises (abstract) | `LogRotation` through `INSTANCE` |
| `ModemSession` | service, scripts and serial engine together | `MCModemSession`, `ModemSessionProofs` |
| `LogControl` | clear, path change, disk monitor and user over the enable properties | `MCTool`, `MCLogs`, `DumpServiceProofs` |
| `DumpLogger` | a category's logger in the dump service | `MCTool`, `DumpServiceProofs` |
| `MtpUpdater` | the periodic media scan | `MCTool`, `DumpServiceProofs` |
| `LogMerge` | asuslogcat's merge of the log devices | `MCLogs`, `LogMergeProofs` |
| `KmsgCopy` | dumpkmsg's copy loop | `MCLogs`, `LogMergeProofs` |
| `PacketRing` | iperf's ring between agent and reporter | `MCIperf`, `IperfDataProofs` |
| `PacketQueue` | what the ring promises (abstract) | `PacketRing` through `INSTANCE` |
| `UdpStream` | a UDP test over a bad network | `MCIperf`, `IperfDataProofs` |
| `IperfThreads` | the threads of an iperf process | `MCIperf`, `IperfThreadsProofs` |
| `MCTool`, `MCLogs`, `MCIperf` | instances of several machines | runs; `LogToolProofs`, `LogMergeProofs`, `IperfThreadsProofs` |
| `*Proofs` | theorems with their proofs | |

`MCTool`, `MCLogs` and `MCIperf` put machines that share no variable into one instance: a
behaviour picks one of them at the start (`part`, `program`, `level`) and runs it
alone, with its own fairness; the state space is the sum of theirs. Their
`ToolTypeOK`, `LogsTypeOK` and `IperfTypeOK` are the conjunctions of the modules' type invariants.

### LogDump

Categories are a constant set; the four reader functions are one loop over their
own globals, and the differences between the four branches of `callback` are
constants: the orders in which the code visits the categories (`StartOrder`,
`SnapOrder`, `PollOrder`, `CloseOrder`), which categories' stop branch closes the
file itself (`ClosesOnStop`: radio, event) and which clears Enable before it sets
Change (`EnableFirst`: event). Every access to a global that the other kind of
thread can see, and every system call on a descriptor, is a step of its own:
`rpc[c]` is the reader's position, `dpc` and `di` the poller's. `fdTable` is the
process's descriptor table; `open` takes the lowest free number, `close` frees a
number whatever it refers to, so reuse of a closed number by another category is
possible. `gbWrite` is a function of the reader's position because the code raises
it exactly around `write`.

Undefined behaviour. The busy-wait in `LOG_PATH_CHANGE` reads a plain `bool` in a
loop that does not change it. Both outcomes are modelled: the flag is read again
(`SpinWrite`) or was read once (`SpinHoisted`, position `"stuck"`). `fstat` on a
closed number leaves the size uninitialised: `ReopenAssign` chooses any size.

Abstracted: a directory is its storage root (the date part changes once per boot
or clear), a file is category and directory, `byteCount` counts lines, the failing
write's -1 is not added, descriptors 1 and 2 do not occur, `popen` succeeds.
`waitMountRun` is in `BootMount`.

### LogRotation

One prefix in one directory. A file is its index and a generation number that the
date in its name stands for. Reading the counter, `rm -rf`, `echo` and `open` are
separate actions and `Crash` may come between any two. `Matches` is the glob of
`deleteExistpathbyId`, including that `_10*` matches `_100`. `EchoFails` leaves the
counter empty, which `atoi` reads as 0. `BoundedLog` has two actions, append at the
new end and trim at the old end; `ImplementsBoundedLog` maps `kept` to the
generations on disk.

### ModemSession

One instance of the service. A start that finds no control makes control and
trigger number `made + 1`, so a stale trigger is a number. Handlers on the main
looper are atomic; `queue` is the looper's queue in order, delayed runnables are
counters or flags in the control (`timeouts`, `delayed`) and in the service
(`stops`) and may fire at any later time, which over-approximates the delays of
100 ms, 300 ms and 2 s. The reader thread takes a step at each line that reads a
field `close()` may have changed. What the modem says is reduced to whether it
contains the success key, chosen when the text is handled; `message` is whether
`mMessage` contains it by now. `Faults` lets the device file vanish, writes and
reads fail and `openSerialPort` return null. `lost` is a history variable: controls
whose repetition could not be sent. Starting intents after `stopSelf` reach another
instance, whose state is disjoint from this one's.

### BootMount

The daemon after `init()` found the card missing: it logs to `/data/Asuslog/`
(`"wait"`), `waitMountRun` (`"mount"`) waits and moves the logs, `detectProp`
(`"main"`) may move them too, and readers reopen their files when they see Change.
The two movers run the same `resetLogPath` on the same globals, one
`createDirWaitMount` call a step, with `lockUnMount` a step that may wait. A
directory is a root and how deep it exists, which is what decides whether `mkdir`
without `-p` and `open` succeed. `boot` and `removed` are history: what became of a
category's boot log, and which roots `onHandelLogPath` removed. Descriptors and the
single accesses of `callback` stay in `LogDump`; the poll of a category is one step
here, and a stop's closing of the file is left out.

### LogControl

Three threads: `"task"` (the AsyncTask executor, one clear at a time), `"main"` (the
looper: user, path change, every later monitor run) and `"boot"` (the thread of the
first monitor run). A property's read and its write are separate steps, and the
local array `enable` is state, because a death loses it. `asked` is history: the
last request for a log, marked `"offHeld"` when it was switched off while a clear or
a path change held it and `"givenUp"` when a clear gave it up. The keys are those of
`REMOTE_KEY` and the modem's. The user can switch two of them (`Switched`): tcpdump,
whose page refuses on a low disk (`NetWorkLog.java:125-137`), and the modem's, whose
page does not look at the disk (`ModemLog.java:607-626`). The other keys of
`REMOTE_KEY` are on by default, and only the jobs and the forced close write them. The
general page's switches write three `logcat` keys (`GeneralLog.java:295-315`) that no
clear, path change or forced close reads or writes; they are not modelled.
`DiskLowCloses` is about the keys of `REMOTE_KEY`, after a run of the monitor that saw
room. It excepts a log that a job held when it was forced off (`"offHeld"`): the job
switches it on again and, as the flag of the forced close is set by then (`Reminder`),
nothing closes it any more. And it is about a monitor that waits for its next run: one
whose clear made room has ended and closes nothing. The modem's property is handled
where the code does it: restored with the others by a clear, at once and before or
after the others by a path change. Free space is one of three levels, the dialogs
are left out, and deleting changes nothing that a property here sees.

### DumpLogger and MtpUpdater

`DumpLogger` is one of the twelve categories; `category` says whether its start
closes a previous runnable (audio) and whether its command runs as root, which
swallows interrupts (procrank, top). Handlers are sequences of statements (`todo`),
so that the main thread and a `DeleteTask` interleave at each access of the two
fields. `raced` is history: callers overlapped, or a start found a logger that its
category does not close. Dying of a null pointer or of a second `start()` ends the
process (`thrown`). `MtpUpdater` counts how often `mUpdateMtpRunnable` waits in the
queue; the calls of three threads interleave.

### LogMerge and KmsgCopy

`LogMerge` numbers entries in the order in which they are written, with stamps that
may be equal and never decrease (a clock set back is left out). `buffer` is what a
device holds unread, `queue` what `readLogLines` holds; a pass is `Select`, one
`ReadEntry` per device it reported, `PassRead` and `PrintPass` step by step, so that
writers and an `asuslogcat -c` come between any two. A read may be interrupted
(`EINTR`, which leaves `sleep` as it is) or find its device cleared (`EAGAIN`, which
ends the pass; `cut` remembers whether that left a device unread of which nothing is
queued). Lines
that a filter drops count as printed.

`KmsgCopy` takes any chunk of at most `MaxBytes` bytes, each a newline or not, through
`log_loop` with its double increment. `logged` and `marks` are the positions written
and the positions before which a time mark was written.

### PacketRing, UdpStream, IperfThreads

`PacketRing` has a step for every read and write of an index that the other thread
can see. A signal wakes an agent only if it waits: one that comes before is lost, as
in the code, which does not hold the mutex. `StoresInOrder` says whether the packet
reaches the reporter before the index that announces it; the C source does not make
it so. `written` and `handled` are the history `PacketQueue` is about.

`UdpStream` takes the ring for a queue. The sets `toServer` and `toClient` are what
was ever sent, so anything can arrive late, twice or never. Ids are cut to
`IdLimit` = 2^31 with the sign that marks a FIN. A `recv` that fails or returns
nothing (`RecvFails`) reports what the server's buffer holds once more, the id of the
last datagram or, before the first, anything, and ends the loop as a FIN does;
`failedRead` remembers it. Bounded: datagrams, reads per server, servers, and a read
fails only of the last server and not at its last read. Jitter, rates and time are
left out.

`IperfThreads` has one step per critical section of `Thread.c`, the chains `runNow`
and `runNext` as sequences of threads to start, and a report reduced to five states.
A peer may ask for several reverse clients (`numThreads`, at most `MaxAsked`), which
share a barrier like the clients of a command line; a host that is not the served one
is refused (`AcceptRefused`). The timer of a timed TCP client is one more source of
`Sig_Interupt`. The module leaves out `pthread_create` failures and a signal that
arrives inside a critical section.

## Runs

| Run | Instance | Shows |
|---|---|---|
| `daemon_files` | main and kernel, one root, 2 descriptors | `TypeOK`, `WriteToOwnFile`, `AgreementStable` |
| `daemon_follows` | event, two roots, 1 descriptor | `FollowsProp`, `FollowsRoot`, `LosesByStore`, `ExitsByLoss` |
| `daemon_avoid_writing` | main, two roots | `AvoidIsWritingLog` is violated |
| `daemon_restart` | main, one root | `StartedIsWritten` is violated |
| `modem_starts` | two intents, 1 text, faults | `PortOwned`, `Watched` |
| `modem_ends` | one session (check with PCM, or I2S), 6 texts, no faults | `TypeOK`, `SessionEnds` |
| `modem_normal_close` | two intents | `NormalClose` is violated |
| `modem_stale_message` | two delayed commands | `DelayedCheckIsOwn` is violated |
| `tool_parts` | logger: 3 runnables; scan; boot: main, one move; rotation: limits 3, 4, 6, raised only, 14 files, 2 crashes; with fairness | `ToolTypeOK`, `LoggersMatch`, `ClosedEnds`, `MtpFollows`, `RootFollowed`, `KeepsNewest`, `ImplementsBoundedLog` |
| `tool_safety` | control: tcpdump and modem, one waiting clear; boot: main and kernel, 2 switches; rotation: limits 1, 2, 4 in any order, 7 files, 2 crashes, empty counter | `NoLogLost`, `OnOnlyIfWanted`, `RemovesOnlyWait`, `LostToAnother`, `Bounded` |
| `logs` | control: tcpdump and modem, one kill, no clear by the user; asuslogcat: 2 devices, 3 entries, blocking or `-t 2`, one cleared buffer; dumpkmsg: chunks of 5 bytes; with fairness | `LogsTypeOK`, `DiskLowCloses`, `PrintsInOrder`, `AllPrinted`, `KmsgLosesLittle` |
| `iperf` | ring of 4, 9 packets; 3 datagrams with ids below 3, 2 tries, 2 servers, one failed read; command lines `-c -P 2`, `-d`, `-r`, `-s` with `-P` and `-1`, one connection, one reverse client asked for, one signal | `IperfTypeOK`, `NoOverwrite`, `FreedEnded`, `QueueOrder`, `ReportEnds`; `LossCounted`, `RelayedFinal`, `StreamEnds`; `CountExact`, `JoinWaits`, `TradeoffServed`, `MainReturns` |

Bounds. Two categories are enough for one to reuse the number the other closed,
and 2 descriptors are exactly what two categories need. One line per file makes every
write rotate. `daemon_files` has one root because with two the races of
`daemon_avoid_writing` break ownership. In `daemon_follows` the poller does close and
lose the reader's file, and with one descriptor the daemon does exit for it, so
`LosesByStore` and `ExitsByLoss` meet their cases.
Rotation wraps at least twice within `MaxGen`. A modem command is sent at most
twice instead of five times. Six texts carry a check session into the PCM commands,
and cover a failed check with most of the start script after it.

Boot: one reader and two movers already interleave on all the globals, two
categories are what one category's removal needs to hit another. Logger: a third
runnable is one that a restart makes while a start is still under way. Control: one
clear that runs and one that waits overlap with a path change and a monitor run. In
`tool_safety` the disk is roomy or below the lower limit (`Levels`), the branch that does
all the other one does and the forced close too; `logs` has the level between as well.
Merge: with three entries one device can hold two that are both older than the other's,
which is where printing too early shows; two devices and five entries, or three devices
and four, change nothing but the time. Chunks: five bytes hold an empty line between
two others.
Ring: nine packets go round four slots twice. Stream: three datagrams (0 is never
counted, 1 and 2 can swap or be missing). With `IdLimit` 3 no datagram's id wraps;
only the FIN's can, and the premise `packetID <= IdLimit` of `RelayedFinal` always holds
in the run: that it suffices is what the theorem shows. Threads: one reverse client;
two, with their barrier, make the liveness check too long, and the theorems hold for any
number. `-c -P 2` has the barrier in the run.

The properties of the daemon speak of categories that agree (`Agrees`): between
`startRecordLog` and the snapshot of `detectProp` a property can change unnoticed,
and with too little space nothing is started although the snapshot says it is; such
a category does not follow its property until the property changes twice.
`FollowsRoot` has the same condition for the root. `Dead` is the state after
`exit(-1)` or inside the hoisted busy-wait.

Fairness. Daemon: the threads are scheduled by the kernel (`WF` on the poller and
on each reader, whose logcat keeps producing lines; its end is not fair), and a
busy-wait that re-reads its flag sees it down at some time (`SF` on `SpinWrite`).
Boot: both movers are scheduled and the first minute passes; no line, card or user
is promised. Dump service: threads run; the looper takes what waits in it, though
what waits can be removed and posted again (`SF` on `UpdateMtp` and `RunMonitor`).
asuslogcat: it runs, and not every read is interrupted (`SF` on `ReadEntry`); the read
of a cleared device need not return.
iperf: threads are scheduled, a timer expires, a client's own test ends; nothing
makes a datagram arrive or a peer connect.
Modem: the looper runs and delayed runnables become due; nothing is assumed of the
modem, the reader threads or the intents. The texts are bounded, so a modem that
talks for ever (which would postpone a delayed check for ever) is not covered.

Deadlock is not checked where the daemon may have exited or hung, the modem service
was destroyed, a bound (files, runnables, deaths) is used up, or iperf has returned.

## Disagreements between code and comments

1. `//avoid is writing log` (`logdump.cpp:521`): the wait does not exclude a write
   that starts after the test. Run `daemon_avoid_writing`.
   (The same loop may never end in an optimised build: `SpinHoisted`. The
   liveness properties exclude that outcome through `Dead`.)
2. `//start` (`logdump.cpp:433`): a start after an overlapped stop can leave the
   category enabled without a file for ever. `daemon_restart`. The comment in
   `DeleteTask.java:210` ("else log do not restart") knows the symptom.
3. `serial port normal close!!!` (`ModemLogService.java:162`): a pending time-out
   dereferences the null handler. `modem_normal_close`.
4. `SUCCESS OK` (`ModemLog.java:137`): later delayed commands succeed by an earlier
   command's answer. `modem_stale_message`.

What else the models show, without a comment in the code to hold against it:

- `onHandelLogPath` removes the part of the old path before the date
  (`logtool.cpp:342`), the whole of `/data/Asuslog/`: the first category that moves
  deletes the boot logs of the others, and an open of a file there can end
  in `exit(-1)`. `LostToAnother` says that this is the only way a boot log is lost
  while nobody touches the settings.
- When `waitMountRun` raises `gb*WaitMount` before a category's first line,
  `logtool.cpp:304` computes with a null pointer (`HandleNull`).
- `waitMountRun` ends when it finds the root internal. When the root goes back to the
  card before `detectProp` polls again, neither thread moves the logs and they stay in
  `/data/Asuslog`; `RootFollowed` is therefore about at most one change of the root.
- A log the user switches off while a clear holds it comes back (`offHeld`), and one
  that a clear holds when the process dies, or when the folder is gone in
  `clearOldData`, stays off (`givenUp`). `NoLogLost` and `OnOnlyIfWanted` say that
  there are no other ways.
- A monitor run whose clear made room never posts itself again
  (`DumpService.java:271`).
- A restart by a clear that overlaps a start can leave a second logger that no switch
  reaches, or call `start()` twice.
- The forced close on a full disk. A log that a clear or a path change holds just then
  comes back and is not closed again (`"offHeld"`). The modem's log can be switched on
  while the disk is full and stays on. The `logcat` keys of the general page are not
  touched by `forceState`; an open page switches them off when it gets the broadcast
  (`DebuggerMain.java:262-274`), a closed one does not. `DiskLowCloses` says what is left.
- `Reporter.c:791` takes the datagrams that came late off the lost ones under a strict
  `>`. When nothing is missing the two numbers are equal and the late ones are
  reported, and relayed to the client, as lost: ids 2, 1 make one lost. `doc/index.html:537-539`
  says that out-of-order packets "are excluded from the lost packet count".
  `LossCounted` states the number as the code reports it.
- A timed TCP test with `-r`, the default, ends by SIGALRM (`Client.cpp:138-148`, 181),
  whose handler sets `sInterupted` and releases the listener (`main.cpp:264-268`). main
  may then return before the peer has connected, and a listener that still runs closes
  the connection (`Listener.cpp:165`): the reverse test that `Locale.c:110` and
  `doc/index.html:292-300` promise is not served. `TradeoffServed` is about the
  other tests: by an amount of data (`-n`), or over UDP.
- A thread lowers the count before it starts its `runNext` (`Thread.c:273`): a server of
  a released listener can lose its reverse client.
- Parallel iperf clients wait for ever at their barrier when one cannot connect;
  `MainReturns` excludes a failed connect.
- The FIN of a UDP client carries the reporter's count, which may be behind what was
  sent; the server's report then misses the tail of the test.

- `asuslogcat` with three devices: when a pass meets a cleared device, the rest of it is
  skipped. If a device left out has nothing queued, an entry can be printed before an
  older one of that device. It takes an interrupted read or a second cleared buffer to get
  there. `PrintsInOrder` excludes what follows such a pass (`cut`) and nothing else.
- `dumpkmsg` never looks at the byte after a message. A chunk whose last byte directly
  follows a newline loses that byte, and a line after an empty one gets no mark of its
  own (`KmsgLosesLittle`). `write_message` returns 0 whatever happens, so the pause
  after a failure is never made.
- A signal that reaches an iperf thread while it holds `thread_sNum_cond` makes
  `Sig_Interupt` (`main.cpp:268`) wait for itself. Critical sections are single steps
  of `IperfThreads`, so this is not represented.

## Proofs

Every theorem holds for all values of the constants that satisfy the named assumptions
of its module; the few further hypotheses are given below. All constants' assumptions
are checked by TLC on the instances. `BootMountAssumption` says that `resetLogPath`'s
list names each category once, which the prover needs to know that the loop ends.

### LogDumpProofs

- `TypeCorrect`: `TypeOK` is inductive; its part `PositionOK` is what keeps the
  poller inside its lists.
- `AgreementHolds`: an action property from `TypeOK` and an invariant that ties the
  stop branch's position to the flags.
- `LossByStore`: `LosesByStore` in every configuration. No invariant about descriptors is
  needed, and none holds once the poller has closed a reader's file: the proof shows for
  each step that what a reader owned it still owns, or was closed (`LossStep`). Only a
  reader that is started has to own nothing before, which is `StartInv`: no reader is
  started twice.
- `ExitByLoss`: `ExitsByLoss` in every configuration with finitely many categories. When
  no number is free, those not lost are owned; the reader that opens owns none and the
  others at most one each (`HeldCount`, a pigeonhole argument).
- `OwnershipHolds` and `NothingLeaks`: `WriteToOwnFile` and `NoLeak` (every open number
  is in a `g*fd` or about to be) for any categories, roots and orders, as long as the
  poller's closes, and the stores that follow them, meet categories without a file
  (`PollerSpares`). The invariant `FileInv` says which descriptor each reader holds at
  each of its positions, that two readers never hold the same one, and that descriptor 0
  stays standard input. Neither property is inductive alone: a step preserves it only if
  the number being closed is nobody else's. The hypothesis is needed: after a close of
  the poller a reader may write to a number that another reader opened since. The first
  wrong write therefore always comes after such a close.
- `DaemonStays`: under `PollerSpares`, with a descriptor for each category, no exit;
  from `FileInv`, which leaves nothing lost, and `HeldCount`.
- `SoloSpares`: in the configurations without a `ClosesOnStop` category and with one
  root, as in `daemon_files`, `PollerSpares` holds of every behaviour.

### LogRotationProofs

`Regular` is: the limit is only raised, at most 99, the counter is never empty.

- `RotationBounded`, without `Regular`: `BoundInv` adds that after the removal no file
  has the index about to be opened, and that this index is within the largest limit.
- `RotationOldestFirst`, under `Regular`: the invariant orders indices by age: from the
  index after the counter up to the limit the old lap, from 1 to the counter the
  present lap.
- `RotationKeepsNewest`, under `Regular`: `AgeInv` counts the age of a file in indices.
  From a file's index the counter has gone on by at most one for each file opened and
  each crash since, and it only begins again at the least limit or later; the file is
  removed when the counter comes back to it, so it is then at least that old.
- `RotationImplements`, under `Regular`: initial states and steps of the rotation are
  initial states and steps, or stuttering steps, of `BoundedLog`.

### ModemSessionProofs

- `SessionTypeCorrect` and `SessionPortOwned`, from the invariant
  `Inv == TypeOK /\ PortOwned`. `PortOwned` needs `TypeOK` because a close must hit
  a control that exists; `TypeOK` needs its part `Paired`, which says that a result
  in the queue names a command of its mode, or the script's next command would be
  undefined. `SendCommandFacts`, `SendNextFacts`, `SendI2cFacts` and `CallBackFacts`
  say that no send opens or closes a port; `ControlClosed` that each end closes the
  one that may be open.
- `SessionWatched`: `SessionInv` adds what `Watched` alone does not give: the present
  control has its handler and is the trigger's; without a port it has no reader, no
  delayed check and no text in the queue, so nothing withdraws its time-out; a control
  not made yet has none either; and in a service that is stopping every queued start
  is followed by its `onDestroy`. Each action that withdraws the time-out is shown to
  leave a message, a delayed check or a new time-out, or to put the control in `lost`.

### DumpServiceProofs

- `ControlNoLogLost` and `ControlOnOnlyIfWanted`: neither is inductive. `ControlInv`
  adds which job each thread is in (`JobInv`) and what its local array is at each stage
  (`HoldInv`): a log is remembered before it is switched off, and what is remembered
  lies ahead of the loop that switches on again. Threads may overlap in any way; the
  argument looks at one key and the thread that holds it.
- `MtpTypeCorrect`: the runnable is queued at most twice. The bound is not inductive;
  what is, counts the copies in the queue and the posts that the two other threads
  still owe, together at most two (`MtpInv`).
- `LoggerTypeCorrect` and `LoggerMatches`: the two callers run lists of statements
  one by one. The proof abstracts a list that is left over by its first
  statement (`Phase`), by whether it contains a start (`Starts`) and by whether a
  runnable or a thread is still to be made (`Pends`). `MakingInv` says that an
  unstarted thread is known to one caller only; `WantedInv` that, once no caller has a
  runnable to make, the last one made is open and no interrupt will close it, and once
  no thread is to be made `mThread` runs it; `AloneInv` that without an overlap the
  thread and the runnable go in step.
- `ControlTypeCorrect`: the type part of `ControlInv`.

### LogToolProofs

- `BootTypeCorrect`; `BootRemovesOnlyWait` from `PathInv`, which says for the daemon
  and for each category where its directory is before and after `waitMountRun` has
  stored the new root, and that a reader which has a file on the card no longer gets
  the `WaitMount` flag: with it, the `rm -rf` would remove the card's directory.
- `BootLostToAnother` from `LostInv`: while nobody touches the settings the card stays
  once it was mounted, the directory is made before any reader is told to move, and a
  reader with a file in the temporary directory has a boot log.
- `ToolCorrect` and `ToolRotates`, about `MCTool`: see below.

### LogMergeProofs

`MergePrintsInOrder` and `MergeTypeCorrect`, from `MergeInv`:

- Order. An entry is printed first if no other that is queued or unread precedes it. For
  the queued ones that follows from their order in each queue (`DeviceInv`: the driver's
  stamps never decrease, so `enqueue` always appends), for an unread one of a device with
  a queue likewise. The other unread ones are the heart (`PassInv`): a device that the
  pass has read or passed over and that has nothing queued holds only entries younger
  than all that were read before the pass, because `select` found it empty then. The
  entry that is printed has a successor in its queue, so it was read before the pass.
  In the flush `select` found all devices empty.
- Count. `queued_lines` is the number of queued entries; printed and queued ones together
  are all that was read, or with `-t` at least as many as asked for (`TailInv`), and what
  was skipped is no later than what is left. Without a cleared buffer no pass is cut
  short (`ClearInv`).
- The lemmas `ListedFacts`, `HeadOut` and `EntryIn` say what the lists of the devices hold
  after one of them lost or gained an entry; `LeastNat` that `ChooseFirst` and `Min` exist.

dumpkmsg and the instance:

- `KmsgCopies`: `WrittenInv` relates what was written to the two positions `cur` and
  `scan` of `log_loop`'s buffer, for chunks of any length and content.
- `LogsCorrect`, about `MCLogs`: see below.

### IperfDataProofs

The ring, when `StoresInOrder` holds (without it `QueueOrder` is false: the reporter reads a slot
before the packet is in it):

- `RingTypeCorrect`, `RingNoOverwrite`, `RingFreedEnded` and `RingImplementsQueue`,
  from the inductive invariant `RingInv`. Its part `RingOK` says which packet each
  unread slot holds, in the two cases that the agent has begun the ring again
  (`Wrapped`) or not (`Straight`). `StaleOK` is the heart: the index the agent tests
  may be old, but the reporter has only moved on from it towards `agentindex`, so a
  test that succeeded stays good. `AgentOK` and `ReporterOK` tie the two threads'
  positions to the indices. One lemma per action.

The UDP test:

- `StreamLossCounted`, of the figure that is reported and relayed (`Final`): `LossInv`
  says that `cntError - cntOutofOrder` is the number of missing ids and that no id above
  `PacketID` was received. The lemmas say how one datagram changes that number: one
  beyond the largest adds the gap before it, one below it that is new takes one away.
  `LossReported` then draws the line of `Reporter.c:791`: with an id missing there
  are fewer late ones than gaps and the difference is reported, with none missing the
  two are equal and the late ones are.
- `StreamRelayedFinal`: `HandshakeInv` says, by the phase of the client, which ids can be
  in the network: while it sends, no negative one; afterwards every negative id is at
  least the FIN's, so every server that answers has counted it, and so has every answer
  under way. A failed read makes a server answer at any time, so the property excludes
  what follows one. `StreamTypeCorrect` is the type part.

### IperfThreadsProofs

- `ThreadsCountExact` and `ThreadsJoinWaits` from `ThreadsInv`. The set of live
  threads is finite and `thread_sNum` is its size less the released listener and an idle
  reporter (`CountInv`). A step of `thread_start` preserves it only if the thread
  was not alive: `ChainInv` says that the threads of all chains still to be started are
  fresh and different, `PeersInv` that those of connections to come are. `JoinWaits`
  needs `ReportInv`: a report that is not printed belongs to an agent at work.
- `ThreadsTradeoffServed`: `ServedInv` follows `mClients` through the accepts of the
  listener, which main waits for until the last server is started. `QuietInv` says that
  nothing interrupts a test without an alarm and without the user's signal.
- The reverse clients of a server are a chain like the others; `ChainInv` and `PeersInv`
  hold for any number of them.

### The instances of several machines

`ToolCorrect`, `LogsCorrect` and `IperfCorrect` state the safety properties of the runs
`tool_parts`, `tool_safety`, `logs` and `iperf` as the runs check them: of
`ToolSpec`, `LogsSpec` and `IperfSpec`, for every set of machines and all values of the
constants. A step of the instance is a step of one machine and leaves the variables of
the others alone, so it is a step or a stutter of each (`ToolSteps`, `LogsSteps`,
`IperfSteps`), and an instance starts where each machine starts; the inductive
invariants of the components then hold together (`MachinesInv`, `ProgramsInv`,
`LevelsInv`). `ToolRotates` adds, under `Regular`, what needs it: `KeepsNewest` and the
refinement. `IperfCorrect` assumes `StoresInOrder`, as the ring's theorems do, and
includes the ring's refinement, `QueueOrder`.

### Only model-checked

- All liveness properties: fairness and ENABLED are outside the prover. These are
  `FollowsProp`, `FollowsRoot`, `SessionEnds`, `ClosedEnds`, `MtpFollows`, `RootFollowed`,
  `DiskLowCloses`, `AllPrinted`, `ReportEnds`, `StreamEnds` and `MainReturns`.
- Every invariant and action property of a passing run is stated by a theorem. What the
  poller's closes break (`WriteToOwnFile` once it closed a reader's file) has no
  general form here beyond `LosesByStore` and `ExitsByLoss`; `rotateLogs` after such a
  close may even close descriptor 0, as `RotateClose` has it, because it does not test
  the number.

## Not modelled

- asuslogcat and dumpkmsg: option parsing, formats and filters. Their output is rotated
  by the same `rotateLogs` as the daemon's, which `LogRotation` models.
- The modem page: `closeLog` and the level change run further scripts on the same
  engine; a change of `isAutoPcm` in mid-session (`ModemLogTrigger.java:111`) is not
  represented, `AutoPcm` is a constant.
- The `logcat` keys of the general page (`GeneralLog.java:295-315`) and the services
  that the init scripts start for them: no job of `LogControl` reads or writes them.
- The pages and receivers, as far as they only show or forward; the properties and
  intents they write are environment actions.
- iperf: TCP payload, option parsing, output, sums over streams, multicast, pacing.
- sigma_dut, iw, wireless_tools, i2c-tools, partition tools, the RAM dump parser:
  third-party programs, about three quarters of the repository's lines. They translate
  commands into ioctl, netlink or shell calls one after the other; there is little
  state, and a model of them would restate tables. The share of all lines that the
  map covers is small for this reason.

## Plan

1. Which writes can go wrong after a close of the poller, as `LosesByStore` says it for
   lost descriptors.
2. Modem page, a setting that changes in mid-session, two service instances.
