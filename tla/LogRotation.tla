---------------------------- MODULE LogRotation ----------------------------
(***************************************************************************)
(* File rotation of libs/logtool.cpp: rotateLogs and onHandelLogPath name  *)
(* the next file of a prefix through the counter kept in the file          *)
(* <prefix>_RotateLastIdx, remove what is left of that index and open the  *)
(* file.  Each of the three effects is a system call of its own, so the    *)
(* process can die between any two of them.                                *)
(*                                                                         *)
(* A file is its index and its generation: the date in its name only tells *)
(* generations apart.  The prefix and the directory are fixed; another     *)
(* prefix or directory has its own counter.                                *)
(***************************************************************************)
EXTENDS Integers, FiniteSets

CONSTANTS
  RotateNums,   \* the values of persist.asuslog.rotate.num
  MayShrink,    \* whether the property may be lowered while files exist
  EchoFails,    \* whether writing the counter can leave an empty file
  MaxGen,       \* bound: files opened
  MaxCrash      \* bound: crashes

ASSUME RotationAssumption ==
  /\ RotateNums \subseteq Nat \ {0} /\ RotateNums # {}
  /\ MayShrink \in BOOLEAN /\ EchoFails \in BOOLEAN
  /\ MaxGen \in Nat /\ MaxCrash \in Nat

VARIABLES
  pc,           \* position in onHandleLogPathbyId
  lastIdx,      \* content of RotateLastIdx: Absent, or the number atoi reads
  mCurrent,     \* the local of the same name
  files,        \* the files of the prefix
  gen,          \* generations opened so far
  rotateNum,    \* persist.asuslog.rotate.num
  crashes

vars == <<pc, lastIdx, mCurrent, files, gen, rotateNum, crashes>>

Absent == -1

\* rm -rf <prefix>_<idx>*: a number below 10 is written with a leading zero, a
\* larger one as it is, and the pattern also matches every longer number that
\* begins with it.
Matches(i, j) ==
  \/ i = j
  \/ /\ i >= 10
     /\ j >= 100
     /\ j \div 10 = i \/ j \div 100 = i

Init ==
  /\ pc = "idle"
  /\ lastIdx = Absent
  /\ mCurrent = 1
  /\ files = {}
  /\ gen = 0
  /\ rotateNum \in RotateNums
  /\ crashes = 0

\* Mutants: where the index wraps, and to what.
ReadIdxTo(wraps, first) ==
  /\ pc = "idle"
  /\ gen < MaxGen
  /\ mCurrent' = IF lastIdx = Absent THEN 1 ELSE IF wraps THEN first ELSE lastIdx + 1
  /\ pc' = IF lastIdx = Absent THEN "echo" ELSE "delete"
  /\ UNCHANGED <<lastIdx, files, gen, rotateNum, crashes>>
ReadIdxEarly == ReadIdxTo(lastIdx + 1 >= rotateNum, 1)
ReadIdxSticks == ReadIdxTo(lastIdx >= rotateNum, rotateNum)

\* Mutant: the index used last is removed.
DeleteLast ==
  /\ pc = "delete"
  /\ files' = {f \in files : ~Matches(lastIdx, f.idx)}
  /\ pc' = "echo"
  /\ UNCHANGED <<lastIdx, mCurrent, gen, rotateNum, crashes>>

\* The counter is read; without the file the index is 1 and nothing is removed.
ReadIdx ==
  /\ pc = "idle"
  /\ gen < MaxGen
  /\ \/ /\ lastIdx = Absent
        /\ mCurrent' = 1
        /\ pc' = "echo"
     \/ /\ lastIdx # Absent
        /\ mCurrent' = IF lastIdx >= rotateNum THEN 1 ELSE lastIdx + 1
        /\ pc' = "delete"
  /\ UNCHANGED <<lastIdx, files, gen, rotateNum, crashes>>

DeleteExist ==
  /\ pc = "delete"
  /\ files' = {f \in files : ~Matches(mCurrent, f.idx)}
  /\ pc' = "echo"
  /\ UNCHANGED <<lastIdx, mCurrent, gen, rotateNum, crashes>>

\* echo N > RotateLastIdx; on a full disk, or when the shell is killed between
\* truncating and writing, the file is left empty and atoi reads 0.
EchoIdx ==
  /\ pc = "echo"
  /\ \/ lastIdx' = mCurrent
     \/ EchoFails /\ lastIdx' = 0
  /\ pc' = "open"
  /\ UNCHANGED <<mCurrent, files, gen, rotateNum, crashes>>

OpenLog ==
  /\ pc = "open"
  /\ files' = files \cup {[idx |-> mCurrent, gen |-> gen + 1]}
  /\ gen' = gen + 1
  /\ pc' = "idle"
  /\ UNCHANGED <<lastIdx, mCurrent, rotateNum, crashes>>

\* The process is killed or the device restarts; the next start rotates again.
Crash ==
  /\ pc # "idle"
  /\ crashes < MaxCrash
  /\ crashes' = crashes + 1
  /\ pc' = "idle"
  /\ UNCHANGED <<lastIdx, mCurrent, files, gen, rotateNum>>

SetRotateNum(m) ==
  /\ IF MayShrink THEN m # rotateNum ELSE m > rotateNum
  /\ rotateNum' = m
  /\ UNCHANGED <<pc, lastIdx, mCurrent, files, gen, crashes>>

Next ==
  \/ ReadIdx \/ DeleteExist \/ EchoIdx \/ OpenLog \/ Crash
  \/ \E m \in RotateNums : SetRotateNum(m)

Spec == Init /\ [][Next]_vars

(***************************************************************************)
(* Properties.                                                             *)
(***************************************************************************)
\* Type invariant.
TypeOK ==
  /\ pc \in {"idle", "delete", "echo", "open"}
  /\ lastIdx \in Nat \cup {Absent}
  /\ mCurrent \in Nat \ {0}
  /\ files \subseteq [idx : Nat \ {0}, gen : 1..gen]
  /\ gen \in Nat
  /\ rotateNum \in RotateNums
  /\ crashes \in Nat

\* The rotated log is bounded: an index is never used by two files at a time,
\* and no index exceeds the largest value the property ever had, whatever
\* crashes, full disks or changes of the property happen.
Bounded ==
  /\ \A f, g \in files : f.idx = g.idx => f = g
  /\ \A f \in files : \E m \in RotateNums : f.idx <= m

\* deleteExistpathbyId only removes files older than everything it leaves.
OldestFirst ==
  [][\A f \in files \ files', g \in files' : f.gen < g.gen]_vars

\* With a limit of at least m all along, the newest m - 1 files are on disk, less
\* one for each crash: a process that dies inside onHandleLogPathbyId wastes at
\* most one index.
KeepsNewest ==
  \A m \in RotateNums : (\A k \in RotateNums : m <= k) =>
    \A n \in 1..gen : n > gen - (m - 1 - crashes) => \E f \in files : f.gen = n

\* The rotation with its counter file implements the abstract bounded log.
Abstract == INSTANCE BoundedLog WITH kept <- {f.gen : f \in files}
ImplementsBoundedLog == Abstract!Spec
=============================================================================
