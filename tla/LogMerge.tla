------------------------------ MODULE LogMerge ------------------------------
(***************************************************************************)
(* asuslogcat.cpp: readLogLines merges the entries of several log devices  *)
(* by their time stamps.  A device holds what was written and not yet      *)
(* read; a pass reads at most one entry of each device that select         *)
(* reports, and prints what no entry still to be read can precede: every   *)
(* queue keeps its last entry until nothing arrived for 5 ms.              *)
(*                                                                         *)
(* Entries are numbered in the order in which they are written.  The       *)
(* driver's stamps never decrease (the clock is not set back), and two     *)
(* entries may have the same.  Formatting, the line filter and the         *)
(* rotation of the output (LogRotation) are left out.                      *)
(***************************************************************************)
EXTENDS Integers, Sequences, FiniteSets, SequencesExt

CONSTANTS
  NumDevices,   \* the log devices, in the order of the -b options
  MergeOptions, \* the command lines: nonblock is -d, or -t with tail lines
  MaxEntries,   \* bound: entries written
  MaxClears     \* bound: buffers cleared by another process

ASSUME LogMergeAssumption ==
  /\ NumDevices \in Nat \ {0} /\ MaxEntries \in Nat /\ MaxClears \in Nat
  /\ \A o \in MergeOptions : o \in [nonblock : BOOLEAN, tail : Nat] /\ (o.tail > 0 => o.nonblock)

VARIABLES
  options,      \* g_nonblock and g_tail_lines
  written,      \* the device and the stamp of every entry
  buffer,       \* a device's entries that are still to be read
  queue,        \* its entries that were read
  mergeAt,      \* "select", "read", "print", "flush", "ended" or "failed"
  readset,      \* the devices select reported that the pass has still to read
  sleep, queued_lines,
  printed,      \* the entries printed
  cut,          \* history: whether a pass left a device unread of which nothing is queued,
  clears        \* and how many buffers were cleared

mergeInputs == <<options, written, clears>>
mergeVars == <<mergeInputs, buffer, queue, mergeAt, readset, sleep, queued_lines, printed, cut>>

Devices == 1..NumDevices
Stamp(e) == written[e].stamp

MergeInit ==
  /\ options \in MergeOptions
  /\ written = <<>>
  /\ buffer = [d \in Devices |-> <<>>] /\ queue = [d \in Devices |-> <<>>]
  /\ mergeAt = "select" /\ readset = {} /\ sleep = FALSE /\ queued_lines = 0
  /\ printed = <<>> /\ cut = FALSE /\ clears = 0

(***************************************************************************)
(* The world: processes that log, and an asuslogcat -c.                    *)
(***************************************************************************)
WriteEntry(d) ==
  /\ Len(written) < MaxEntries
  /\ \E later \in {0, 1} :
       written' = Append(written,
         [dev |-> d, stamp |-> later + (IF written = <<>> THEN 0 ELSE Last(written).stamp)])
  /\ buffer' = [buffer EXCEPT ![d] = Append(@, Len(written) + 1)]
  /\ UNCHANGED <<options, clears, queue, mergeAt, readset, sleep, queued_lines, printed, cut>>

ClearBuffer(d) ==
  /\ clears < MaxClears /\ buffer[d] # <<>>
  /\ buffer' = [buffer EXCEPT ![d] = <<>>]
  /\ clears' = clears + 1
  /\ UNCHANGED <<options, written, queue, mergeAt, readset, sleep, queued_lines, printed, cut>>

(***************************************************************************)
(* readLogLines.                                                           *)
(***************************************************************************)
\* enqueue: before the first entry with a later stamp.
Enqueued(q, e) ==
  InsertAt(q, Min({i \in 1..Len(q) + 1 : i <= Len(q) => Stamp(e) < Stamp(q[i])}), e)

Waiting == {d \in Devices : queue[d] # <<>>}

\* chooseFirst: the first device whose oldest entry has the smallest stamp.
ChooseFirst ==
  LET stamp(d) == Stamp(Head(queue[d]))
  IN CHOOSE d \in Waiting : \A e \in Waiting : stamp(d) < stamp(e) \/ (stamp(d) = stamp(e) /\ d <= e)

\* select: without sleep it gives up after 5 ms.
Select ==
  LET ready == {d \in Devices : buffer[d] # <<>>}
  IN /\ mergeAt = "select"
     /\ \/ /\ ready # {}
           /\ mergeAt' = "read" /\ readset' = ready /\ UNCHANGED sleep
        \/ /\ ready = {} /\ ~sleep
           /\ mergeAt' = "flush" /\ sleep' = TRUE /\ UNCHANGED readset
     /\ UNCHANGED <<mergeInputs, buffer, queue, queued_lines, printed, cut>>

\* One entry of the next device.
ReadEntry ==
  /\ mergeAt = "read" /\ readset # {}
  /\ LET d == Min(readset)
     IN /\ buffer[d] # <<>>
        /\ queue' = [queue EXCEPT ![d] = Enqueued(@, Head(buffer[d]))]
        /\ buffer' = [buffer EXCEPT ![d] = Tail(@)]
        /\ readset' = readset \ {d}
  /\ queued_lines' = queued_lines + 1
  /\ UNCHANGED <<mergeInputs, mergeAt, sleep, printed, cut>>

\* EINTR: goto next, and sleep stays as it was.
ReadInterrupted ==
  /\ mergeAt = "read" /\ readset # {}
  /\ mergeAt' = "select" /\ readset' = {}
  /\ UNCHANGED <<mergeInputs, buffer, queue, sleep, queued_lines, printed, cut>>

\* EAGAIN, from a device that was cleared: the rest of the pass reads nothing.
\* (The devices are opened for blocking reads, which wait instead.)
ReadAgain ==
  /\ mergeAt = "read" /\ readset # {} /\ buffer[Min(readset)] = <<>>
  /\ readset' = {}
  /\ cut' = (cut \/ \E d \in readset : buffer[d] # <<>> /\ queue[d] = <<>>)
  /\ UNCHANGED <<mergeInputs, buffer, queue, mergeAt, sleep, queued_lines, printed>>

\* Mutant: after a pass select waits for more without a time-out.
PassReadSleeps ==
  /\ mergeAt = "read" /\ readset = {}
  /\ mergeAt' = "print"
  /\ UNCHANGED <<mergeInputs, buffer, queue, readset, sleep, queued_lines, printed, cut>>

PassRead ==
  /\ mergeAt = "read" /\ readset = {}
  /\ mergeAt' = "print" /\ sleep' = FALSE
  /\ UNCHANGED <<mergeInputs, buffer, queue, readset, queued_lines, printed, cut>>

\* Mutant: queued_lines is not lowered.
DequeueUncounted(d, print) ==
  /\ printed' = IF print THEN Append(printed, Head(queue[d])) ELSE printed
  /\ queue' = [queue EXCEPT ![d] = Tail(@)]
  /\ UNCHANGED <<mergeAt, queued_lines>>

\* printNextEntry, or skipNextEntry alone.
Dequeue(d, print) ==
  /\ printed' = IF print THEN Append(printed, Head(queue[d])) ELSE printed
  /\ queue' = [queue EXCEPT ![d] = Tail(@)]
  /\ queued_lines' = queued_lines - 1
  /\ UNCHANGED mergeAt

\* Mutant: the last entry of a queue is printed too.
PrintablesAll == (options.tail = 0 \/ queued_lines > options.tail) /\ Waiting # {}

\* The loop after a pass goes on.
Printables ==
  /\ options.tail = 0 \/ queued_lines > options.tail
  /\ Waiting # {} /\ Len(queue[ChooseFirst]) > 1

PrintPass ==
  /\ mergeAt = "print"
  /\ IF Printables
     THEN Dequeue(ChooseFirst, options.tail = 0)
     ELSE mergeAt' = "select" /\ UNCHANGED <<queue, queued_lines, printed>>
  /\ UNCHANGED <<mergeInputs, buffer, readset, sleep, cut>>

Flush ==
  /\ mergeAt = "flush"
  /\ IF Waiting # {}
     THEN Dequeue(ChooseFirst, options.tail = 0 \/ queued_lines <= options.tail)
     ELSE /\ mergeAt' = IF options.nonblock THEN "ended" ELSE "select"
          /\ UNCHANGED <<queue, queued_lines, printed>>
  /\ UNCHANGED <<mergeInputs, buffer, readset, sleep, cut>>

\* exit: another error of read, or of write.
Fail ==
  /\ mergeAt \in {"read", "print", "flush"}
  /\ mergeAt' = "failed"
  /\ UNCHANGED <<mergeInputs, buffer, queue, readset, sleep, queued_lines, printed, cut>>

ReadLogLines == Select \/ ReadEntry \/ PassRead \/ PrintPass \/ Flush

MergeNext ==
  \/ \E d \in Devices : WriteEntry(d) \/ ClearBuffer(d)
  \/ ReadLogLines \/ ReadInterrupted \/ ReadAgain \/ Fail

\* The program runs, and not every read is interrupted.  Nothing promises that
\* the read of a cleared device returns.
MergeSpec ==
  /\ MergeInit /\ [][MergeNext]_mergeVars
  /\ WF_mergeVars(ReadLogLines) /\ SF_mergeVars(ReadEntry)

(***************************************************************************)
(* Properties.                                                             *)
(***************************************************************************)
\* The entries that are still to be read, and those that were read and not dequeued.
Listed(lists) == UNION {Range(lists[d]) : d \in Devices}
Buffered == Listed(buffer)
Queued == Listed(queue)

\* Type invariant; queued_lines counts what the queues hold.
MergeTypeOK ==
  /\ options \in MergeOptions
  /\ written \in Seq([dev : Devices, stamp : Nat])
  /\ buffer \in [Devices -> Seq(DOMAIN written)] /\ queue \in [Devices -> Seq(DOMAIN written)]
  /\ mergeAt \in {"select", "read", "print", "flush", "ended", "failed"}
  /\ readset \subseteq Devices /\ sleep \in BOOLEAN
  /\ queued_lines = Cardinality(Queued)
  /\ printed \in Seq(DOMAIN written)
  /\ cut \in BOOLEAN /\ clears \in 0..MaxClears

\* The output is in order however writers, passes, interrupted reads and cleared
\* devices interleave: stamps never decrease and a device's entries keep their order.
\* Without -t no entry that was read is dropped, and -t ends with the last lines of
\* all that was read.  (When a cleared device cuts a pass short, an entry that was
\* left unread may be printed after a later one of another device.)
PrintsInOrder ==
  /\ ~cut =>
       \A i, j \in DOMAIN printed : i < j =>
         \/ Stamp(printed[i]) < Stamp(printed[j])
         \/ /\ Stamp(printed[i]) = Stamp(printed[j])
            /\ written[printed[i]].dev = written[printed[j]].dev => printed[i] < printed[j]
  /\ clears = 0 =>
       LET read == DOMAIN written \ Buffered
       IN /\ options.tail = 0 => Len(printed) + queued_lines = Cardinality(read)
          /\ mergeAt = "ended" /\ options.tail > 0 =>
               /\ Len(printed) = Min({options.tail, Cardinality(read)})
               /\ \A e \in read \ Range(printed), p \in Range(printed) : Stamp(e) <= Stamp(p)

\* No entry is kept back: though each queue keeps its last entry, without -d and -t
\* all that was written is printed when the writers pause, unless it was cleared.
Printed == DOMAIN written \subseteq Range(printed)
AllPrinted == (~Printed /\ ~options.nonblock) ~> (Printed \/ clears > 0 \/ mergeAt = "failed")
=============================================================================
