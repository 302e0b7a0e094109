------------------------------ MODULE KmsgCopy ------------------------------
(***************************************************************************)
(* dumpkmsg.cpp: log_loop reads the kernel's messages in chunks and writes *)
(* them line by line, each after a time mark.  A chunk ends where the      *)
(* buffer was full or the kernel had no more, so it may end inside a line. *)
(* A byte is "nl" or "c"; positions count from 0 as in the code.           *)
(***************************************************************************)
EXTENDS Integers, Sequences

CONSTANT MaxBytes     \* sizeof(kbuffer)

ASSUME KmsgCopyAssumption == MaxBytes \in Nat

VARIABLES
  kmsgAt,       \* "read", "scan" or "exit"
  kbuffer,      \* the chunk
  scan, cur,    \* the loop's i, and the first byte not yet written
  logged,       \* the positions of the chunk written, in order
  marks,        \* the positions before which a time mark was written
  kmsgFailed    \* history: a write of this chunk failed

kmsgVars == <<kmsgAt, kbuffer, scan, cur, logged, marks, kmsgFailed>>

Bytes == Len(kbuffer)
Byte(i) == kbuffer[i + 1]

KmsgInit ==
  /\ kmsgAt = "read" /\ kbuffer = <<>>
  /\ scan = 0 /\ cur = 0 /\ logged = <<>> /\ marks = {} /\ kmsgFailed = FALSE

\* klogctl waits for at least one byte; EINTR reads again, another error ends.
ReadKernel ==
  /\ kmsgAt = "read"
  /\ \/ /\ \E n \in 1..MaxBytes : kbuffer' \in [1..n -> {"c", "nl"}]
        /\ kmsgAt' = "scan"
        /\ scan' = 0 /\ cur' = 0 /\ logged' = <<>> /\ marks' = {} /\ kmsgFailed' = FALSE
     \/ /\ kmsgAt' = "exit"
        /\ UNCHANGED <<kbuffer, scan, cur, logged, marks, kmsgFailed>>

\* write_message: a mark that cannot be written ends the program; a line that
\* cannot be written is lost, and 0 is returned all the same.
WriteMessage(first, last) ==
  \/ /\ logged' = logged \o [k \in 1..(last - first + 1) |-> first + k - 1]
     /\ marks' = marks \cup {first}
     /\ UNCHANGED <<kmsgAt, kmsgFailed>>
  \/ /\ marks' = marks \cup {first} /\ kmsgFailed' = TRUE
     /\ UNCHANGED <<kmsgAt, logged>>
  \/ kmsgAt' = "exit" /\ kmsgFailed' = TRUE /\ UNCHANGED <<logged, marks>>

\* Mutant: only a newline ends a message.
LineEndsNewline(i) == Byte(i) = "nl"

LineEnds(i) == Byte(i) = "nl" \/ i = Bytes - 1

\* The loop; after a message i is incremented in the body and by the for.
Scan ==
  /\ kmsgAt = "scan" /\ scan < Bytes
  /\ IF LineEnds(scan)
     THEN WriteMessage(cur, scan) /\ cur' = scan + 1 /\ scan' = scan + 2
     ELSE scan' = scan + 1 /\ UNCHANGED <<kmsgAt, cur, logged, marks, kmsgFailed>>
  /\ UNCHANGED kbuffer

ScanEnd ==
  /\ kmsgAt = "scan" /\ scan >= Bytes
  /\ kmsgAt' = "read"
  /\ UNCHANGED <<kbuffer, scan, cur, logged, marks, kmsgFailed>>

KmsgNext == ReadKernel \/ Scan \/ ScanEnd

KmsgSpec == KmsgInit /\ [][KmsgNext]_kmsgVars

(***************************************************************************)
(* Properties.                                                             *)
(***************************************************************************)
\* Type invariant.
KmsgTypeOK ==
  /\ kmsgAt \in {"read", "scan", "exit"}
  /\ kbuffer \in Seq({"c", "nl"}) /\ Bytes <= MaxBytes
  /\ scan \in 0..MaxBytes + 1 /\ cur \in 0..Bytes
  /\ marks \subseteq 0..Bytes - 1 /\ kmsgFailed \in BOOLEAN

\* What the byte skipped after every message costs: a chunk is written once and in
\* order, except for a last byte that directly follows a newline, and every line has
\* its own mark, except one that follows an empty line.
KmsgLosesLittle ==
  kmsgAt = "read" /\ ~kmsgFailed =>
    LET n == Len(logged)
    IN /\ logged = [k \in 1..n |-> k - 1]
       /\ n = Bytes \/ (n = Bytes - 1 /\ n > 0 /\ Byte(n - 1) = "nl")
       /\ \A p \in 0..n - 2 : Byte(p) = "nl" => p + 1 \in marks \/ p \in marks
=============================================================================
