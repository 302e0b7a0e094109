--------------------------- MODULE LogMergeProofs ---------------------------
(***************************************************************************)
(* The two programs that copy logs to the output.  asuslogcat prints in    *)
(* order: for any number of devices, entries, cleared buffers and          *)
(* interrupted reads, and any number of lines asked for.  dumpkmsg copies  *)
(* any chunk but for its last byte.  At the end, both and the switches     *)
(* together (MCLogs).                                                      *)
(***************************************************************************)
EXTENDS MCLogs, DumpServiceProofs, FiniteSetTheorems, SequenceTheorems,
        WellFoundedInduction

(***************************************************************************)
(* The inductive invariant.                                                *)
(***************************************************************************)
\* x may be printed before y.
Before(x, y) ==
  \/ Stamp(x) < Stamp(y)
  \/ Stamp(x) = Stamp(y) /\ (written[x].dev = written[y].dev => x < y)

\* The driver's stamps never decrease.
StampInv == \A x, y \in DOMAIN written : x <= y => Stamp(x) <= Stamp(y)

\* A device's entries, read or not, are in the order in which they were written.
DeviceInv(d) ==
  /\ \A k \in 1..Len(buffer[d]) : written[buffer[d][k]].dev = d
  /\ \A k \in 1..Len(queue[d]) : written[queue[d][k]].dev = d
  /\ \A k, l \in 1..Len(buffer[d]) : k < l => buffer[d][k] < buffer[d][l]
  /\ \A k, l \in 1..Len(queue[d]) : k < l => queue[d][k] < queue[d][l]
  /\ \A k \in 1..Len(queue[d]), l \in 1..Len(buffer[d]) : queue[d][k] < buffer[d][l]

\* Entry k of device c is not the last one, or was read before this pass.
Earlier(c, k) == k < Len(queue[c]) \/ c \in readset

\* A device that the pass has read or left out, and of which nothing is queued, holds
\* only entries that are younger than all that was read before the pass; when select
\* gave up, than all that was read.
PassInv ==
  /\ mergeAt \in {"read", "print"} =>
       \A d \in Devices \ readset : queue[d] = <<>> =>
         \A l \in 1..Len(buffer[d]), c \in Devices : \A k \in 1..Len(queue[c]) :
           Earlier(c, k) => queue[c][k] < buffer[d][l]
  /\ mergeAt = "flush" => \A x \in Queued, y \in Buffered : x < y

OrderInv ==
  /\ \A i, j \in 1..Len(printed) : i < j => Before(printed[i], printed[j])
  /\ \A i \in 1..Len(printed), e \in Queued \cup Buffered : Before(printed[i], e)

\* Without -c every device that select reported still holds an entry.
ClearInv == clears = 0 => ~cut /\ (mergeAt = "read" => \A d \in readset : buffer[d] # <<>>)

ReadsInv == mergeAt \notin {"read", "failed"} => readset = {}

\* What was read, when nothing was cleared.
WasRead == DOMAIN written \ Buffered
Kept == Len(printed) + queued_lines

TailInv ==
  /\ options.tail = 0 => Kept = Cardinality(WasRead)
  /\ options.tail > 0 =>
       /\ Kept <= Cardinality(WasRead)
       /\ Kept = Cardinality(WasRead) \/ Kept >= options.tail
       /\ printed # <<>> => Kept <= options.tail /\ mergeAt \notin {"select", "read", "print"}
       /\ mergeAt = "ended" => Queued = {}
       /\ \A e \in WasRead \ (Queued \cup Range(printed)), z \in Queued \cup Buffered \cup Range(printed) :
            Stamp(e) <= Stamp(z)

MergeInv ==
  /\ MergeTypeOK /\ StampInv /\ ReadsInv /\ ClearInv
  /\ \A d \in Devices : DeviceInv(d)
  /\ ~cut => PassInv /\ OrderInv
  /\ clears = 0 => TailInv

(***************************************************************************)
(* Least elements.                                                         *)
(***************************************************************************)
Less == {r \in Nat \X Nat : r[1] < r[2]}

LEMMA LessWellFounded == IsWellFoundedOn(Less, Nat)
BY NatLessThanWellFounded DEF OpToRel, Less

LEMMA LeastNat ==
  ASSUME NEW T, T \subseteq Nat, T # {}
  PROVE  \E x \in T : \A y \in T : x <= y
<1>1. PICK x \in T : \A y \in T : ~(<<y, x>> \in Less)
  BY LessWellFounded, WFMin
<1>2. ASSUME NEW y \in T, y < x PROVE FALSE
  <2>1. <<y, x>> \in Less
    BY <1>2 DEF Less
  <2> QED BY <1>1, <2>1
<1>3. \A y \in T : x <= y
  BY <1>2
<1> QED BY <1>3

LEMMA MinFacts ==
  ASSUME NEW T, T \subseteq Nat, T # {}
  PROVE  Min(T) \in T /\ \A y \in T : Min(T) <= y
BY LeastNat DEF Min

LEMMA StampNat ==
  ASSUME MergeTypeOK, NEW e \in DOMAIN written
  PROVE  e \in Nat \ {0} /\ e <= Len(written) /\ Stamp(e) \in Nat
<1>1. written \in Seq([dev : Devices, stamp : Nat])
  BY DEF MergeTypeOK
<1>2. DOMAIN written = 1..Len(written) /\ Len(written) \in Nat
  BY <1>1
<1>3. e \in 1..Len(written) /\ e \in Nat \ {0}
  BY <1>2
<1>4. written[e] \in [dev : Devices, stamp : Nat]
  BY <1>1, <1>3, ElementOfSeq
<1>5. written[e].stamp \in Nat
  BY <1>4
<1> QED BY <1>2, <1>3, <1>5 DEF Stamp

\* The first device with the smallest stamp exists.
LEMMA FirstFacts ==
  ASSUME MergeTypeOK, Waiting # {}
  PROVE  /\ ChooseFirst \in Devices /\ queue[ChooseFirst] # <<>>
         /\ \A d \in Devices : queue[d] # <<>> =>
              Stamp(queue[ChooseFirst][1]) <= Stamp(queue[d][1])
<1> DEFINE stamp(d) == Stamp(Head(queue[d]))
           Stampset == {stamp(d) : d \in Waiting}
           First(d) == \A e \in Waiting : stamp(d) < stamp(e) \/ (stamp(d) = stamp(e) /\ d <= e)
<1>1. \A d \in Waiting : d \in Nat /\ stamp(d) \in Nat /\ stamp(d) = Stamp(queue[d][1])
  <2> SUFFICES ASSUME NEW d \in Waiting
               PROVE  d \in Nat /\ stamp(d) \in Nat /\ stamp(d) = Stamp(queue[d][1])
    OBVIOUS
  <2>1. d \in Devices /\ queue[d] \in Seq(DOMAIN written) /\ queue[d] # <<>>
    BY DEF MergeTypeOK, Waiting
  <2>2. Head(queue[d]) = queue[d][1] /\ Head(queue[d]) \in DOMAIN written
    BY <2>1
  <2>3. stamp(d) \in Nat
    BY <2>2, StampNat
  <2> QED BY <2>1, <2>2, <2>3, LogMergeAssumption DEF Devices
<1> HIDE DEF stamp
<1>2. PICK m \in Stampset : \A n \in Stampset : m <= n
  <2>1. Stampset \subseteq Nat /\ Stampset # {}
    BY <1>1
  <2> QED BY <2>1, LeastNat
<1>3. PICK d \in {e \in Waiting : stamp(e) = m} : \A e \in {b \in Waiting : stamp(b) = m} : d <= e
  <2>1. {e \in Waiting : stamp(e) = m} \subseteq Nat /\ {e \in Waiting : stamp(e) = m} # {}
    BY <1>1, <1>2
  <2> QED BY <2>1, LeastNat
<1>4. d \in Waiting /\ First(d)
  <2> SUFFICES ASSUME NEW e \in Waiting
               PROVE  stamp(d) < stamp(e) \/ (stamp(d) = stamp(e) /\ d <= e)
    BY <1>3
  <2>1. stamp(d) = m /\ m <= stamp(e) /\ m \in Nat /\ stamp(e) \in Nat
    BY <1>1, <1>2, <1>3
  <2> QED BY <1>3, <2>1
<1>5. ChooseFirst = CHOOSE b \in Waiting : First(b)
  BY DEF ChooseFirst, stamp
<1>6. ChooseFirst \in Waiting /\ First(ChooseFirst)
  BY <1>4, <1>5
<1>7. \A e \in Waiting : Stamp(queue[ChooseFirst][1]) <= Stamp(queue[e][1])
  BY <1>1, <1>6
<1> QED BY <1>6, <1>7 DEF Waiting

\* An entry whose stamp is not smaller than the queued ones goes to the end.
LEMMA EnqueuedLast ==
  ASSUME NEW S, NEW q \in Seq(S), NEW e \in S,
         \A i \in 1..Len(q) : Stamp(q[i]) \in Nat /\ Stamp(e) \in Nat /\ Stamp(q[i]) <= Stamp(e)
  PROVE  Enqueued(q, e) = Append(q, e)
<1> DEFINE T == {i \in 1..Len(q) + 1 : i <= Len(q) => Stamp(e) < Stamp(q[i])}
           n == Len(q) + 1
<1>1. Len(q) \in Nat
  OBVIOUS
<1>2. T = {n}
  BY <1>1
<1>3. Min(T) = n
  BY <1>2 DEF Min
<1>4. Enqueued(q, e) = SubSeq(q, 1, n - 1) \o <<e>> \o SubSeq(q, n, Len(q))
  BY <1>3 DEF Enqueued, InsertAt
<1>5. SubSeq(q, 1, n - 1) = q /\ SubSeq(q, n, Len(q)) = <<>>
  BY <1>1
<1>6. q \o <<e>> = Append(q, e) /\ Append(q, e) \o <<>> = Append(q, e)
  OBVIOUS
<1> QED BY <1>4, <1>5, <1>6

(***************************************************************************)
(* Entries in queues and buffers.                                          *)
(***************************************************************************)
LEMMA RangeFacts ==
  ASSUME NEW S, NEW s \in Seq(S)
  PROVE  /\ Len(s) \in Nat /\ Range(s) \subseteq S
         /\ \A x : x \in Range(s) <=> \E k \in 1..Len(s) : x = s[k]
BY DEF Range

\* One list for every device.
Lists(S) == [Devices -> Seq(S)]

\* From f to g only the list of device c changes.
OthersSame(f, g, c) == \A d \in Devices : d # c => g[d] = f[d]

\* The first entry of c's list is in no other place.
Single(f, c) ==
  \A d \in Devices : \A k \in 1..Len(f[d]) : f[d][k] = f[c][1] => d = c /\ k = 1

LEMMA ListedFacts ==
  ASSUME NEW S, NEW f \in Lists(S)
  PROVE  /\ \A x : x \in Listed(f) <=> \E d \in Devices : \E k \in 1..Len(f[d]) : x = f[d][k]
         /\ Listed(f) \subseteq S
<1>1. \A d \in Devices : f[d] \in Seq(S)
  BY DEF Lists
<1>2. \A d \in Devices : \A x : x \in Range(f[d]) <=> \E k \in 1..Len(f[d]) : x = f[d][k]
  BY <1>1, RangeFacts
<1>3. ASSUME NEW x PROVE x \in Listed(f) <=> \E d \in Devices : x \in Range(f[d])
  BY Zenon DEF Listed
<1>4. ASSUME NEW x
      PROVE  (\E d \in Devices : x \in Range(f[d])) <=> (\E d \in Devices : \E k \in 1..Len(f[d]) : x = f[d][k])
  <2>1. \A d \in Devices : x \in Range(f[d]) <=> \E k \in 1..Len(f[d]) : x = f[d][k]
    BY <1>2, Zenon
  <2> QED BY <2>1, Zenon
<1>5. \A d \in Devices : Range(f[d]) \subseteq S
  BY <1>1, RangeFacts
<1>6. Listed(f) \subseteq S
  BY <1>3, <1>5
<1> QED BY <1>3, <1>4, <1>6, Zenon

\* A list loses its first entry.
LEMMA HeadOut ==
  ASSUME NEW S, NEW f \in Lists(S), NEW c \in Devices, f[c] # <<>>,
         Single(f, c),
         NEW g \in Lists(S), g[c] = Tail(f[c]), OthersSame(f, g, c)
  PROVE  /\ Len(f[c]) \in Nat \ {0} /\ Head(f[c]) = f[c][1] /\ f[c][1] \in S
         /\ Len(g[c]) = Len(f[c]) - 1
         /\ \A k \in 1..Len(g[c]) : g[c][k] = f[c][k + 1]
         /\ f[c][1] \in Listed(f) /\ Listed(g) = Listed(f) \ {f[c][1]}
<1> DEFINE q == f[c]
           x == q[1]
<1>1. q \in Seq(S) /\ Len(q) \in Nat \ {0} /\ q # <<>>
  BY DEF Lists
<1>2. /\ Head(q) = x /\ x \in S /\ Tail(q) \in Seq(S) /\ Len(Tail(q)) = Len(q) - 1
      /\ \A k \in 1..Len(Tail(q)) : Tail(q)[k] = q[k + 1]
  BY <1>1
<1>3. g[c] = Tail(q) /\ \A d \in Devices : d # c => g[d] = f[d]
  BY DEF OthersSame
<1>5. \A y : y \in Listed(f) <=> \E d \in Devices : \E k \in 1..Len(f[d]) : y = f[d][k]
  BY ListedFacts
<1>6. \A y : y \in Listed(g) <=> \E d \in Devices : \E k \in 1..Len(g[d]) : y = g[d][k]
  BY ListedFacts
<1>7. x \in Listed(f)
  BY <1>1, <1>5
<1>8. ASSUME NEW y \in Listed(g) PROVE y \in Listed(f) /\ y # x
  <2>1. PICK d \in Devices : \E k \in 1..Len(g[d]) : y = g[d][k]
    BY <1>6
  <2>2. PICK k \in 1..Len(g[d]) : y = g[d][k]
    BY <2>1
  <2>3. CASE d = c
    <3>1. k \in 1..Len(Tail(q)) /\ y = Tail(q)[k]
      BY <1>3, <2>2, <2>3
    <3>2. y = q[k + 1]
      BY <1>2, <3>1
    <3>3. k + 1 \in 1..Len(q) /\ k + 1 # 1
      BY <1>1, <1>2, <3>1
    <3> QED BY <1>5, <3>2, <3>3 DEF Single
  <2>4. CASE d # c
    <3>1. k \in 1..Len(f[d]) /\ y = f[d][k]
      BY <1>3, <2>2, <2>4
    <3> QED BY <1>5, <2>4, <3>1 DEF Single
  <2> QED BY <2>3, <2>4
<1>9. ASSUME NEW y \in Listed(f), y # x PROVE y \in Listed(g)
  <2>1. PICK d \in Devices : \E k \in 1..Len(f[d]) : y = f[d][k]
    BY <1>5
  <2>2. PICK k \in 1..Len(f[d]) : y = f[d][k]
    BY <2>1
  <2>3. CASE d = c
    <3>1. k # 1 /\ k - 1 \in 1..Len(Tail(q)) /\ Tail(q)[k - 1] = q[k]
      BY <1>1, <1>2, <1>9, <2>2, <2>3
    <3>2. k - 1 \in 1..Len(g[c]) /\ y = g[c][k - 1]
      BY <1>3, <2>2, <2>3, <3>1
    <3> QED BY <1>6, <3>2
  <2>4. CASE d # c
    <3>1. k \in 1..Len(g[d]) /\ y = g[d][k]
      BY <1>3, <2>2, <2>4
    <3> QED BY <1>6, <3>1
  <2> QED BY <2>3, <2>4
<1>10. Listed(g) = Listed(f) \ {x}
  BY <1>8, <1>9
<1> QED BY <1>1, <1>2, <1>3, <1>7, <1>10

\* A list gains an entry at its end.
LEMMA EntryIn ==
  ASSUME NEW S, NEW f \in Lists(S), NEW c \in Devices, NEW e \in S,
         NEW g \in Lists(S), g[c] = Append(f[c], e), OthersSame(f, g, c)
  PROVE  /\ Len(f[c]) \in Nat /\ Len(g[c]) = Len(f[c]) + 1
         /\ \A k \in 1..Len(f[c]) : g[c][k] = f[c][k]
         /\ g[c][Len(f[c]) + 1] = e
         /\ Listed(g) = Listed(f) \cup {e}
<1> DEFINE q == f[c]
           n == Len(f[c])
<1>1. q \in Seq(S) /\ n \in Nat
  BY DEF Lists
<1>2. /\ Append(q, e) \in Seq(S) /\ Len(Append(q, e)) = n + 1
      /\ Append(q, e)[n + 1] = e /\ \A k \in 1..n : Append(q, e)[k] = q[k]
  BY <1>1
<1>3. g[c] = Append(q, e) /\ \A d \in Devices : d # c => g[d] = f[d]
  BY DEF OthersSame
<1>5. \A y : y \in Listed(f) <=> \E d \in Devices : \E k \in 1..Len(f[d]) : y = f[d][k]
  BY ListedFacts
<1>6. \A y : y \in Listed(g) <=> \E d \in Devices : \E k \in 1..Len(g[d]) : y = g[d][k]
  BY ListedFacts
<1>7. ASSUME NEW y \in Listed(g) PROVE y \in Listed(f) \cup {e}
  <2>1. PICK d \in Devices : \E k \in 1..Len(g[d]) : y = g[d][k]
    BY <1>6
  <2>2. PICK k \in 1..Len(g[d]) : y = g[d][k]
    BY <2>1
  <2>3. CASE d = c
    <3>1. k \in 1..n + 1 /\ y = Append(q, e)[k]
      BY <1>2, <1>3, <2>2, <2>3
    <3>2. k \in 1..n \/ k = n + 1
      BY <1>1, <3>1
    <3>3. (k \in 1..n /\ y = q[k]) \/ y = e
      BY <1>2, <3>1, <3>2
    <3> QED BY <1>5, <3>3
  <2>4. CASE d # c
    <3>1. k \in 1..Len(f[d]) /\ y = f[d][k]
      BY <1>3, <2>2, <2>4
    <3> QED BY <1>5, <3>1
  <2> QED BY <2>3, <2>4
<1>8. ASSUME NEW y \in Listed(f) PROVE y \in Listed(g)
  <2>1. PICK d \in Devices : \E k \in 1..Len(f[d]) : y = f[d][k]
    BY <1>5
  <2>2. PICK k \in 1..Len(f[d]) : y = f[d][k]
    BY <2>1
  <2>3. CASE d = c
    <3>1. k \in 1..n /\ y = q[k]
      BY <2>2, <2>3
    <3>2. k \in 1..Len(g[c]) /\ y = g[c][k]
      BY <1>1, <1>2, <1>3, <3>1
    <3> QED BY <1>6, <3>2
  <2>4. CASE d # c
    <3>1. k \in 1..Len(g[d]) /\ y = g[d][k]
      BY <1>3, <2>2, <2>4
    <3> QED BY <1>6, <3>1
  <2> QED BY <2>3, <2>4
<1>9. e \in Listed(g)
  <2>1. n + 1 \in 1..Len(g[c]) /\ e = g[c][n + 1]
    BY <1>1, <1>2, <1>3
  <2> QED BY <1>6, <2>1
<1>10. Listed(g) = Listed(f) \cup {e}
  BY <1>7, <1>8, <1>9
<1> QED BY <1>1, <1>2, <1>3, <1>10

LEMMA TypeFacts ==
  ASSUME MergeTypeOK
  PROVE  /\ DOMAIN written = 1..Len(written) /\ Len(written) \in Nat
         /\ queue \in [Devices -> Seq(DOMAIN written)]
         /\ buffer \in [Devices -> Seq(DOMAIN written)]
         /\ \A d \in Devices : Len(queue[d]) \in Nat /\ (queue[d] # <<>> <=> Len(queue[d]) > 0)
         /\ \A d \in Devices : \A k \in 1..Len(queue[d]) : queue[d][k] \in 1..Len(written)
         /\ \A d \in Devices : Len(buffer[d]) \in Nat /\ (buffer[d] # <<>> <=> Len(buffer[d]) > 0)
         /\ \A d \in Devices : \A k \in 1..Len(buffer[d]) : buffer[d][k] \in 1..Len(written)
         /\ Len(printed) \in Nat
         /\ \A k \in 1..Len(printed) : printed[k] \in 1..Len(written)
<1>1. written \in Seq([dev : Devices, stamp : Nat])
  BY DEF MergeTypeOK
<1>2. DOMAIN written = 1..Len(written) /\ Len(written) \in Nat
  BY <1>1
<1> DEFINE T == DOMAIN written
<1> HIDE DEF T
<1>3. queue \in [Devices -> Seq(T)] /\ buffer \in [Devices -> Seq(T)] /\ printed \in Seq(T)
  BY DEF MergeTypeOK, T
<1>4. /\ \A d \in Devices : Len(queue[d]) \in Nat /\ (queue[d] # <<>> <=> Len(queue[d]) > 0)
      /\ \A d \in Devices : \A k \in 1..Len(queue[d]) : queue[d][k] \in T
  BY <1>3
<1>5. /\ \A d \in Devices : Len(buffer[d]) \in Nat /\ (buffer[d] # <<>> <=> Len(buffer[d]) > 0)
      /\ \A d \in Devices : \A k \in 1..Len(buffer[d]) : buffer[d][k] \in T
  BY <1>3
<1>6. Len(printed) \in Nat /\ \A k \in 1..Len(printed) : printed[k] \in T
  BY <1>3
<1>7. T = 1..Len(written)
  BY <1>2 DEF T
<1> QED BY <1>2, <1>3, <1>4, <1>5, <1>6, <1>7 DEF T

LEMMA SetFacts ==
  ASSUME MergeTypeOK
  PROVE  /\ \A x : x \in Queued <=> \E d \in Devices : \E k \in 1..Len(queue[d]) : x = queue[d][k]
         /\ \A x : x \in Buffered <=> \E d \in Devices : \E k \in 1..Len(buffer[d]) : x = buffer[d][k]
         /\ Queued \subseteq 1..Len(written) /\ IsFiniteSet(Queued)
         /\ Buffered \subseteq 1..Len(written)
         /\ WasRead \subseteq 1..Len(written) /\ IsFiniteSet(WasRead)
         /\ queued_lines \in Nat /\ Cardinality(WasRead) \in Nat
<1>1. /\ \A x : x \in Queued <=> \E d \in Devices : \E k \in 1..Len(queue[d]) : x = queue[d][k]
      /\ Queued \subseteq 1..Len(written)
  BY TypeFacts, ListedFacts DEF Queued, Lists
<1>2. /\ \A x : x \in Buffered <=> \E d \in Devices : \E k \in 1..Len(buffer[d]) : x = buffer[d][k]
      /\ Buffered \subseteq 1..Len(written)
  BY TypeFacts, ListedFacts DEF Buffered, Lists
<1>6. WasRead \subseteq 1..Len(written)
  BY TypeFacts DEF WasRead
<1>7. IsFiniteSet(1..Len(written))
  BY TypeFacts, FS_Interval
<1>8. IsFiniteSet(Queued) /\ IsFiniteSet(WasRead)
  BY <1>1, <1>6, <1>7, FS_Subset
<1>9. queued_lines \in Nat /\ Cardinality(WasRead) \in Nat
  BY <1>8, FS_CardinalityType DEF MergeTypeOK
<1> QED BY <1>1, <1>2, <1>6, <1>8, <1>9

\* The first entry of a queue, or of a buffer, is nowhere else in it.
LEMMA Once ==
  ASSUME MergeTypeOK, \A d \in Devices : DeviceInv(d), NEW c \in Devices
  PROVE  /\ queue[c] # <<>> => Single(queue, c)
         /\ buffer[c] # <<>> => Single(buffer, c)
<1>1. ASSUME queue[c] # <<>>, NEW d \in Devices, NEW k \in 1..Len(queue[d]), queue[d][k] = queue[c][1]
      PROVE  d = c /\ k = 1
  <2>1. 1 \in 1..Len(queue[c]) /\ queue[c][1] \in Nat
    BY <1>1, TypeFacts
  <2>2. written[queue[c][1]].dev = c /\ written[queue[d][k]].dev = d
    BY <2>1 DEF DeviceInv
  <2>3. d = c
    BY <1>1, <2>2
  <2>4. k > 1 => queue[c][1] < queue[c][k]
    BY <2>1, <2>3 DEF DeviceInv
  <2> QED BY <1>1, <2>1, <2>3, <2>4
<1>2. ASSUME buffer[c] # <<>>, NEW d \in Devices, NEW k \in 1..Len(buffer[d]), buffer[d][k] = buffer[c][1]
      PROVE  d = c /\ k = 1
  <2>1. 1 \in 1..Len(buffer[c]) /\ buffer[c][1] \in Nat
    BY <1>2, TypeFacts
  <2>2. written[buffer[c][1]].dev = c /\ written[buffer[d][k]].dev = d
    BY <2>1 DEF DeviceInv
  <2>3. d = c
    BY <1>2, <2>2
  <2>4. k > 1 => buffer[c][1] < buffer[c][k]
    BY <2>1, <2>3 DEF DeviceInv
  <2> QED BY <1>2, <2>1, <2>3, <2>4
<1> QED BY <1>1, <1>2 DEF Single

\* A queue loses its first entry.
LEMMA QueueTail ==
  ASSUME MergeTypeOK, \A d \in Devices : DeviceInv(d), NEW c \in Devices, queue[c] # <<>>,
         queue' \in Lists(DOMAIN written), queue'[c] = Tail(queue[c]), OthersSame(queue, queue', c)
  PROVE  /\ Len(queue[c]) \in Nat \ {0} /\ Head(queue[c]) = queue[c][1]
         /\ Len(queue'[c]) = Len(queue[c]) - 1
         /\ \A k \in 1..Len(queue'[c]) : queue'[c][k] = queue[c][k + 1]
         /\ queue[c][1] \in Queued /\ Queued' = Queued \ {queue[c][1]}
         /\ Cardinality(Queued') = Cardinality(Queued) - 1
<1>1. queue \in Lists(DOMAIN written)
  BY TypeFacts DEF Lists
<1>2. Single(queue, c)
  BY Once
<1>3. /\ Len(queue[c]) \in Nat \ {0} /\ Head(queue[c]) = queue[c][1]
      /\ Len(queue'[c]) = Len(queue[c]) - 1
      /\ \A k \in 1..Len(queue'[c]) : queue'[c][k] = queue[c][k + 1]
      /\ queue[c][1] \in Listed(queue) /\ Listed(queue') = Listed(queue) \ {queue[c][1]}
  BY <1>1, <1>2, HeadOut
<1>4. queue[c][1] \in Queued /\ Queued' = Queued \ {queue[c][1]}
  BY <1>3 DEF Queued, Listed
<1>5. Cardinality(Queued') = Cardinality(Queued) - 1
  <2>1. Cardinality(Queued \ {queue[c][1]}) = Cardinality(Queued) - 1
    <3>1. IsFiniteSet(Queued) /\ queue[c][1] \in Queued
      BY <1>4, SetFacts
    <3> QED BY <3>1, FS_RemoveElement
  <2> QED BY <1>4, <2>1
<1> QED BY <1>3, <1>4, <1>5

\* The oldest unread entry of a device is enqueued at the end of its queue.
LEMMA ReadLast ==
  ASSUME MergeTypeOK, StampInv, \A d \in Devices : DeviceInv(d),
         NEW c \in Devices, buffer[c] # <<>>
  PROVE  /\ Head(buffer[c]) = buffer[c][1] /\ buffer[c][1] \in DOMAIN written
         /\ Enqueued(queue[c], Head(buffer[c])) = Append(queue[c], buffer[c][1])
<1> DEFINE q == queue[c]
           n == Len(queue[c])
           h == buffer[c][1]
<1>1. /\ q \in Seq(DOMAIN written) /\ n \in Nat
      /\ buffer[c] \in Seq(DOMAIN written) /\ Len(buffer[c]) \in Nat \ {0}
      /\ Head(buffer[c]) = h /\ h \in DOMAIN written
  BY TypeFacts
<1>2. \A k \in 1..n : q[k] < h /\ q[k] \in DOMAIN written
  BY <1>1, TypeFacts DEF DeviceInv
<1>3. \A k \in 1..n : Stamp(q[k]) \in Nat /\ Stamp(h) \in Nat /\ Stamp(q[k]) <= Stamp(h)
  <2> SUFFICES ASSUME NEW k \in 1..n
               PROVE  Stamp(q[k]) \in Nat /\ Stamp(h) \in Nat /\ Stamp(q[k]) <= Stamp(h)
    OBVIOUS
  <2>1. q[k] \in DOMAIN written /\ q[k] < h /\ q[k] \in Nat /\ h \in Nat
    BY <1>1, <1>2, StampNat
  <2>2. Stamp(q[k]) \in Nat /\ Stamp(h) \in Nat
    BY <1>1, <2>1, StampNat
  <2>3. q[k] <= h
    BY <2>1
  <2> QED BY <1>1, <2>1, <2>2, <2>3 DEF StampInv
<1> QED BY <1>1, <1>3, EnqueuedLast

\* The oldest unread entry of a device moves to the end of its queue.
LEMMA MoveEntry ==
  ASSUME MergeTypeOK, \A d \in Devices : DeviceInv(d), NEW c \in Devices, buffer[c] # <<>>,
         queue' \in Lists(DOMAIN written), OthersSame(queue, queue', c),
         queue'[c] = Append(queue[c], buffer[c][1]),
         buffer' \in Lists(DOMAIN written), OthersSame(buffer, buffer', c),
         buffer'[c] = Tail(buffer[c])
  PROVE  /\ Len(buffer[c]) \in Nat \ {0} /\ Len(queue[c]) \in Nat
         /\ buffer[c][1] \in Buffered /\ buffer[c][1] \notin Queued
         /\ Len(queue'[c]) = Len(queue[c]) + 1 /\ queue'[c][Len(queue[c]) + 1] = buffer[c][1]
         /\ \A k \in 1..Len(queue[c]) : queue'[c][k] = queue[c][k]
         /\ Len(buffer'[c]) = Len(buffer[c]) - 1
         /\ \A k \in 1..Len(buffer'[c]) : buffer'[c][k] = buffer[c][k + 1]
         /\ Queued' = Queued \cup {buffer[c][1]} /\ Buffered' = Buffered \ {buffer[c][1]}
<1> DEFINE q == queue[c]
           n == Len(queue[c])
           h == buffer[c][1]
<1>1. queue \in Lists(DOMAIN written) /\ buffer \in Lists(DOMAIN written) /\ n \in Nat
  BY TypeFacts DEF Lists
<1>2. Single(buffer, c)
  BY Once
<1>3. /\ Len(buffer[c]) \in Nat \ {0} /\ h \in DOMAIN written
      /\ Len(buffer'[c]) = Len(buffer[c]) - 1
      /\ \A k \in 1..Len(buffer'[c]) : buffer'[c][k] = buffer[c][k + 1]
      /\ h \in Listed(buffer) /\ Listed(buffer') = Listed(buffer) \ {h}
  BY <1>1, <1>2, HeadOut
<1>4. h \in Buffered /\ Buffered' = Buffered \ {h}
  BY <1>3 DEF Buffered, Listed
<1>5. /\ Len(queue'[c]) = n + 1 /\ queue'[c][n + 1] = h
      /\ \A k \in 1..n : queue'[c][k] = q[k]
      /\ Listed(queue') = Listed(queue) \cup {h}
  BY <1>1, <1>3, EntryIn
<1>6. Queued' = Queued \cup {h}
  BY <1>5 DEF Queued, Listed
<1>7. h \notin Queued
  <2> SUFFICES ASSUME NEW d \in Devices, NEW k \in 1..Len(queue[d]), h = queue[d][k] PROVE FALSE
    BY SetFacts, Zenon
  <2>1. written[h].dev = c /\ written[h].dev = d
    BY <1>3 DEF DeviceInv
  <2>2. queue[c][k] < buffer[c][1] /\ queue[c][k] = h
    BY <1>3, <2>1 DEF DeviceInv
  <2>3. h \in Nat
    BY <1>3, StampNat
  <2> QED BY <2>2, <2>3
<1> QED BY <1>1, <1>3, <1>4, <1>5, <1>6, <1>7

(***************************************************************************)
(* Steps that move no entry.                                               *)
(***************************************************************************)
\* What does not depend on where the program is.
EntriesInv == StampInv /\ \A d \in Devices : DeviceInv(d)

LEMMA EntriesSame ==
  ASSUME UNCHANGED <<written, buffer, queue, printed>>
  PROVE  /\ EntriesInv => EntriesInv'
         /\ OrderInv => OrderInv'
         /\ Queued' = Queued /\ Buffered' = Buffered /\ WasRead' = WasRead
<1>1. Queued' = Queued /\ Buffered' = Buffered
  BY DEF Queued, Buffered, Listed
<1>2. WasRead' = WasRead
  BY <1>1 DEF WasRead
<1>3. StampInv => StampInv'
  BY DEF StampInv, Stamp
<1>4. (\A d \in Devices : DeviceInv(d)) => (\A d \in Devices : DeviceInv(d))'
  BY DEF DeviceInv
<1>5. OrderInv => OrderInv'
  BY <1>1 DEF OrderInv, Before, Stamp
<1> QED BY <1>1, <1>2, <1>3, <1>4, <1>5 DEF EntriesInv

\* The entries that are left out of a -t output stay so.
LEMMA TailSame ==
  ASSUME UNCHANGED <<written, buffer, queue, printed, options, queued_lines>>, TailInv,
         options.tail > 0 =>
           /\ printed # <<>> => mergeAt' \notin {"select", "read", "print"}
           /\ mergeAt' = "ended" => Queued = {}
  PROVE  TailInv'
<1>1. Queued' = Queued /\ Buffered' = Buffered /\ WasRead' = WasRead
  BY EntriesSame
<1>2. Kept' = Kept
  BY DEF Kept
<1>3. \A e : Stamp(e)' = Stamp(e)
  BY DEF Stamp
<1>4. Range(printed)' = Range(printed)
  OBVIOUS
<1> QED BY <1>1, <1>2, <1>3, <1>4 DEF TailInv

LEMMA SelectStep ==
  ASSUME MergeInv, Select
  PROVE  MergeInv'
<1> DEFINE ready == {d \in Devices : buffer[d] # <<>>}
<1>1. /\ mergeAt = "select" /\ mergeAt' \in {"read", "flush"}
      /\ UNCHANGED <<mergeInputs, buffer, queue, queued_lines, printed, cut>>
      /\ mergeAt' = "read" => readset' = ready
      /\ mergeAt' = "flush" => readset' = {} /\ ready = {}
      /\ sleep' \in BOOLEAN
  BY DEF Select, MergeInv, MergeTypeOK, ReadsInv
<1>2. Queued' = Queued /\ (EntriesInv => EntriesInv') /\ (OrderInv => OrderInv')
  BY <1>1, EntriesSame DEF mergeInputs
<1>3. MergeTypeOK'
  BY <1>1, <1>2 DEF MergeInv, MergeTypeOK, mergeInputs
<1>4. ReadsInv' /\ ClearInv'
  BY <1>1 DEF MergeInv, ReadsInv, ClearInv, mergeInputs
<1>5. PassInv'
  <2>1. CASE mergeAt' = "read"
    <3>1. \A d \in Devices \ readset' : buffer'[d] = <<>>
      BY <1>1, <2>1
    <3> QED BY <2>1, <3>1 DEF PassInv
  <2>2. CASE mergeAt' = "flush"
    <3>1. \A d \in Devices : buffer[d] = <<>> /\ Len(buffer[d]) = 0
      BY <1>1, <2>2
    <3>2. Buffered = {}
      BY <3>1, SetFacts DEF MergeInv
    <3>3. Buffered' = {}
      BY <1>1, <3>2 DEF Buffered, Listed
    <3> QED BY <2>2, <3>3 DEF PassInv
  <2> QED BY <1>1, <2>1, <2>2
<1>6. clears = 0 => TailInv'
  BY <1>1, TailSame DEF MergeInv, mergeInputs, TailInv
<1> QED BY <1>1, <1>2, <1>3, <1>4, <1>5, <1>6 DEF MergeInv, EntriesInv, mergeInputs

LEMMA ReadInterruptedStep ==
  ASSUME MergeInv, ReadInterrupted
  PROVE  MergeInv'
<1>1. /\ mergeAt = "read" /\ mergeAt' = "select" /\ readset' = {}
      /\ UNCHANGED <<mergeInputs, buffer, queue, sleep, queued_lines, printed, cut>>
  BY DEF ReadInterrupted
<1>2. Queued' = Queued /\ (EntriesInv => EntriesInv') /\ (OrderInv => OrderInv')
  BY <1>1, EntriesSame DEF mergeInputs
<1>3. MergeTypeOK'
  BY <1>1, <1>2 DEF MergeInv, MergeTypeOK, mergeInputs
<1>4. ReadsInv' /\ ClearInv' /\ PassInv'
  BY <1>1 DEF MergeInv, ReadsInv, ClearInv, PassInv, mergeInputs
<1>5. clears = 0 => TailInv'
  BY <1>1, TailSame DEF MergeInv, mergeInputs, TailInv
<1> QED BY <1>1, <1>2, <1>3, <1>4, <1>5 DEF MergeInv, EntriesInv, mergeInputs

LEMMA ReadAgainStep ==
  ASSUME MergeInv, ReadAgain
  PROVE  MergeInv'
<1>1. /\ mergeAt = "read" /\ mergeAt' = "read" /\ readset' = {}
      /\ readset # {} /\ buffer[Min(readset)] = <<>>
      /\ cut' = (cut \/ \E d \in readset : buffer[d] # <<>> /\ queue[d] = <<>>)
      /\ UNCHANGED <<mergeInputs, buffer, queue, sleep, queued_lines, printed>>
  BY DEF ReadAgain
<1>2. Queued' = Queued /\ (EntriesInv => EntriesInv') /\ (OrderInv => OrderInv')
  BY <1>1, EntriesSame DEF mergeInputs
<1>3. MergeTypeOK'
  BY <1>1, <1>2 DEF MergeInv, MergeTypeOK, mergeInputs
<1>4. clears # 0
  <2>1. readset \subseteq Nat
    BY LogMergeAssumption DEF MergeInv, MergeTypeOK, Devices
  <2>2. Min(readset) \in readset
    BY <1>1, <2>1, MinFacts
  <2> QED BY <1>1, <2>2 DEF MergeInv, ClearInv
<1>5. ~cut' => PassInv'
  <2> SUFFICES ASSUME ~cut',
                      NEW d \in Devices, queue[d] = <<>>,
                      NEW l \in 1..Len(buffer[d]), NEW c \in Devices, NEW k \in 1..Len(queue[c]),
                      k < Len(queue[c])
               PROVE  queue[c][k] < buffer[d][l]
    BY <1>1 DEF PassInv, Earlier
  <2>1. buffer[d] # <<>>
    BY TypeFacts DEF MergeInv
  <2>2. ~cut /\ d \notin readset
    BY <1>1, <2>1
  <2> QED BY <1>1, <2>2 DEF MergeInv, PassInv, Earlier
<1> QED BY <1>1, <1>2, <1>3, <1>4, <1>5 DEF MergeInv, EntriesInv, mergeInputs, ReadsInv, ClearInv

LEMMA PassReadStep ==
  ASSUME MergeInv, PassRead
  PROVE  MergeInv'
<1>1. /\ mergeAt = "read" /\ mergeAt' = "print" /\ readset = {} /\ sleep' = FALSE
      /\ UNCHANGED <<mergeInputs, buffer, queue, readset, queued_lines, printed, cut>>
  BY DEF PassRead
<1>2. Queued' = Queued /\ (EntriesInv => EntriesInv') /\ (OrderInv => OrderInv')
  BY <1>1, EntriesSame DEF mergeInputs
<1>3. MergeTypeOK'
  BY <1>1, <1>2 DEF MergeInv, MergeTypeOK, mergeInputs
<1>4. ReadsInv' /\ ClearInv' /\ (PassInv => PassInv')
  BY <1>1 DEF MergeInv, ReadsInv, ClearInv, PassInv, Earlier, mergeInputs
<1>5. clears = 0 => TailInv'
  BY <1>1, TailSame DEF MergeInv, mergeInputs, TailInv
<1> QED BY <1>1, <1>2, <1>3, <1>4, <1>5 DEF MergeInv, EntriesInv, mergeInputs

LEMMA FailStep ==
  ASSUME MergeInv, Fail
  PROVE  MergeInv'
<1>1. /\ mergeAt' = "failed"
      /\ UNCHANGED <<mergeInputs, buffer, queue, readset, sleep, queued_lines, printed, cut>>
  BY DEF Fail
<1>2. Queued' = Queued /\ (EntriesInv => EntriesInv') /\ (OrderInv => OrderInv')
  BY <1>1, EntriesSame DEF mergeInputs
<1>3. MergeTypeOK'
  BY <1>1, <1>2 DEF MergeInv, MergeTypeOK, mergeInputs
<1>4. ReadsInv' /\ ClearInv' /\ PassInv'
  BY <1>1 DEF MergeInv, ReadsInv, ClearInv, PassInv, mergeInputs
<1>5. clears = 0 => TailInv'
  BY <1>1, TailSame DEF MergeInv, mergeInputs, TailInv
<1> QED BY <1>1, <1>2, <1>3, <1>4, <1>5 DEF MergeInv, EntriesInv, mergeInputs

(***************************************************************************)
(* The world.                                                              *)
(***************************************************************************)
LEMMA ClearBufferStep ==
  ASSUME MergeInv, NEW b \in Devices, ClearBuffer(b)
  PROVE  MergeInv'
<1>1. /\ clears' = clears + 1 /\ clears < MaxClears /\ clears \in Nat
      /\ UNCHANGED <<options, written, queue, mergeAt, readset, sleep, queued_lines, printed, cut>>
  BY LogMergeAssumption DEF ClearBuffer, MergeInv, MergeTypeOK
<1>2. /\ buffer' \in [Devices -> Seq(DOMAIN written)]
      /\ buffer'[b] = <<>> /\ \A d \in Devices : d # b => buffer'[d] = buffer[d]
  <2>1. <<>> \in Seq(DOMAIN written)
    OBVIOUS
  <2> QED BY <2>1, TypeFacts DEF ClearBuffer, MergeInv
<1>3. \A d \in Devices : \A l \in 1..Len(buffer'[d]) : l \in 1..Len(buffer[d]) /\ buffer'[d][l] = buffer[d][l]
  BY <1>2
<1>4. Queued' = Queued
  BY <1>1 DEF Queued, Listed
<1>5. Buffered' \subseteq Buffered
  <2>1. buffer' \in Lists(DOMAIN written) /\ buffer \in Lists(DOMAIN written)
    BY <1>2, TypeFacts DEF Lists, MergeInv
  <2>2. \A x : x \in Listed(buffer') <=> \E d \in Devices : \E k \in 1..Len(buffer'[d]) : x = buffer'[d][k]
    BY <2>1, ListedFacts
  <2>3. \A x : x \in Listed(buffer) <=> \E d \in Devices : \E k \in 1..Len(buffer[d]) : x = buffer[d][k]
    BY <2>1, ListedFacts
  <2>4. Listed(buffer') \subseteq Listed(buffer)
    BY <1>3, <2>2, <2>3
  <2> QED BY <2>4 DEF Buffered, Listed
<1>6. MergeTypeOK'
  <2>1. clears' \in 0..MaxClears
    BY <1>1, LogMergeAssumption
  <2>2. queued_lines' = Cardinality(Queued')
    BY <1>1, <1>4 DEF MergeInv, MergeTypeOK
  <2> QED BY <1>1, <1>2, <2>1, <2>2 DEF MergeInv, MergeTypeOK
<1>7. StampInv' /\ ReadsInv'
  BY <1>1 DEF MergeInv, StampInv, Stamp, ReadsInv
<1>8. ASSUME NEW d \in Devices PROVE DeviceInv(d)'
  <2>1. DeviceInv(d)
    BY DEF MergeInv
  <2> QED BY <1>1, <1>3, <2>1 DEF DeviceInv
<1>9. PassInv => PassInv'
  <2>1. ASSUME PassInv, mergeAt \in {"read", "print"}, NEW d \in Devices \ readset, queue[d] = <<>>,
               NEW l \in 1..Len(buffer'[d]), NEW c \in Devices, NEW k \in 1..Len(queue[c]), Earlier(c, k)
        PROVE  queue[c][k] < buffer'[d][l]
    BY <1>3, <2>1 DEF PassInv
  <2>2. ASSUME PassInv, mergeAt = "flush" PROVE \A x \in Queued', y \in Buffered' : x < y
    BY <1>4, <1>5, <2>2 DEF PassInv
  <2>3. \A c, k : Earlier(c, k)' <=> Earlier(c, k)
    BY <1>1 DEF Earlier
  <2> QED BY <1>1, <2>1, <2>2, <2>3 DEF PassInv
<1>10. OrderInv => OrderInv'
  BY <1>1, <1>4, <1>5 DEF OrderInv, Before, Stamp
<1>11. clears' # 0
  BY <1>1
<1> QED BY <1>1, <1>6, <1>7, <1>8, <1>9, <1>10, <1>11 DEF MergeInv, ClearInv

LEMMA SeqMonotone ==
  ASSUME NEW S, NEW T, S \subseteq T, NEW s \in Seq(S)
  PROVE  s \in Seq(T)
OBVIOUS

LEMMA WriteEntryStep ==
  ASSUME MergeInv, NEW b \in Devices, WriteEntry(b)
  PROVE  MergeInv'
<1>0. PICK n : n = Len(written)
  OBVIOUS
<1> DEFINE e == n + 1
           S == DOMAIN written'
<1>1. UNCHANGED <<options, clears, queue, mergeAt, readset, sleep, queued_lines, printed, cut>>
  BY DEF WriteEntry
<1>2. MergeTypeOK /\ StampInv /\ \A d \in Devices : DeviceInv(d)
  BY DEF MergeInv
<1>3. PICK later \in {0, 1} :
        written' = Append(written,
          [dev |-> b, stamp |-> later + (IF written = <<>> THEN 0 ELSE Last(written).stamp)])
  BY DEF WriteEntry
<1> DEFINE r == [dev |-> b, stamp |-> later + (IF written = <<>> THEN 0 ELSE Last(written).stamp)]
<1>4. written \in Seq([dev : Devices, stamp : Nat]) /\ n \in Nat /\ DOMAIN written = 1..n
  BY <1>0, <1>2, TypeFacts DEF MergeTypeOK
<1>5. r \in [dev : Devices, stamp : Nat] /\ \A x \in DOMAIN written : Stamp(x) <= r.stamp
  <2>1. CASE written = <<>>
    BY <1>4, <2>1
  <2>2. CASE written # <<>>
    <3>1. n \in DOMAIN written /\ n \in Nat /\ Last(written) = written[n] /\ Stamp(n) \in Nat
      BY <1>0, <1>2, <1>4, <2>2, StampNat DEF Last
    <3>2. r.stamp = later + Stamp(n)
      BY <2>2, <3>1 DEF Stamp
    <3>3. \A x \in DOMAIN written : Stamp(x) <= Stamp(n) /\ Stamp(x) \in Nat
      BY <1>2, <1>4, <3>1, StampNat DEF StampInv
    <3>4. r.stamp \in Nat
      BY <3>1, <3>2
    <3>5. r.dev = b /\ r \in [dev : Devices, stamp : Nat]
      BY <3>4
    <3>6. \A x \in DOMAIN written : Stamp(x) <= r.stamp
      BY <3>1, <3>2, <3>3
    <3> QED BY <3>5, <3>6
  <2> QED BY <2>1, <2>2
<1>6. r.dev = b
  OBVIOUS
<1> HIDE DEF r
<1>7. /\ written' \in Seq([dev : Devices, stamp : Nat]) /\ S = 1..n + 1 /\ Len(written') = n + 1
      /\ \A x \in 1..n : written'[x] = written[x]
      /\ written'[e] = r
  BY <1>0, <1>3, <1>4, <1>5 DEF r
<1>8. \A x \in 1..n : Stamp(x)' = Stamp(x)
  BY <1>7 DEF Stamp
<1>9. Stamp(e)' = r.stamp
  BY <1>7 DEF Stamp
<1>10. /\ queue \in Lists(S) /\ buffer \in Lists(S) /\ printed \in Seq(S) /\ e \in S
  <2>1. DOMAIN written \subseteq S /\ e \in S
    BY <1>4, <1>7
  <2>2. /\ \A d \in Devices : queue[d] \in Seq(S) /\ buffer[d] \in Seq(S)
        /\ printed \in Seq(S)
    BY <1>2, <2>1, SeqMonotone DEF MergeTypeOK
  <2>3. queue \in [Devices -> Seq(S)] /\ buffer \in [Devices -> Seq(S)]
    BY <1>2, <2>2, TypeFacts
  <2> QED BY <2>1, <2>2, <2>3 DEF Lists
<1>11. /\ buffer' \in Lists(S) /\ OthersSame(buffer, buffer', b) /\ buffer'[b] = Append(buffer[b], e)
  <2>1. Append(buffer[b], e) \in Seq(S)
    BY <1>10 DEF Lists
  <2>2. buffer \in [Devices -> Seq(S)] /\ buffer' = [buffer EXCEPT ![b] = Append(@, e)]
    BY <1>0, <1>10 DEF WriteEntry, Lists
  <2> QED BY <2>1, <2>2 DEF Lists, OthersSame
<1>12. /\ Len(buffer[b]) \in Nat /\ Len(buffer'[b]) = Len(buffer[b]) + 1
       /\ \A k \in 1..Len(buffer[b]) : buffer'[b][k] = buffer[b][k]
       /\ buffer'[b][Len(buffer[b]) + 1] = e
       /\ Listed(buffer') = Listed(buffer) \cup {e}
  BY <1>10, <1>11, EntryIn
<1>13. Buffered' = Buffered \cup {e} /\ Queued' = Queued
  BY <1>1, <1>12 DEF Buffered, Queued, Listed
<1>14. MergeTypeOK'
  BY <1>1, <1>2, <1>7, <1>10, <1>11, <1>13 DEF MergeTypeOK, Lists
<1>15. StampInv'
  <2> SUFFICES ASSUME NEW x \in S, NEW y \in S, x <= y PROVE Stamp(x)' <= Stamp(y)'
    BY DEF StampInv
  <2>1. CASE y \in 1..n
    <3>1. x \in 1..n
      BY <1>4, <1>7, <2>1
    <3> QED BY <1>2, <1>4, <1>8, <2>1, <3>1 DEF StampInv
  <2>2. CASE y = e
    <3>1. CASE x = e
      <4>1. r.stamp \in Nat
        BY <1>5
      <4> QED BY <1>9, <2>2, <3>1, <4>1
    <3>2. CASE x \in 1..n
      BY <1>4, <1>5, <1>8, <1>9, <2>2, <3>2
    <3> QED BY <1>4, <1>7, <3>1, <3>2
  <2> QED BY <1>4, <1>7, <2>1, <2>2
\* Where an entry of a buffer comes from.
<1>16. \A d \in Devices : \A l \in 1..Len(buffer'[d]) :
         \/ l \in 1..Len(buffer[d]) /\ buffer'[d][l] = buffer[d][l]
         \/ d = b /\ l = Len(buffer[b]) + 1 /\ buffer'[d][l] = e
  BY <1>11, <1>12 DEF OthersSame
<1>17. ASSUME NEW d \in Devices PROVE DeviceInv(d)'
  <2>1. DeviceInv(d)
    BY <1>2
  <2>2. /\ \A k \in 1..Len(queue[d]) : queue[d][k] \in 1..n
        /\ \A k \in 1..Len(buffer[d]) : buffer[d][k] \in 1..n
        /\ Len(buffer[d]) \in Nat
    BY <1>0, <1>2, TypeFacts
  <2>3. \A k \in 1..Len(buffer'[d]) : written'[buffer'[d][k]].dev = d
    <3> SUFFICES ASSUME NEW k \in 1..Len(buffer'[d]) PROVE written'[buffer'[d][k]].dev = d
      OBVIOUS
    <3>1. CASE k \in 1..Len(buffer[d]) /\ buffer'[d][k] = buffer[d][k]
      <4>1. buffer[d][k] \in 1..n /\ written[buffer[d][k]].dev = d
        BY <2>1, <2>2, <3>1 DEF DeviceInv
      <4> QED BY <1>7, <3>1, <4>1
    <3>2. CASE d = b /\ buffer'[d][k] = e
      BY <1>6, <1>7, <3>2
    <3> QED BY <1>16, <3>1, <3>2
  <2>4. \A k \in 1..Len(queue[d]) : written'[queue[d][k]].dev = d
    BY <1>7, <2>1, <2>2 DEF DeviceInv
  <2>5. \A k, l \in 1..Len(buffer'[d]) : k < l => buffer'[d][k] < buffer'[d][l]
    <3> SUFFICES ASSUME NEW k \in 1..Len(buffer'[d]), NEW l \in 1..Len(buffer'[d]), k < l
                 PROVE  buffer'[d][k] < buffer'[d][l]
      OBVIOUS
    <3>1. CASE l \in 1..Len(buffer[d]) /\ buffer'[d][l] = buffer[d][l]
      <4>1. k \in 1..Len(buffer[d])
        BY <3>1
      <4>2. buffer'[d][k] = buffer[d][k]
        BY <1>11, <1>12, <4>1 DEF OthersSame
      <4> QED BY <2>1, <3>1, <4>1, <4>2 DEF DeviceInv
    <3>2. CASE d = b /\ l = Len(buffer[b]) + 1 /\ buffer'[d][l] = e
      <4>1. k \in 1..Len(buffer[d])
        BY <2>2, <3>2
      <4>2. buffer'[d][k] = buffer[d][k]
        BY <1>11, <1>12, <4>1 DEF OthersSame
      <4> QED BY <1>4, <2>2, <3>2, <4>1, <4>2
    <3> QED BY <1>16, <3>1, <3>2
  <2>6. \A k \in 1..Len(queue[d]), l \in 1..Len(buffer'[d]) : queue[d][k] < buffer'[d][l]
    <3> SUFFICES ASSUME NEW k \in 1..Len(queue[d]), NEW l \in 1..Len(buffer'[d])
                 PROVE  queue[d][k] < buffer'[d][l]
      OBVIOUS
    <3>1. CASE l \in 1..Len(buffer[d]) /\ buffer'[d][l] = buffer[d][l]
      BY <2>1, <3>1 DEF DeviceInv
    <3>2. CASE buffer'[d][l] = e
      BY <1>4, <2>2, <3>2
    <3> QED BY <1>16, <3>1, <3>2
  <2>7. \A k, l \in 1..Len(queue[d]) : k < l => queue[d][k] < queue[d][l]
    BY <2>1 DEF DeviceInv
  <2> QED BY <1>1, <2>3, <2>4, <2>5, <2>6, <2>7 DEF DeviceInv
<1>18. ReadsInv' /\ ClearInv'
  <2>1. \A d \in Devices : buffer[d] # <<>> => buffer'[d] # <<>>
    <3> SUFFICES ASSUME NEW d \in Devices, buffer[d] # <<>> PROVE buffer'[d] # <<>>
      OBVIOUS
    <3>1. CASE d = b
      <4>1. Len(buffer'[b]) > 0
        BY <1>12
      <4> QED BY <3>1, <4>1
    <3>2. CASE d # b
      BY <1>11, <3>2 DEF OthersSame
    <3> QED BY <3>1, <3>2
  <2>2. readset \subseteq Devices
    BY <1>2 DEF MergeTypeOK
  <2> QED BY <1>1, <2>1, <2>2 DEF MergeInv, ReadsInv, ClearInv
<1>19. PassInv => PassInv'
  <2>1. ASSUME PassInv, mergeAt \in {"read", "print"}, NEW d \in Devices \ readset, queue[d] = <<>>,
               NEW l \in 1..Len(buffer'[d]), NEW c \in Devices, NEW k \in 1..Len(queue[c]), Earlier(c, k)
        PROVE  queue[c][k] < buffer'[d][l]
    <3>1. queue[c][k] \in 1..n
      BY <1>0, <1>2, TypeFacts
    <3>2. queue[c][k] < e
      BY <1>4, <3>1
    <3>3. l \in 1..Len(buffer[d]) => queue[c][k] < buffer[d][l]
      BY <2>1 DEF PassInv
    <3> QED BY <1>16, <3>2, <3>3
  <2>2. ASSUME PassInv, mergeAt = "flush" PROVE \A x \in Queued', y \in Buffered' : x < y
    <3>1. \A x \in Queued : x < e
      BY <1>0, <1>2, <1>4, SetFacts
    <3> QED BY <1>13, <2>2, <3>1 DEF PassInv
  <2>3. \A c, k : Earlier(c, k)' <=> Earlier(c, k)
    BY <1>1 DEF Earlier
  <2> QED BY <1>1, <2>1, <2>2, <2>3 DEF PassInv
<1>20. OrderInv => OrderInv'
  <2>1. \A i \in 1..Len(printed) : printed[i] \in 1..n
    BY <1>0, <1>2, TypeFacts
  <2>2. Queued \subseteq 1..n /\ Buffered \subseteq 1..n
    BY <1>0, <1>2, SetFacts
  <2>3. \A x, y \in 1..n : Before(x, y)' <=> Before(x, y)
    BY <1>7, <1>8 DEF Before
  <2>4. ASSUME NEW x \in 1..n PROVE Before(x, e)'
    <3>1. Stamp(x) \in Nat /\ r.stamp \in Nat /\ Stamp(x) <= r.stamp /\ x < e
      <4>1. x \in DOMAIN written
        BY <1>4
      <4>2. Stamp(x) \in Nat
        BY <1>2, <4>1, StampNat
      <4>3. r.stamp \in Nat /\ Stamp(x) <= r.stamp
        BY <1>5, <4>1
      <4>4. x < e
        BY <1>4
      <4> QED BY ONLY <4>2, <4>3, <4>4
    <3>2. Stamp(x)' < Stamp(e)' \/ Stamp(x)' = Stamp(e)'
      BY <1>8, <1>9, <3>1
    <3> QED BY <3>1, <3>2 DEF Before
  <2> HIDE DEF e
  <2>5. ASSUME OrderInv, NEW i \in 1..Len(printed), NEW j \in 1..Len(printed), i < j
        PROVE  Before(printed[i], printed[j])'
    BY <1>1, <2>1, <2>3, <2>5 DEF OrderInv
  <2>6. ASSUME OrderInv, NEW i \in 1..Len(printed), NEW x \in Queued' \cup Buffered'
        PROVE  Before(printed[i], x)'
    BY <1>1, <1>13, <2>1, <2>2, <2>3, <2>4, <2>6 DEF OrderInv
  <2> QED BY <1>1, <2>5, <2>6 DEF OrderInv
<1>21. TailInv => TailInv'
  <2>1. WasRead' = WasRead /\ Kept' = Kept
    <3>1. S = DOMAIN written \cup {e} /\ e \notin DOMAIN written
      BY <1>4, <1>7
    <3> QED BY <1>1, <1>13, <3>1 DEF WasRead, Kept
  <2>2. WasRead \subseteq 1..n /\ Queued \cup Buffered \cup Range(printed) \subseteq 1..n
    <3>1. Range(printed) \subseteq DOMAIN written
      BY <1>2, RangeFacts DEF MergeTypeOK
    <3> QED BY <1>0, <1>2, <1>4, <3>1, SetFacts
  <2>3. ASSUME TailInv, options.tail > 0, NEW x \in WasRead \ (Queued \cup Range(printed)),
               NEW z \in Queued \cup Buffered \cup Range(printed) \cup {e}
        PROVE  Stamp(x)' <= Stamp(z)'
    <3>1. CASE z = e
      BY <1>4, <1>5, <1>8, <1>9, <2>2, <3>1
    <3>2. CASE z \in Queued \cup Buffered \cup Range(printed)
      BY <1>8, <2>2, <2>3, <3>2 DEF TailInv
    <3> QED BY <3>1, <3>2
  <2> QED BY <1>1, <1>13, <2>1, <2>3 DEF TailInv
<1> QED BY <1>1, <1>14, <1>15, <1>17, <1>18, <1>19, <1>20, <1>21 DEF MergeInv

(***************************************************************************)
(* Steps that move an entry.                                               *)
(***************************************************************************)
LEMMA ReadEntryStep ==
  ASSUME MergeInv, ReadEntry
  PROVE  MergeInv'
<1>0. PICK c : c = Min(readset)
  OBVIOUS
<1> DEFINE h == buffer[c][1]
           m == Len(queue[c])
<1>1. /\ mergeAt = "read" /\ readset # {} /\ buffer[c] # <<>>
      /\ queue' = [queue EXCEPT ![c] = Enqueued(@, Head(buffer[c]))]
      /\ buffer' = [buffer EXCEPT ![c] = Tail(@)]
      /\ readset' = readset \ {c} /\ queued_lines' = queued_lines + 1
      /\ UNCHANGED <<mergeInputs, mergeAt, sleep, printed, cut>>
  BY <1>0 DEF ReadEntry
<1>2. MergeTypeOK /\ StampInv /\ \A d \in Devices : DeviceInv(d)
  BY DEF MergeInv
<1>3. c \in readset /\ c \in Devices
  <2>1. readset \subseteq Devices /\ readset \subseteq Nat
    BY <1>2, LogMergeAssumption DEF MergeTypeOK, Devices
  <2> QED BY <1>0, <1>1, <2>1, MinFacts
<1>4. Head(buffer[c]) = h /\ h \in DOMAIN written /\ Enqueued(queue[c], Head(buffer[c])) = Append(queue[c], h)
  BY <1>1, <1>2, <1>3, ReadLast
<1>5. /\ queue' \in Lists(DOMAIN written) /\ OthersSame(queue, queue', c) /\ queue'[c] = Append(queue[c], h)
      /\ buffer' \in Lists(DOMAIN written) /\ OthersSame(buffer, buffer', c) /\ buffer'[c] = Tail(buffer[c])
  <2>1. queue \in [Devices -> Seq(DOMAIN written)] /\ buffer \in [Devices -> Seq(DOMAIN written)]
    BY <1>2, TypeFacts
  <2>2. Append(queue[c], h) \in Seq(DOMAIN written) /\ Tail(buffer[c]) \in Seq(DOMAIN written)
    BY <1>1, <1>3, <1>4, <2>1
  <2> QED BY <1>1, <1>3, <1>4, <2>1, <2>2 DEF Lists, OthersSame
<1>6. /\ Len(buffer[c]) \in Nat \ {0} /\ m \in Nat
      /\ h \in Buffered /\ h \notin Queued
      /\ Len(queue'[c]) = m + 1 /\ queue'[c][m + 1] = h
      /\ \A k \in 1..m : queue'[c][k] = queue[c][k]
      /\ Len(buffer'[c]) = Len(buffer[c]) - 1
      /\ \A k \in 1..Len(buffer'[c]) : buffer'[c][k] = buffer[c][k + 1]
      /\ Queued' = Queued \cup {h} /\ Buffered' = Buffered \ {h}
  BY <1>1, <1>2, <1>3, <1>5, MoveEntry
<1>7. MergeTypeOK'
  <2>1. Cardinality(Queued \cup {h}) = Cardinality(Queued) + 1
    BY <1>2, <1>6, SetFacts, FS_AddElement
  <2>2. queued_lines' = Cardinality(Queued')
    BY <1>1, <1>2, <1>6, <2>1 DEF MergeTypeOK
  <2> QED BY <1>1, <1>2, <1>5, <2>2 DEF MergeTypeOK, Lists, mergeInputs
<1>8. StampInv' /\ ReadsInv'
  BY <1>1 DEF MergeInv, StampInv, Stamp, ReadsInv, mergeInputs
<1>9. ASSUME NEW d \in Devices PROVE DeviceInv(d)'
  <2>1. DeviceInv(d)
    BY <1>2
  <2>2. CASE d # c
    BY <1>1, <1>5, <2>1, <2>2 DEF DeviceInv, OthersSame, mergeInputs
  <2>3. CASE d = c
    <3>1. \A k \in 1..Len(buffer'[d]) : k + 1 \in 1..Len(buffer[d]) /\ buffer'[d][k] = buffer[d][k + 1] /\ k + 1 > 1
      <4>1. Len(buffer[d]) \in Nat \ {0} /\ Len(buffer'[d]) = Len(buffer[d]) - 1
        BY <1>6, <2>3
      <4>2. \A k \in 1..Len(buffer'[d]) : buffer'[d][k] = buffer[d][k + 1]
        BY <1>6, <2>3
      <4>3. \A k \in 1..Len(buffer'[d]) : k + 1 \in 1..Len(buffer[d]) /\ k + 1 > 1
        BY ONLY <4>1
      <4> QED BY ONLY <4>2, <4>3
    <3>2. \A k \in 1..Len(queue'[d]) : (k \in 1..m /\ queue'[d][k] = queue[d][k]) \/ (k = m + 1 /\ queue'[d][k] = h)
      <4>1. Len(queue'[d]) = m + 1 /\ queue'[d][m + 1] = h /\ \A k \in 1..m : queue'[d][k] = queue[d][k]
        BY <1>6, <2>3
      <4>2. \A k \in 1..(m + 1) : k \in 1..m \/ k = m + 1
        BY <1>6
      <4> QED BY ONLY <4>1, <4>2
    <3>3. 1 \in 1..Len(buffer[d]) /\ h = buffer[d][1]
      BY <1>6, <2>3
    <3>4. \A k \in 1..Len(buffer'[d]) : written'[buffer'[d][k]].dev = d
      BY <1>1, <2>1, <3>1 DEF DeviceInv, mergeInputs
    <3>5. \A k \in 1..Len(queue'[d]) : written'[queue'[d][k]].dev = d
      BY <1>1, <2>1, <2>3, <3>2, <3>3 DEF DeviceInv, mergeInputs
    <3>6. \A k, l \in 1..Len(buffer'[d]) : k < l => buffer'[d][k] < buffer'[d][l]
      BY <2>1, <3>1 DEF DeviceInv
    <3>7. \A k, l \in 1..Len(queue'[d]) : k < l => queue'[d][k] < queue'[d][l]
      <4> SUFFICES ASSUME NEW k \in 1..Len(queue'[d]), NEW l \in 1..Len(queue'[d]), k < l
                   PROVE  queue'[d][k] < queue'[d][l]
        OBVIOUS
      <4>1. k \in 1..m /\ queue'[d][k] = queue[d][k]
        BY <1>6, <2>3, <3>2
      <4> QED BY <2>1, <2>3, <3>2, <3>3, <4>1 DEF DeviceInv
    <3>8. \A l \in 1..Len(buffer'[d]) : h < buffer'[d][l]
      BY <2>1, <3>1, <3>3 DEF DeviceInv
    <3>9. \A k \in 1..Len(queue'[d]), l \in 1..Len(buffer'[d]) : queue'[d][k] < buffer'[d][l]
      <4> SUFFICES ASSUME NEW k \in 1..Len(queue'[d]), NEW l \in 1..Len(buffer'[d])
                   PROVE  queue'[d][k] < buffer'[d][l]
        OBVIOUS
      <4>1. CASE k \in 1..m /\ queue'[d][k] = queue[d][k]
        BY <2>1, <2>3, <3>1, <4>1 DEF DeviceInv
      <4>2. CASE queue'[d][k] = h
        BY <3>8, <4>2
      <4> QED BY <3>2, <4>1, <4>2
    <3> QED BY <3>4, <3>5, <3>6, <3>7, <3>9 DEF DeviceInv
  <2> QED BY <2>2, <2>3
<1>10. ClearInv'
  <2>1. \A d \in readset' : d \in readset /\ buffer'[d] = buffer[d]
    <3>1. readset \subseteq Devices
      BY <1>2 DEF MergeTypeOK
    <3> QED BY <1>1, <1>5, <3>1 DEF OthersSame
  <2> QED BY <1>1, <2>1 DEF MergeInv, ClearInv, mergeInputs
<1>11. PassInv => PassInv'
  <2>1. ASSUME PassInv, NEW d \in Devices \ readset', queue'[d] = <<>>,
               NEW l \in 1..Len(buffer'[d]), NEW a \in Devices, NEW k \in 1..Len(queue'[a]), Earlier(a, k)'
        PROVE  queue'[a][k] < buffer'[d][l]
    <3>1. d # c
      BY <1>6, <2>1
    <3>2. d \notin readset /\ queue[d] = <<>> /\ buffer'[d] = buffer[d]
      BY <1>1, <1>5, <2>1, <3>1 DEF OthersSame
    <3>3. CASE a # c
      <4>1. queue'[a] = queue[a] /\ Earlier(a, k)
        BY <1>1, <1>5, <2>1, <3>3 DEF OthersSame, Earlier
      <4> QED BY <1>1, <2>1, <3>2, <4>1 DEF PassInv
    <3>4. CASE a = c
      <4>1. k < m + 1
        BY <1>1, <1>6, <2>1, <3>4 DEF Earlier
      <4>2. k \in 1..m /\ queue'[a][k] = queue[a][k]
        BY <1>6, <3>4, <4>1
      <4>3. Earlier(a, k)
        BY <1>3, <3>4 DEF Earlier
      <4> QED BY <1>1, <2>1, <3>2, <3>4, <4>2, <4>3 DEF PassInv
    <3> QED BY <3>3, <3>4
  <2> QED BY <1>1, <2>1 DEF PassInv
<1>12. OrderInv => OrderInv'
  <2>1. Queued' \cup Buffered' = Queued \cup Buffered
    BY <1>6
  <2> QED BY <1>1, <2>1 DEF OrderInv, Before, Stamp, mergeInputs
<1>13. clears = 0 => TailInv'
  <2> SUFFICES ASSUME TailInv PROVE TailInv'
    BY DEF MergeInv
  <2>1. WasRead' = WasRead \cup {h} /\ h \notin WasRead
    BY <1>1, <1>4, <1>6 DEF WasRead, mergeInputs
  <2>2. Cardinality(WasRead') = Cardinality(WasRead) + 1 /\ Cardinality(WasRead) \in Nat
    BY <1>2, <2>1, SetFacts, FS_AddElement
  <2>3. Kept' = Kept + 1 /\ Kept \in Nat
    <3>1. queued_lines \in Nat /\ Len(printed) \in Nat
      BY <1>2, SetFacts, TypeFacts
    <3> QED BY <1>1, <3>1 DEF Kept
  <2>4. \A e : Stamp(e)' = Stamp(e)
    BY <1>1 DEF Stamp, mergeInputs
  <2>5. CASE options.tail = 0
    BY <1>1, <2>2, <2>3, <2>5 DEF TailInv, mergeInputs
  <2>6. CASE options.tail > 0
    <3>1. options.tail \in Nat /\ options' = options
      BY <1>1, <1>2, LogMergeAssumption DEF MergeTypeOK, mergeInputs
    <3>2. printed = <<>> /\ printed' = <<>>
      BY <1>1, <2>6 DEF TailInv
    <3>3. Kept <= Cardinality(WasRead) /\ (Kept = Cardinality(WasRead) \/ Kept >= options.tail)
      BY <2>6 DEF TailInv
    <3>4. Kept' <= Cardinality(WasRead)' /\ (Kept' = Cardinality(WasRead)' \/ Kept' >= options'.tail)
      BY <2>2, <2>3, <3>1, <3>3
    <3>5. /\ WasRead' \ (Queued' \cup Range(printed)') = WasRead \ (Queued \cup Range(printed))
          /\ Queued' \cup Buffered' \cup Range(printed)' = Queued \cup Buffered \cup Range(printed)
      BY <1>1, <1>6, <2>1
    <3>6. \A e \in WasRead' \ (Queued' \cup Range(printed)'), z \in Queued' \cup Buffered' \cup Range(printed)' :
            Stamp(e)' <= Stamp(z)'
      BY <2>4, <2>6, <3>5 DEF TailInv
    <3> QED BY <1>1, <2>6, <3>1, <3>2, <3>4, <3>6 DEF TailInv
  <2>7. options.tail \in Nat
    BY <1>2, LogMergeAssumption DEF MergeTypeOK
  <2> QED BY <2>5, <2>6, <2>7
<1> QED BY <1>1, <1>7, <1>8, <1>9, <1>10, <1>11, <1>12, <1>13 DEF MergeInv, mergeInputs

\* What is dequeued may be printed before all that is queued, and all that is still to be read.
LEMMA FirstIsBefore ==
  ASSUME MergeInv, PassInv, Waiting # {}, readset = {},
         mergeAt = "flush" \/ (mergeAt = "print" /\ Len(queue[ChooseFirst]) > 1),
         NEW e \in Queued \cup Buffered, e # queue[ChooseFirst][1]
  PROVE  Before(queue[ChooseFirst][1], e) /\ Stamp(queue[ChooseFirst][1]) <= Stamp(e)
<1> DEFINE c == ChooseFirst
           x == queue[c][1]
<1>1. MergeTypeOK /\ StampInv /\ \A d \in Devices : DeviceInv(d)
  BY DEF MergeInv
<1>2. /\ c \in Devices /\ queue[c] # <<>>
      /\ \A d \in Devices : queue[d] # <<>> => Stamp(x) <= Stamp(queue[d][1])
  BY <1>1, FirstFacts
<1>3. 1 \in 1..Len(queue[c])
  BY <1>1, <1>2, TypeFacts
<1>4. x \in Queued /\ x \in DOMAIN written /\ e \in DOMAIN written
  BY <1>1, <1>2, <1>3, SetFacts, TypeFacts
<1>5. x \in Nat /\ e \in Nat /\ Stamp(x) \in Nat /\ Stamp(e) \in Nat
  BY <1>1, <1>4, StampNat
<1>6. written[x].dev = c
  BY <1>1, <1>2, <1>3 DEF DeviceInv
<1> HIDE DEF c, x
\* From e's own device.
<1>7. ASSUME NEW d \in Devices, queue[d] # <<>>, written[e].dev = d, queue[d][1] <= e, d = c => x < e
      PROVE  Before(x, e) /\ Stamp(x) <= Stamp(e)
  <2>1. queue[d][1] \in DOMAIN written
    BY <1>1, <1>7, TypeFacts
  <2>2. Stamp(queue[d][1]) <= Stamp(e) /\ Stamp(queue[d][1]) \in Nat
    BY <1>1, <1>4, <1>7, <2>1, StampNat DEF StampInv
  <2>3. Stamp(x) <= Stamp(e)
    BY <1>2, <1>5, <1>7, <2>2
  <2>4. Stamp(x) < Stamp(e) \/ Stamp(x) = Stamp(e)
    BY <1>5, <2>3
  <2> QED BY <1>6, <1>7, <2>3, <2>4 DEF Before
<1>8. ASSUME x < e PROVE Before(x, e) /\ Stamp(x) <= Stamp(e)
  <2>1. Stamp(x) <= Stamp(e)
    BY <1>1, <1>4, <1>5, <1>8 DEF StampInv
  <2>2. Stamp(x) < Stamp(e) \/ Stamp(x) = Stamp(e)
    BY <1>5, <2>1
  <2> QED BY <1>8, <2>1, <2>2 DEF Before
<1>9. CASE e \in Queued
  <2>1. PICK d \in Devices : \E k \in 1..Len(queue[d]) : e = queue[d][k]
    BY <1>1, <1>9, SetFacts
  <2>2. PICK k \in 1..Len(queue[d]) : e = queue[d][k]
    BY <2>1
  <2>3. queue[d] # <<>> /\ 1 \in 1..Len(queue[d]) /\ queue[d][1] \in Nat
    BY <1>1, <2>2, TypeFacts
  <2>4. DeviceInv(d)
    BY <1>1
  <2>5. written[e].dev = d /\ (k # 1 => queue[d][1] < e)
    BY <2>2, <2>3, <2>4 DEF DeviceInv
  <2>6. queue[d][1] <= e
    BY <1>5, <2>2, <2>3, <2>5
  <2>7. d = c => x < e
    BY <2>2, <2>5 DEF x, c
  <2>8. Before(x, e) /\ Stamp(x) <= Stamp(e)
    BY <1>7, <2>3, <2>5, <2>6, <2>7
  <2> QED BY <2>8 DEF x, c
<1>10. CASE e \in Buffered
  <2>1. PICK d \in Devices : \E l \in 1..Len(buffer[d]) : e = buffer[d][l]
    BY <1>1, <1>10, SetFacts
  <2>2. PICK l \in 1..Len(buffer[d]) : e = buffer[d][l]
    BY <2>1
  <2>3. CASE queue[d] # <<>>
    <3>0. Len(queue[d]) \in Nat /\ Len(queue[d]) > 0
      BY <1>1, <2>3, TypeFacts
    <3>1. 1 \in 1..Len(queue[d]) /\ queue[d][1] \in Nat
      <4>1. 1 \in 1..Len(queue[d])
        BY <3>0
      <4>2. queue[d][1] \in 1..Len(written) /\ Len(written) \in Nat
        BY <1>1, <4>1, TypeFacts
      <4> QED BY <4>1, <4>2
    <3>2. DeviceInv(d)
      BY <1>1
    <3>3. written[e].dev = d /\ queue[d][1] < e
      BY <2>2, <3>1, <3>2 DEF DeviceInv
    <3>4. queue[d][1] <= e
      BY <1>5, <3>1, <3>3
    <3>5. d = c => x < e
      BY <3>3 DEF x
    <3>6. Before(x, e) /\ Stamp(x) <= Stamp(e)
      BY <1>7, <2>3, <3>3, <3>4, <3>5
    <3> QED BY <3>6 DEF x, c
  <2>4. CASE queue[d] = <<>>
    <3>1. CASE mergeAt = "flush"
      <4>1. x < e
        BY <1>4, <1>10, <3>1 DEF PassInv
      <4>2. Before(x, e) /\ Stamp(x) <= Stamp(e)
        BY <1>8, <4>1
      <4> QED BY <4>2 DEF x, c
    <3>2. CASE mergeAt = "print" /\ Len(queue[c]) > 1
      <4>1. Earlier(c, 1)
        BY <3>2 DEF Earlier
      <4>2. queue[c][1] < buffer[d][l]
        BY <1>2, <1>3, <2>2, <2>4, <3>2, <4>1 DEF PassInv
      <4>3. x < e
        BY <2>2, <4>2 DEF x
      <4>4. Before(x, e) /\ Stamp(x) <= Stamp(e)
        BY <1>8, <4>3
      <4> QED BY <4>4 DEF x, c
    <3> QED BY <3>1, <3>2 DEF c
  <2> QED BY <2>3, <2>4
<1> QED BY <1>9, <1>10 DEF x, c

\* The entry is printed without -t, and in the flush when no more than the last lines are
\* left; otherwise -t skips it.
LEMMA DequeueStep ==
  ASSUME MergeInv, Waiting # {}, readset = {},
         mergeAt = "flush" \/ (mergeAt = "print" /\ Len(queue[ChooseFirst]) > 1),
         NEW print \in BOOLEAN, Dequeue(ChooseFirst, print),
         UNCHANGED <<mergeInputs, buffer, readset, sleep, cut>>,
         options.tail = 0 => print,
         options.tail > 0 /\ print => mergeAt = "flush" /\ queued_lines <= options.tail,
         ~print => queued_lines > options.tail
  PROVE  MergeInv'
<1>0. PICK c : c = ChooseFirst
  OBVIOUS
<1> DEFINE x == queue[c][1]
<1>1. MergeTypeOK /\ StampInv /\ \A d \in Devices : DeviceInv(d)
  BY DEF MergeInv
<1>2. c \in Devices /\ queue[c] # <<>>
  BY <1>0, <1>1, FirstFacts
<1>3. /\ queue' = [queue EXCEPT ![c] = Tail(@)] /\ queued_lines' = queued_lines - 1
      /\ printed' = (IF print THEN Append(printed, Head(queue[c])) ELSE printed)
      /\ UNCHANGED <<mergeInputs, mergeAt, buffer, readset, sleep, cut>>
  BY <1>0 DEF Dequeue
<1>4. /\ queue' \in Lists(DOMAIN written) /\ OthersSame(queue, queue', c) /\ queue'[c] = Tail(queue[c])
  <2>1. queue \in [Devices -> Seq(DOMAIN written)]
    BY <1>1, TypeFacts
  <2>2. Tail(queue[c]) \in Seq(DOMAIN written)
    BY <1>2, <2>1
  <2> QED BY <1>2, <1>3, <2>1, <2>2 DEF Lists, OthersSame
<1>5. /\ Len(queue[c]) \in Nat \ {0} /\ Head(queue[c]) = x
      /\ Len(queue'[c]) = Len(queue[c]) - 1
      /\ \A k \in 1..Len(queue'[c]) : queue'[c][k] = queue[c][k + 1]
      /\ x \in Queued /\ Queued' = Queued \ {x}
      /\ Cardinality(Queued') = Cardinality(Queued) - 1
  BY <1>1, <1>2, <1>4, QueueTail
<1>6. x \in DOMAIN written /\ printed \in Seq(DOMAIN written) /\ Len(printed) \in Nat
  BY <1>1, <1>5, SetFacts, TypeFacts DEF MergeTypeOK
<1>7. /\ Buffered' = Buffered /\ WasRead' = WasRead
      /\ \A e : Stamp(e)' = Stamp(e)
      /\ \A a, b : Before(a, b)' <=> Before(a, b)
  <2>1. Buffered' = Buffered
    BY <1>3 DEF Buffered, Listed
  <2> QED BY <1>3, <2>1 DEF WasRead, Stamp, Before, mergeInputs
\* The output, when it grows.
<1>8. print => /\ printed' \in Seq(DOMAIN written) /\ Len(printed') = Len(printed) + 1
               /\ \A i \in 1..Len(printed) : printed'[i] = printed[i]
               /\ printed'[Len(printed) + 1] = x
               /\ Range(printed') = Range(printed) \cup {x}
  <2> SUFFICES ASSUME print
               PROVE /\ printed' \in Seq(DOMAIN written) /\ Len(printed') = Len(printed) + 1
                     /\ \A i \in 1..Len(printed) : printed'[i] = printed[i]
                     /\ printed'[Len(printed) + 1] = x
                     /\ Range(printed') = Range(printed) \cup {x}
    OBVIOUS
  <2>1. printed' = Append(printed, x)
    BY <1>3, <1>5
  <2>2. /\ printed' \in Seq(DOMAIN written) /\ Len(printed') = Len(printed) + 1
        /\ \A i \in 1..Len(printed) : printed'[i] = printed[i]
        /\ printed'[Len(printed) + 1] = x
    BY <1>6, <2>1
  <2>3. \A y : y \in Range(printed') <=> \E k \in 1..Len(printed') : y = printed'[k]
    BY <2>2, RangeFacts
  <2>4. \A y : y \in Range(printed) <=> \E k \in 1..Len(printed) : y = printed[k]
    BY <1>6, RangeFacts
  <2>5. ASSUME NEW y \in Range(printed') PROVE y \in Range(printed) \cup {x}
    <3>1. PICK k \in 1..Len(printed') : y = printed'[k]
      BY <2>3
    <3>2. k \in 1..Len(printed) \/ k = Len(printed) + 1
      BY <1>6, <2>2
    <3> QED BY <2>2, <2>4, <3>1, <3>2
  <2>6. ASSUME NEW y \in Range(printed) PROVE y \in Range(printed')
    <3>1. PICK k \in 1..Len(printed) : y = printed[k]
      BY <2>4
    <3>2. k \in 1..Len(printed') /\ y = printed'[k]
      BY <1>6, <2>2, <3>1
    <3> QED BY <2>3, <3>2
  <2>7. x \in Range(printed')
    <3>1. Len(printed) + 1 \in 1..Len(printed')
      BY <1>6, <2>2
    <3> QED BY <2>2, <2>3, <3>1
  <2> QED BY <2>2, <2>5, <2>6, <2>7
<1>9. ~print => printed' = printed
  BY <1>3
<1>10. MergeTypeOK'
  <2>1. queued_lines' = Cardinality(Queued')
    BY <1>1, <1>3, <1>5 DEF MergeTypeOK
  <2>2. printed' \in Seq(DOMAIN written)
    BY <1>6, <1>8, <1>9
  <2> QED BY <1>1, <1>3, <1>4, <2>1, <2>2 DEF MergeTypeOK, Lists, mergeInputs
<1>11. StampInv' /\ ReadsInv' /\ ClearInv'
  BY <1>3 DEF MergeInv, StampInv, Stamp, ReadsInv, ClearInv, mergeInputs
<1>12. ASSUME NEW d \in Devices PROVE DeviceInv(d)'
  <2>1. DeviceInv(d)
    BY <1>1
  <2>2. CASE d # c
    BY <1>3, <1>4, <2>1, <2>2 DEF DeviceInv, OthersSame, mergeInputs
  <2>3. CASE d = c
    <3>1. \A k \in 1..Len(queue'[d]) : k + 1 \in 1..Len(queue[d]) /\ queue'[d][k] = queue[d][k + 1]
      BY <1>5, <2>3
    <3>2. \A k, l \in 1..Len(queue'[d]) : k < l => queue'[d][k] < queue'[d][l]
      <4> SUFFICES ASSUME NEW k \in 1..Len(queue'[d]), NEW l \in 1..Len(queue'[d]), k < l
                   PROVE  queue'[d][k] < queue'[d][l]
        OBVIOUS
      <4>1. k + 1 < l + 1
        OBVIOUS
      <4> QED BY <2>1, <3>1, <4>1 DEF DeviceInv
    <3>3. \A k \in 1..Len(queue'[d]) : written[queue'[d][k]].dev = d
      BY <2>1, <3>1 DEF DeviceInv
    <3>4. \A k \in 1..Len(queue'[d]), l \in 1..Len(buffer[d]) : queue'[d][k] < buffer[d][l]
      BY <2>1, <3>1 DEF DeviceInv
    <3>5. /\ \A k \in 1..Len(buffer[d]) : written[buffer[d][k]].dev = d
          /\ \A k, l \in 1..Len(buffer[d]) : k < l => buffer[d][k] < buffer[d][l]
      BY <2>1 DEF DeviceInv
    <3>6. buffer' = buffer /\ written' = written
      BY <1>3 DEF mergeInputs
    <3> QED BY <3>2, <3>3, <3>4, <3>5, <3>6 DEF DeviceInv
  <2> QED BY <2>2, <2>3
<1>13. PassInv => PassInv'
  <2>1. ASSUME PassInv, mergeAt = "print", NEW d \in Devices, queue'[d] = <<>>,
               NEW l \in 1..Len(buffer[d]), NEW a \in Devices, NEW k \in 1..Len(queue'[a]), Earlier(a, k)'
        PROVE  queue'[a][k] < buffer[d][l]
    <3>1. d # c
      <4>1. Len(queue'[c]) > 0
        BY <1>0, <1>5, <2>1
      <4> QED BY <2>1, <4>1
    <3>2. queue[d] = <<>>
      BY <1>4, <2>1, <3>1 DEF OthersSame
    <3>3. k < Len(queue'[a])
      BY <1>3, <2>1 DEF Earlier
    <3>4. CASE a # c
      <4>1. queue'[a] = queue[a] /\ Earlier(a, k)
        BY <1>4, <3>3, <3>4 DEF OthersSame, Earlier
      <4> QED BY <2>1, <3>2, <4>1 DEF PassInv
    <3>5. CASE a = c
      <4>1. k + 1 \in 1..Len(queue[c]) /\ queue'[c][k] = queue[c][k + 1] /\ k + 1 < Len(queue[c])
        BY <1>5, <3>3, <3>5
      <4>2. Earlier(c, k + 1)
        BY <4>1 DEF Earlier
      <4>3. queue[c][k + 1] < buffer[d][l]
        BY <1>2, <2>1, <3>2, <4>1, <4>2 DEF PassInv
      <4> QED BY <3>5, <4>1, <4>3
    <3> QED BY <3>4, <3>5
  <2>2. ASSUME PassInv, mergeAt = "flush" PROVE \A y \in Queued', z \in Buffered' : y < z
    BY <1>5, <1>7, <2>2 DEF PassInv
  <2>3. mergeAt' = mergeAt /\ readset' = {} /\ buffer' = buffer
    BY <1>3
  <2> QED BY <2>1, <2>2, <2>3 DEF PassInv
<1>14. PassInv => \A e \in Queued' \cup Buffered' : Before(x, e) /\ Stamp(x) <= Stamp(e)
  <2> SUFFICES ASSUME PassInv, NEW e \in Queued' \cup Buffered'
               PROVE  Before(x, e) /\ Stamp(x) <= Stamp(e)
    OBVIOUS
  <2>1. e \in Queued \cup Buffered
    BY <1>5, <1>7
  <2>2. e # x
    <3>1. \A d \in Devices : \A l \in 1..Len(buffer[d]) : buffer[d][l] # x
      <4> SUFFICES ASSUME NEW d \in Devices, NEW l \in 1..Len(buffer[d]), buffer[d][l] = x PROVE FALSE
        OBVIOUS
      <4>1. 1 \in 1..Len(queue[c]) /\ x \in Nat
        BY <1>1, <1>5, <1>6, StampNat
      <4>2. written[x].dev = c /\ written[x].dev = d
        BY <1>1, <1>2, <4>1 DEF DeviceInv
      <4>3. x < x
        BY <1>1, <1>2, <4>1, <4>2 DEF DeviceInv
      <4> QED BY <4>1, <4>3
    <3>2. \A y : y \in Buffered <=> \E d \in Devices : \E l \in 1..Len(buffer[d]) : y = buffer[d][l]
      BY <1>1, SetFacts
    <3>3. x \notin Buffered
      BY <3>1, <3>2
    <3> QED BY <1>5, <1>7, <3>3
  <2> QED BY <1>0, <2>1, <2>2, FirstIsBefore
<1>15. PassInv /\ OrderInv => OrderInv'
  <2> SUFFICES ASSUME PassInv, OrderInv PROVE OrderInv'
    OBVIOUS
  <2>1. \A i \in 1..Len(printed'), j \in 1..Len(printed') : i < j => Before(printed'[i], printed'[j])
    <3>1. CASE print
      <4> SUFFICES ASSUME NEW i \in 1..Len(printed'), NEW j \in 1..Len(printed'), i < j
                   PROVE  Before(printed'[i], printed'[j])
        OBVIOUS
      <4>1. i \in 1..Len(printed) /\ printed'[i] = printed[i]
        BY <1>6, <1>8, <3>1
      <4>2. CASE j \in 1..Len(printed)
        BY <1>8, <3>1, <4>1, <4>2 DEF OrderInv
      <4>3. CASE j = Len(printed) + 1
        BY <1>5, <1>8, <3>1, <4>1, <4>3 DEF OrderInv
      <4> QED BY <1>6, <1>8, <3>1, <4>2, <4>3
    <3>2. CASE ~print
      BY <1>9, <3>2 DEF OrderInv
    <3> QED BY <3>1, <3>2
  <2>2. ASSUME NEW i \in 1..Len(printed'), NEW e \in Queued' \cup Buffered'
        PROVE  Before(printed'[i], e)
    <3>1. e \in Queued \cup Buffered
      BY <1>5, <1>7
    <3>2. CASE i \in 1..Len(printed) /\ printed'[i] = printed[i]
      BY <3>1, <3>2 DEF OrderInv
    <3>3. CASE printed'[i] = x
      BY <1>14, <3>3
    <3>4. print => (i \in 1..Len(printed) /\ printed'[i] = printed[i]) \/ printed'[i] = x
      BY <1>6, <1>8
    <3> QED BY <1>9, <3>2, <3>3, <3>4
  <2> QED BY <1>7, <2>1, <2>2 DEF OrderInv
<1>16. clears = 0 => TailInv'
  <2> SUFFICES ASSUME clears = 0, TailInv PROVE TailInv'
    BY DEF MergeInv
  <2>1. PassInv
    BY DEF MergeInv, ClearInv
  <2>2. options.tail \in Nat /\ options' = options /\ mergeAt' = mergeAt /\ mergeAt \in {"print", "flush"}
    BY <1>1, <1>3, LogMergeAssumption DEF MergeTypeOK, mergeInputs
  <2>3. queued_lines \in Nat /\ Cardinality(WasRead) \in Nat
    BY <1>1, SetFacts
  <2>4. Kept' = IF print THEN Kept ELSE Kept - 1
    <3>1. CASE print
      <4>1. Len(printed') = Len(printed) + 1
        BY <1>8, <3>1
      <4> QED BY <1>3, <1>6, <2>3, <3>1, <4>1 DEF Kept
    <3>2. CASE ~print
      BY <1>3, <1>6, <1>9, <2>3, <3>2 DEF Kept
    <3> QED BY <3>1, <3>2
  <2>5. Kept = Len(printed) + queued_lines /\ Kept \in Nat
    BY <1>6, <2>3 DEF Kept
  <2>6. CASE options.tail = 0
    BY <1>7, <2>2, <2>4, <2>6 DEF TailInv
  <2>7. CASE options.tail > 0
    <3>1. /\ Kept <= Cardinality(WasRead)
          /\ Kept = Cardinality(WasRead) \/ Kept >= options.tail
          /\ printed # <<>> => Kept <= options.tail /\ mergeAt \notin {"select", "read", "print"}
      BY <2>7 DEF TailInv
    <3>2. \A e \in WasRead \ (Queued \cup Range(printed)), z \in Queued \cup Buffered \cup Range(printed) :
            Stamp(e) <= Stamp(z)
      BY <2>7 DEF TailInv
    <3>3. CASE print
      <4>1. Kept' <= options.tail /\ mergeAt = "flush"
        <5>1. printed = <<>> => Len(printed) = 0
          OBVIOUS
        <5>2. mergeAt = "flush" /\ queued_lines <= options.tail
          BY <2>7, <3>3
        <5>3. Kept <= options.tail
          BY <2>3, <2>5, <3>1, <5>1, <5>2
        <5> QED BY <2>4, <3>3, <5>2, <5>3
      <4>2. /\ Queued' \cup Range(printed') = Queued \cup Range(printed)
            /\ Queued' \cup Buffered' \cup Range(printed') = Queued \cup Buffered \cup Range(printed)
        BY <1>5, <1>7, <1>8, <3>3
      <4>3. \A e \in WasRead' \ (Queued' \cup Range(printed')),
               z \in Queued' \cup Buffered' \cup Range(printed') : Stamp(e)' <= Stamp(z)'
        BY <1>7, <3>2, <4>2
      <4> QED BY <1>7, <2>2, <2>4, <2>7, <3>1, <3>3, <4>1, <4>3 DEF TailInv
    <3>4. CASE ~print
      <4>1. printed = <<>> /\ printed' = <<>>
        BY <1>6, <1>9, <2>2, <2>3, <2>5, <3>1, <3>4
      <4>2. Kept' <= Cardinality(WasRead) /\ Kept' >= options.tail
        BY <1>6, <2>2, <2>3, <2>4, <2>5, <3>1, <3>4
      <4>3. Range(printed') = {} /\ Range(printed) = {}
        BY <4>1 DEF Range
      <4>4. ASSUME NEW e \in WasRead' \ (Queued' \cup Range(printed')),
                   NEW z \in Queued' \cup Buffered' \cup Range(printed')
            PROVE  Stamp(e) <= Stamp(z)
        <5>1. z \in Queued' \cup Buffered' /\ z \in Queued \cup Buffered \cup Range(printed)
          BY <1>5, <1>7, <4>3
        <5>2. CASE e = x
          BY <1>14, <2>1, <5>1, <5>2
        <5>3. CASE e # x
          <6>1. e \in WasRead \ (Queued \cup Range(printed))
            BY <1>5, <1>7, <4>3, <5>3
          <6> QED BY <3>2, <5>1, <6>1
        <5> QED BY <5>2, <5>3
      <4> QED BY <1>7, <2>2, <2>7, <4>1, <4>2, <4>4 DEF TailInv
    <3> QED BY <3>3, <3>4
  <2> QED BY <2>2, <2>6, <2>7
<1> QED BY <1>3, <1>10, <1>11, <1>12, <1>13, <1>15, <1>16 DEF MergeInv, mergeInputs

LEMMA PrintPassStep ==
  ASSUME MergeInv, PrintPass
  PROVE  MergeInv'
<1>1. /\ mergeAt = "print" /\ readset = {}
      /\ UNCHANGED <<mergeInputs, buffer, readset, sleep, cut>>
  BY DEF PrintPass, MergeInv, ReadsInv
<1>2. CASE Printables
  <2> DEFINE print == options.tail = 0
  <2>1. Dequeue(ChooseFirst, print)
    BY <1>2 DEF PrintPass
  <2>2. options.tail \in Nat
    BY LogMergeAssumption DEF MergeInv, MergeTypeOK
  <2>3. /\ Waiting # {} /\ Len(queue[ChooseFirst]) > 1
        /\ options.tail = 0 \/ queued_lines > options.tail
    BY <1>2 DEF Printables
  <2>4. /\ print \in BOOLEAN
        /\ options.tail = 0 => print
        /\ ~(options.tail > 0 /\ print)
        /\ ~print => queued_lines > options.tail
    BY <2>2, <2>3
  <2> HIDE DEF print
  <2> QED BY <1>1, <2>1, <2>3, <2>4, DequeueStep
<1>3. CASE ~Printables
  <2>1. mergeAt' = "select" /\ UNCHANGED <<queue, queued_lines, printed>>
    BY <1>3 DEF PrintPass
  <2>2. Queued' = Queued /\ (EntriesInv => EntriesInv') /\ (OrderInv => OrderInv')
    BY <1>1, <2>1, EntriesSame DEF mergeInputs
  <2>3. MergeTypeOK'
    BY <1>1, <2>1, <2>2 DEF MergeInv, MergeTypeOK, mergeInputs
  <2>4. ReadsInv' /\ ClearInv' /\ PassInv'
    BY <1>1, <2>1 DEF MergeInv, ReadsInv, ClearInv, PassInv, mergeInputs
  <2>5. clears = 0 => TailInv'
    BY <1>1, <2>1, TailSame DEF MergeInv, mergeInputs, TailInv
  <2> QED BY <1>1, <2>1, <2>2, <2>3, <2>4, <2>5 DEF MergeInv, EntriesInv, mergeInputs
<1> QED BY <1>2, <1>3

LEMMA FlushStep ==
  ASSUME MergeInv, Flush
  PROVE  MergeInv'
<1>1. /\ mergeAt = "flush" /\ readset = {}
      /\ UNCHANGED <<mergeInputs, buffer, readset, sleep, cut>>
  BY DEF Flush, MergeInv, ReadsInv
<1>2. CASE Waiting # {}
  <2>1. Dequeue(ChooseFirst, options.tail = 0 \/ queued_lines <= options.tail)
    BY <1>2 DEF Flush
  <2>2. options.tail \in Nat /\ queued_lines \in Nat
    BY LogMergeAssumption, SetFacts DEF MergeInv, MergeTypeOK
  <2> DEFINE print == options.tail = 0 \/ queued_lines <= options.tail
  <2>3. /\ print \in BOOLEAN
        /\ options.tail = 0 => print
        /\ options.tail > 0 /\ print => queued_lines <= options.tail
        /\ ~print => queued_lines > options.tail
    BY <2>2
  <2> QED BY <1>1, <1>2, <2>1, <2>3, DequeueStep
<1>3. CASE Waiting = {}
  <2>1. mergeAt' = (IF options.nonblock THEN "ended" ELSE "select") /\ UNCHANGED <<queue, queued_lines, printed>>
    BY <1>3 DEF Flush
  <2>2. Queued' = Queued /\ (EntriesInv => EntriesInv') /\ (OrderInv => OrderInv')
    BY <1>1, <2>1, EntriesSame DEF mergeInputs
  <2>3. MergeTypeOK'
    BY <1>1, <2>1, <2>2 DEF MergeInv, MergeTypeOK, mergeInputs
  <2>4. ReadsInv' /\ ClearInv' /\ PassInv'
    BY <1>1, <2>1 DEF MergeInv, ReadsInv, ClearInv, PassInv, mergeInputs
  <2>5. Queued = {}
    <3>1. \A d \in Devices : Len(queue[d]) = 0
      BY <1>3 DEF Waiting
    <3> QED BY <3>1, SetFacts DEF MergeInv
  <2>6. options.tail > 0 => mergeAt' = "ended"
    BY <2>1, LogMergeAssumption DEF MergeInv, MergeTypeOK
  <2>7. clears = 0 => TailInv'
    BY <1>1, <2>1, <2>5, <2>6, TailSame DEF MergeInv, mergeInputs
  <2> QED BY <1>1, <2>1, <2>2, <2>3, <2>4, <2>7 DEF MergeInv, EntriesInv, mergeInputs
<1> QED BY <1>2, <1>3

LEMMA MergeStutter ==
  ASSUME MergeInv, UNCHANGED mergeVars
  PROVE  MergeInv'
<1>1. UNCHANGED <<mergeInputs, buffer, queue, mergeAt, readset, sleep, queued_lines, printed, cut>>
  BY DEF mergeVars
<1>2. Queued' = Queued /\ (EntriesInv => EntriesInv') /\ (OrderInv => OrderInv')
  BY <1>1, EntriesSame DEF mergeInputs
<1>3. MergeTypeOK'
  BY <1>1, <1>2 DEF MergeInv, MergeTypeOK, mergeInputs
<1>4. ReadsInv' /\ ClearInv' /\ (PassInv => PassInv')
  <2>1. Buffered' = Buffered
    BY <1>1, EntriesSame DEF mergeInputs
  <2> QED BY <1>1, <1>2, <2>1 DEF MergeInv, ReadsInv, ClearInv, PassInv, Earlier, mergeInputs
<1>5. clears = 0 => TailInv'
  BY <1>1, TailSame DEF MergeInv, mergeInputs, TailInv
<1> QED BY <1>1, <1>2, <1>3, <1>4, <1>5 DEF MergeInv, EntriesInv, mergeInputs

LEMMA MergeInitInv == MergeInit => MergeInv
<1> SUFFICES ASSUME MergeInit PROVE MergeInv
  OBVIOUS
<1>1. /\ options \in MergeOptions /\ written = <<>> /\ printed = <<>> /\ mergeAt = "select"
      /\ readset = {} /\ sleep = FALSE /\ queued_lines = 0 /\ cut = FALSE /\ clears = 0
      /\ \A d \in Devices : buffer[d] = <<>> /\ queue[d] = <<>>
      /\ queue \in [Devices -> Seq({})] /\ buffer \in [Devices -> Seq({})]
  BY DEF MergeInit
<1>2. DOMAIN written = {} /\ printed \in Seq(DOMAIN written) /\ written \in Seq([dev : Devices, stamp : Nat])
  BY <1>1
<1>3. Queued = {} /\ Buffered = {}
  <2>1. queue \in Lists({}) /\ buffer \in Lists({})
    BY <1>1 DEF Lists
  <2>2. Listed(queue) \subseteq {} /\ Listed(buffer) \subseteq {}
    BY <2>1, ListedFacts
  <2> QED BY <2>2 DEF Queued, Buffered
<1>4. MergeTypeOK
  <2>1. queued_lines = Cardinality(Queued)
    BY <1>1, <1>3, FS_EmptySet
  <2>2. queue \in [Devices -> Seq(DOMAIN written)] /\ buffer \in [Devices -> Seq(DOMAIN written)]
    BY <1>1, <1>2
  <2>3. clears \in 0..MaxClears
    BY <1>1, LogMergeAssumption
  <2> QED BY <1>1, <1>2, <2>1, <2>2, <2>3 DEF MergeTypeOK
<1>5. StampInv /\ ReadsInv /\ ClearInv
  BY <1>1, <1>2 DEF StampInv, ReadsInv, ClearInv
<1>6. ASSUME NEW d \in Devices PROVE DeviceInv(d)
  BY <1>1 DEF DeviceInv
<1>7. PassInv /\ OrderInv
  BY <1>1 DEF PassInv, OrderInv
<1>8. TailInv
  <2>1. WasRead = {} /\ Cardinality(WasRead) = 0
    BY <1>2, <1>3, FS_EmptySet DEF WasRead
  <2>2. Kept = 0
    BY <1>1 DEF Kept
  <2>3. options.tail \in Nat
    BY <1>1, LogMergeAssumption
  <2> QED BY <1>1, <1>3, <2>1, <2>2, <2>3 DEF TailInv
<1> QED BY <1>4, <1>5, <1>6, <1>7, <1>8 DEF MergeInv

\* The invariant of the merge: every step keeps it.
LEMMA MergeInductive == MergeInv /\ [MergeNext]_mergeVars => MergeInv'
<1> SUFFICES ASSUME MergeInv, [MergeNext]_mergeVars PROVE MergeInv'
  OBVIOUS
<1>1. ASSUME NEW d \in Devices, WriteEntry(d) PROVE MergeInv'
  BY <1>1, WriteEntryStep
<1>2. ASSUME NEW d \in Devices, ClearBuffer(d) PROVE MergeInv'
  BY <1>2, ClearBufferStep
<1>3. CASE Select
  BY <1>3, SelectStep
<1>4. CASE ReadEntry
  BY <1>4, ReadEntryStep
<1>5. CASE PassRead
  BY <1>5, PassReadStep
<1>6. CASE PrintPass
  BY <1>6, PrintPassStep
<1>7. CASE Flush
  BY <1>7, FlushStep
<1>8. CASE ReadInterrupted
  BY <1>8, ReadInterruptedStep
<1>9. CASE ReadAgain
  BY <1>9, ReadAgainStep
<1>10. CASE Fail
  BY <1>10, FailStep
<1>11. CASE UNCHANGED mergeVars
  BY <1>11, MergeStutter
<1> QED BY <1>1, <1>2, <1>3, <1>4, <1>5, <1>6, <1>7, <1>8, <1>9, <1>10, <1>11 DEF MergeNext, ReadLogLines

LEMMA MergeInvariant == MergeSpec => []MergeInv
BY MergeInitInv, MergeInductive, PTL DEF MergeSpec

\* The type invariant, with what queued_lines counts.
THEOREM MergeTypeCorrect == MergeSpec => []MergeTypeOK
<1>1. MergeInv => MergeTypeOK
  BY DEF MergeInv
<1> QED BY <1>1, MergeInvariant, PTL

LEMMA MinOfTwo ==
  ASSUME NEW a \in Nat, NEW b \in Nat
  PROVE  Min({a, b}) = IF a <= b THEN a ELSE b
<1>1. Min({a, b}) \in {a, b} /\ \A y \in {a, b} : Min({a, b}) <= y
  BY MinFacts
<1> QED BY <1>1

LEMMA MergeInvImplies == MergeInv => PrintsInOrder
<1> SUFFICES ASSUME MergeInv PROVE PrintsInOrder
  OBVIOUS
<1>1. MergeTypeOK
  BY DEF MergeInv
<1>2. ASSUME ~cut
      PROVE  \A i, j \in DOMAIN printed : i < j =>
               \/ Stamp(printed[i]) < Stamp(printed[j])
               \/ /\ Stamp(printed[i]) = Stamp(printed[j])
                  /\ written[printed[i]].dev = written[printed[j]].dev => printed[i] < printed[j]
  <2>1. DOMAIN printed = 1..Len(printed)
    BY <1>1 DEF MergeTypeOK
  <2> QED BY <1>2, <2>1 DEF MergeInv, OrderInv, Before
<1> DEFINE read == DOMAIN written \ Buffered
<1>3. read = WasRead
  BY DEF WasRead
<1>4. ASSUME clears = 0, options.tail = 0
      PROVE  Len(printed) + queued_lines = Cardinality(read)
  BY <1>3, <1>4 DEF MergeInv, TailInv, Kept
<1>5. ASSUME clears = 0, mergeAt = "ended", options.tail > 0
      PROVE  /\ Len(printed) = Min({options.tail, Cardinality(read)})
             /\ \A e \in read \ Range(printed), p \in Range(printed) : Stamp(e) <= Stamp(p)
  <2>1. /\ Queued = {} /\ Kept <= Cardinality(WasRead)
        /\ Kept = Cardinality(WasRead) \/ Kept >= options.tail
        /\ printed # <<>> => Kept <= options.tail
        /\ \A e \in WasRead \ (Queued \cup Range(printed)), z \in Queued \cup Buffered \cup Range(printed) :
             Stamp(e) <= Stamp(z)
    BY <1>5 DEF MergeInv, TailInv
  <2>2. queued_lines = 0
    BY <1>1, <2>1, FS_EmptySet DEF MergeTypeOK
  <2>3. options.tail \in Nat /\ Cardinality(WasRead) \in Nat /\ Len(printed) \in Nat
    BY <1>1, LogMergeAssumption, SetFacts, TypeFacts DEF MergeTypeOK
  <2>4. Kept = Len(printed) /\ (printed = <<>> => Len(printed) = 0)
    BY <2>2, <2>3 DEF Kept
  <2>5. Len(printed) = Min({options.tail, Cardinality(WasRead)})
    <3>1. Len(printed) <= options.tail
      BY <2>1, <2>3, <2>4
    <3>2. Min({options.tail, Cardinality(WasRead)}) =
            IF options.tail <= Cardinality(WasRead) THEN options.tail ELSE Cardinality(WasRead)
      BY <2>3, MinOfTwo
    <3> QED BY <2>1, <2>3, <2>4, <3>1, <3>2
  <2> QED BY <1>3, <2>1, <2>5
<1> QED BY <1>2, <1>4, <1>5 DEF PrintsInOrder

\* However many devices, entries, cleared buffers and interrupted reads: the output is in
\* the order of the stamps, nothing that was read is dropped, and -t ends with the last lines.
THEOREM MergePrintsInOrder == MergeSpec => []PrintsInOrder
BY MergeInvImplies, MergeInvariant, PTL

(***************************************************************************)
(* KmsgCopy: what the byte skipped after every message costs.              *)
(***************************************************************************)
\* The numbers 0, 1, ... of the first n bytes, in order.
Upto(n) == [k \in 1..n |-> k - 1]

\* All bytes before cur were written, and each line among them has its mark or its
\* newline has; of the bytes from cur to scan only the first may be a newline, and that
\* only when it was skipped; the scan ends with a message, or one byte after one.
WrittenInv ==
  /\ logged = Upto(cur)
  /\ \A p \in 0..cur - 2 : Byte(p) = "nl" => p + 1 \in marks \/ p \in marks
  /\ cur = 0 => \A p \in 0..scan - 1 : Byte(p) # "nl"
  /\ \A p \in cur + 1..scan - 1 : p < Bytes => Byte(p) # "nl"
  /\ cur > 0 => scan > cur
  /\ cur > 0 /\ cur < Bytes => Byte(cur - 1) = "nl"
  /\ scan >= Bytes => cur >= Bytes - 1 /\ (Bytes > 0 => cur > 0)
  /\ kmsgAt = "read" => scan >= Bytes

KmsgInv ==
  KmsgTypeOK /\ cur <= scan /\ (kmsgAt # "exit" /\ ~kmsgFailed => WrittenInv)

\* A message from first to last goes on where the output ended.
LEMMA UptoMore ==
  ASSUME NEW m \in Nat, NEW n \in Nat, NEW s, NEW t,
         s = Upto(m), t = [k \in 1..n |-> m + k - 1]
  PROVE  s \o t = Upto(m + n)
<1>1. s \in [1..m -> Nat] /\ t \in [1..n -> Nat]
  BY DEF Upto
<1>2. s \in Seq(Nat) /\ Len(s) = m /\ t \in Seq(Nat) /\ Len(t) = n
  <2>2. s \in Seq(Nat) /\ t \in Seq(Nat)
    BY <1>1, SeqDef
  <2>3. DOMAIN s = 1..m /\ DOMAIN t = 1..n
    BY <1>1
  <2>4. DOMAIN s = 1..Len(s) /\ DOMAIN t = 1..Len(t) /\ Len(s) \in Nat /\ Len(t) \in Nat
    BY <2>2
  <2> QED BY <2>2, <2>3, <2>4
<1>3. \A k \in 1..m : s[k] = k - 1
  BY DEF Upto
<1>4. \A k \in 1..n : t[k] = m + k - 1
  OBVIOUS
<1> DEFINE r == s \o t
<1> HIDE DEF r
<1>5. r \in Seq(Nat) /\ Len(r) = m + n
  BY <1>2 DEF r
<1>6. \A k \in 1..(m + n) : r[k] = k - 1
  <2> SUFFICES ASSUME NEW k \in 1..(m + n) PROVE r[k] = k - 1
    OBVIOUS
  <2>1. CASE k <= m
    <3>1. r[k] = s[k]
      BY <1>2, <2>1 DEF r
    <3> QED BY <1>3, <2>1, <3>1
  <2>2. CASE ~(k <= m)
    <3>1. k - m \in 1..n
      BY <2>2
    <3>2. r[k] = t[k - Len(s)]
      BY <1>2, <2>2 DEF r
    <3>3. t[k - m] = k - 1
      BY <1>4, <3>1
    <3> QED BY <1>2, <3>2, <3>3
  <2> QED BY <2>1, <2>2
<1>7. r = [k \in 1..(m + n) |-> r[k]]
  BY <1>5
<1>8. r = Upto(m + n)
  BY <1>6, <1>7 DEF Upto
<1> QED BY <1>8 DEF r

LEMMA UptoZero == Upto(0) = <<>>
BY DEF Upto

LEMMA UptoLen ==
  ASSUME NEW m \in Nat
  PROVE  Len(Upto(m)) = m
<1> DEFINE s == Upto(m)
<1>1. s \in [1..m -> Nat]
  BY DEF Upto
<1>2. Seq(Nat) = UNION {[1..j -> Nat] : j \in Nat}
  OBVIOUS
<1> HIDE DEF s
<1>3. s \in Seq(Nat) /\ DOMAIN s = 1..m
  BY <1>1, <1>2
<1>4. DOMAIN s = 1..Len(s) /\ Len(s) \in Nat
  BY <1>3
<1>5. Len(s) = m
  BY <1>3, <1>4
<1> QED BY <1>5 DEF s

\* The values of KmsgTypeOK the steps below work with.
LEMMA KmsgFacts ==
  ASSUME KmsgTypeOK
  PROVE  /\ MaxBytes \in Nat /\ Bytes \in Nat /\ Bytes <= MaxBytes
         /\ scan \in Nat /\ cur \in Nat /\ cur <= Bytes
<1>1. MaxBytes \in Nat
  BY KmsgCopyAssumption
<1>2. Bytes \in Nat
  BY DEF KmsgTypeOK, Bytes
<1>3. scan \in 0..MaxBytes + 1 /\ cur \in 0..Bytes /\ Bytes <= MaxBytes
  BY DEF KmsgTypeOK
<1> QED BY <1>1, <1>2, <1>3

LEMMA KmsgInitInv == KmsgInit => KmsgInv
<1> SUFFICES ASSUME KmsgInit PROVE KmsgInv
  OBVIOUS
<1>1. /\ kmsgAt = "read" /\ kbuffer = <<>> /\ scan = 0 /\ cur = 0 /\ logged = <<>> /\ marks = {}
  BY DEF KmsgInit
<1>2. Bytes = 0 /\ kbuffer \in Seq({"c", "nl"})
  BY <1>1 DEF Bytes
<1>3. MaxBytes \in Nat
  BY KmsgCopyAssumption
<1>4. kmsgFailed \in BOOLEAN
  BY Zenon DEF KmsgInit
<1>5. KmsgTypeOK
  BY <1>1, <1>2, <1>3, <1>4 DEF KmsgTypeOK
<1>6. WrittenInv
  BY <1>1, <1>2, UptoZero DEF WrittenInv
<1> QED BY <1>1, <1>5, <1>6 DEF KmsgInv

LEMMA ReadKeeps ==
  ASSUME KmsgInv, ReadKernel
  PROVE  KmsgInv'
<1>0. MaxBytes \in Nat /\ KmsgTypeOK /\ cur <= scan
  BY KmsgCopyAssumption DEF KmsgInv
<1>1. CASE kmsgAt' = "exit" /\ UNCHANGED <<kbuffer, scan, cur, logged, marks, kmsgFailed>>
  <2>1. KmsgTypeOK'
    BY <1>0, <1>1 DEF KmsgTypeOK, Bytes
  <2> QED BY <1>0, <1>1, <2>1 DEF KmsgInv
<1>2. CASE /\ \E n \in 1..MaxBytes : kbuffer' \in [1..n -> {"c", "nl"}]
           /\ kmsgAt' = "scan"
           /\ scan' = 0 /\ cur' = 0 /\ logged' = <<>> /\ marks' = {} /\ kmsgFailed' = FALSE
  <2>1. PICK n \in 1..MaxBytes : kbuffer' \in [1..n -> {"c", "nl"}]
    BY <1>2
  <2>2. kbuffer' \in Seq({"c", "nl"}) /\ Len(kbuffer') = n
    <3>1. Seq({"c", "nl"}) = UNION {[1..j -> {"c", "nl"}] : j \in Nat}
      OBVIOUS
    <3>2. n \in Nat
      BY <1>0
    <3>3. kbuffer' \in Seq({"c", "nl"}) /\ DOMAIN kbuffer' = 1..n
      BY <2>1, <3>1, <3>2
    <3>4. DOMAIN kbuffer' = 1..Len(kbuffer') /\ Len(kbuffer') \in Nat
      BY <3>3
    <3> QED BY <3>2, <3>3, <3>4
  <2>3. Bytes' = n
    BY <2>2 DEF Bytes
  <2>4. kmsgFailed' \in BOOLEAN
    BY <1>2, Zenon
  <2>5. KmsgTypeOK'
    BY <1>0, <1>2, <2>2, <2>3, <2>4 DEF KmsgTypeOK
  <2>6. WrittenInv'
    BY <1>2, <2>3, UptoZero DEF WrittenInv
  <2> QED BY <1>2, <2>5, <2>6 DEF KmsgInv
<1> QED BY <1>1, <1>2 DEF ReadKernel

\* The loop, with and without a message.
LEMMA ScanKeeps ==
  ASSUME KmsgInv, Scan
  PROVE  KmsgInv'
<1>0. /\ KmsgTypeOK /\ cur <= scan /\ kmsgAt = "scan" /\ scan < Bytes /\ kbuffer' = kbuffer
      /\ (~kmsgFailed => WrittenInv)
  BY DEF KmsgInv, Scan
<1>1. /\ MaxBytes \in Nat /\ Bytes \in Nat /\ Bytes <= MaxBytes
      /\ scan \in Nat /\ cur \in Nat /\ cur <= Bytes
  BY <1>0, KmsgFacts
<1>2. Bytes' = Bytes /\ \A p : Byte(p)' = Byte(p)
  BY <1>0 DEF Bytes, Byte
<1>3. CASE LineEnds(scan)
  <2>1. WriteMessage(cur, scan) /\ cur' = scan + 1 /\ scan' = scan + 2
    BY <1>3 DEF Scan
  <2>2. marks' \subseteq 0..Bytes - 1
    <3>1. marks \subseteq 0..Bytes - 1 /\ cur \in 0..Bytes - 1
      BY <1>0, <1>1 DEF KmsgTypeOK
    <3>2. marks' = marks \/ marks' = marks \cup {cur}
      BY <2>1 DEF WriteMessage
    <3> QED BY <3>1, <3>2
  <2>3. kmsgAt' \in {"scan", "exit"}
    BY <1>0, <2>1 DEF WriteMessage
  <2>4. kmsgFailed' \in BOOLEAN
    <3>1. kmsgFailed \in BOOLEAN
      BY <1>0 DEF KmsgTypeOK
    <3> QED BY <2>1, <3>1, Zenon DEF WriteMessage
  <2>5. KmsgTypeOK'
    BY <1>0, <1>1, <1>2, <2>1, <2>2, <2>3, <2>4 DEF KmsgTypeOK
  <2>6. ASSUME kmsgAt' # "exit", ~kmsgFailed' PROVE WrittenInv'
    <3>1. /\ logged' = logged \o [k \in 1..(scan - cur + 1) |-> cur + k - 1]
          /\ marks' = marks \cup {cur} /\ kmsgAt' = kmsgAt /\ kmsgFailed' = kmsgFailed
      BY <2>1, <2>6 DEF WriteMessage
    <3>2. WrittenInv
      BY <1>0, <2>6, <3>1
    <3>3. logged' = Upto(cur')
      <4>1. logged = Upto(cur) /\ scan - cur + 1 \in Nat /\ cur + (scan - cur + 1) = scan + 1
        BY <1>0, <1>1, <3>2 DEF WrittenInv
      <4> DEFINE n == scan - cur + 1
                 t == [k \in 1..n |-> cur + k - 1]
      <4>2. n \in Nat /\ cur + n = scan + 1
        BY <4>1
      <4>3. t = [k \in 1..n |-> cur + k - 1] /\ logged' = logged \o t
        BY <3>1
      <4> HIDE DEF n, t
      <4>4. logged \o t = Upto(cur + n)
        <5>1. cur \in Nat /\ n \in Nat /\ logged = Upto(cur) /\ t = [k \in 1..n |-> cur + k - 1]
          BY <1>1, <4>1, <4>2, <4>3
        <5> QED BY <5>1, UptoMore, Zenon
      <4> QED BY <2>1, <4>2, <4>3, <4>4
    <3>4. ASSUME NEW p \in 0..cur' - 2, Byte(p) = "nl"
          PROVE  p + 1 \in marks' \/ p \in marks'
      <4>1. p \in 0..scan - 1
        BY <1>1, <2>1
      <4>2. CASE p \in 0..cur - 2
        BY <3>1, <3>2, <3>4, <4>2 DEF WrittenInv
      <4>3. CASE p + 1 = cur \/ p = cur
        BY <3>1, <4>3
      <4>4. CASE p \in cur + 1..scan - 1
        <5>1. p < Bytes
          BY <1>0, <1>1, <4>1
        <5> QED BY <3>2, <3>4, <4>4, <5>1 DEF WrittenInv
      <4>5. p \in 0..cur - 2 \/ p + 1 = cur \/ p = cur \/ p \in cur + 1..scan - 1
        BY <1>1, <4>1
      <4> QED BY <4>2, <4>3, <4>4, <4>5
    <3>5. cur' < Bytes => Byte(cur' - 1) = "nl"
      <4>1. cur' - 1 = scan
        BY <1>1, <2>1
      <4>2. cur' < Bytes => scan # Bytes - 1
        BY <1>1, <2>1
      <4> QED BY <1>3, <4>1, <4>2 DEF LineEnds
    <3>6. /\ cur' > 0 /\ scan' > cur' /\ (scan' >= Bytes => cur' >= Bytes - 1)
          /\ \A p \in cur' + 1..scan' - 1 : FALSE
      BY <1>1, <2>1
    <3>7. kmsgAt' # "read"
      BY <1>0, <3>1
    <3> QED BY <1>2, <3>3, <3>4, <3>5, <3>6, <3>7 DEF WrittenInv
  <2>7. cur' <= scan'
    BY <1>1, <2>1
  <2> QED BY <2>5, <2>6, <2>7 DEF KmsgInv
<1>4. CASE ~LineEnds(scan)
  <2>1. scan' = scan + 1 /\ UNCHANGED <<kmsgAt, cur, logged, marks, kmsgFailed>>
    BY <1>4 DEF Scan
  <2>2. Byte(scan) # "nl" /\ scan # Bytes - 1
    BY <1>4 DEF LineEnds
  <2>3. KmsgTypeOK'
    BY <1>0, <1>1, <1>2, <2>1 DEF KmsgTypeOK
  <2>4. cur' <= scan'
    BY <1>0, <1>1, <2>1
  <2>5. ASSUME ~kmsgFailed' PROVE WrittenInv'
    <3>1. WrittenInv
      BY <1>0, <2>1, <2>5
    <3>2. logged' = Upto(cur') /\ kmsgAt' # "read"
      BY <1>0, <2>1, <3>1 DEF WrittenInv
    <3>3. \A p \in 0..cur' - 2 : Byte(p) = "nl" => p + 1 \in marks' \/ p \in marks'
      BY <2>1, <3>1 DEF WrittenInv
    <3>4. cur' = 0 => \A p \in 0..scan' - 1 : Byte(p) # "nl"
      <4>1. \A p \in 0..scan' - 1 : p \in 0..scan - 1 \/ p = scan
        BY <1>1, <2>1
      <4> QED BY <2>1, <2>2, <3>1, <4>1 DEF WrittenInv
    <3>5. \A p \in cur' + 1..scan' - 1 : p < Bytes => Byte(p) # "nl"
      <4>1. \A p \in cur' + 1..scan' - 1 : p \in cur + 1..scan - 1 \/ p = scan
        BY <1>1, <2>1
      <4> QED BY <2>2, <3>1, <4>1 DEF WrittenInv
    <3>6. (cur' > 0 => scan' > cur') /\ (cur' > 0 /\ cur' < Bytes => Byte(cur' - 1) = "nl")
      BY <1>1, <2>1, <3>1 DEF WrittenInv
    <3>7. ~(scan' >= Bytes)
      BY <1>0, <1>1, <2>1, <2>2
    <3> QED BY <1>2, <3>2, <3>3, <3>4, <3>5, <3>6, <3>7 DEF WrittenInv
  <2> QED BY <2>3, <2>4, <2>5 DEF KmsgInv
<1> QED BY <1>3, <1>4

LEMMA KmsgStepInv == KmsgInv /\ [KmsgNext]_kmsgVars => KmsgInv'
<1> SUFFICES ASSUME KmsgInv, [KmsgNext]_kmsgVars PROVE KmsgInv'
  OBVIOUS
<1>1. CASE ScanEnd
  <2>1. /\ kmsgAt = "scan" /\ scan >= Bytes /\ kmsgAt' = "read"
        /\ UNCHANGED <<kbuffer, scan, cur, logged, marks, kmsgFailed>>
    BY <1>1 DEF ScanEnd
  <2>2. KmsgTypeOK' /\ cur' <= scan'
    BY <2>1 DEF KmsgInv, KmsgTypeOK, Bytes
  <2>3. ASSUME ~kmsgFailed PROVE WrittenInv'
    <3>1. WrittenInv
      BY <2>1, <2>3 DEF KmsgInv
    <3> QED BY <2>1, <3>1 DEF WrittenInv, Bytes, Byte
  <2> QED BY <2>1, <2>2, <2>3 DEF KmsgInv
<1>2. CASE UNCHANGED kmsgVars
  BY <1>2 DEF kmsgVars, KmsgInv, KmsgTypeOK, WrittenInv, Bytes, Byte
<1> QED BY <1>1, <1>2, ReadKeeps, ScanKeeps DEF KmsgNext

LEMMA KmsgEnds == KmsgInv => KmsgLosesLittle
<1> SUFFICES ASSUME KmsgInv, kmsgAt = "read", ~kmsgFailed
             PROVE  LET n == Len(logged)
                    IN /\ logged = [k \in 1..n |-> k - 1]
                       /\ n = Bytes \/ (n = Bytes - 1 /\ n > 0 /\ Byte(n - 1) = "nl")
                       /\ \A p \in 0..n - 2 : Byte(p) = "nl" => p + 1 \in marks \/ p \in marks
  BY DEF KmsgLosesLittle
<1>1. WrittenInv /\ KmsgTypeOK
  BY DEF KmsgInv
<1>2. cur \in Nat /\ Bytes \in Nat /\ cur <= Bytes
  BY <1>1, KmsgFacts
<1>3. logged = Upto(cur) /\ Len(logged) = cur
  BY <1>1, <1>2, UptoLen DEF WrittenInv
<1>4. cur >= Bytes - 1 /\ (Bytes > 0 => cur > 0)
  BY <1>1 DEF WrittenInv
<1>5. cur = Bytes \/ (cur = Bytes - 1 /\ cur > 0 /\ Byte(cur - 1) = "nl")
  <2>1. cur = Bytes \/ (cur = Bytes - 1 /\ cur > 0 /\ cur < Bytes)
    BY <1>2, <1>4
  <2> QED BY <1>1, <2>1 DEF WrittenInv
<1>6. \A p \in 0..cur - 2 : Byte(p) = "nl" => p + 1 \in marks \/ p \in marks
  BY <1>1 DEF WrittenInv
<1> QED BY <1>3, <1>5, <1>6 DEF Upto

\* log_loop writes a chunk once and in order and loses at most its last byte, which
\* then follows a newline; every line has a mark but one after an empty line.  For
\* every size of the buffer and every chunk the kernel returns.
THEOREM KmsgCopies == KmsgSpec => []KmsgLosesLittle
BY KmsgEnds, KmsgInitInv, KmsgStepInv, PTL DEF KmsgSpec

(***************************************************************************)
(* The machines of MCLogs in one behaviour.                                *)
(***************************************************************************)
ProgramsInv == ControlInv /\ MergeInv /\ KmsgInv

\* A step of the instance is a step of each machine, or leaves its variables alone.
LEMMA LogsSteps ==
  [LogsNext]_logsVars =>
    /\ [ControlNext]_controlVars
    /\ [MergeNext]_mergeVars
    /\ [KmsgNext]_kmsgVars
BY DEF LogsNext, logsVars

LEMMA InitPrograms == LogsInit => ProgramsInv
BY ControlInitInv, MergeInitInv, KmsgInitInv DEF LogsInit, ProgramsInv

LEMMA StepPrograms == ProgramsInv /\ [LogsNext]_logsVars => ProgramsInv'
BY LogsSteps, ControlStepInv, MergeInductive, KmsgStepInv DEF ProgramsInv

\* The switches, asuslogcat and dumpkmsg keep their types and their promises when one of
\* them runs and the others rest, for any devices, entries, chunks and deaths.
THEOREM LogsCorrect ==
  LogsSpec => [](/\ LogsTypeOK /\ PrintsInOrder /\ KmsgLosesLittle
                 /\ NoLogLost /\ OnOnlyIfWanted)
<1>1. ProgramsInv => LogsTypeOK
  BY ControlFacts DEF ProgramsInv, MergeInv, KmsgInv, LogsTypeOK
<1>2. ProgramsInv => PrintsInOrder /\ KmsgLosesLittle /\ NoLogLost /\ OnOnlyIfWanted
  BY ControlFacts, MergeInvImplies, KmsgEnds DEF ProgramsInv
<1> QED BY <1>1, <1>2, InitPrograms, StepPrograms, PTL DEF LogsSpec
=============================================================================
