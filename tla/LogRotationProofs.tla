------------------------- MODULE LogRotationProofs -------------------------
(***************************************************************************)
(* The rotation trims its log at the old end, for every number of files up *)
(* to 99 (the two digits the names are made for), every number of crashes  *)
(* and every sequence of raises of the property.                           *)
(***************************************************************************)
EXTENDS LogRotation, TLAPS

\* The property is only raised, the counter is always written, and the index
\* has at most two digits.
Regular == ~MayShrink /\ ~EchoFails /\ \A m \in RotateNums : m <= 99

\* Index i was used after index j when the counter stands at lastIdx.
Newer(i, j) ==
  \/ i <= lastIdx /\ j > lastIdx
  \/ i > j /\ (i <= lastIdx \/ j > lastIdx)

\* The files have distinct indices in range, older ones at older indices.
OrderInv ==
  /\ lastIdx = Absent => files = {}
  /\ lastIdx # Absent => lastIdx \in 1..rotateNum
  /\ \A f \in files : f.idx <= rotateNum
  /\ \A f, g \in files : f.idx = g.idx => f = g
  /\ \A f, g \in files : Newer(f.idx, g.idx) => g.gen < f.gen

\* The index being prepared is the one after lastIdx, and is free once the
\* counter is about to be written.
PcInv ==
  /\ pc = "delete" => lastIdx # Absent
  /\ pc \in {"delete", "echo"} =>
       \/ lastIdx = Absent /\ mCurrent = 1
       \/ lastIdx # Absent /\ mCurrent = lastIdx + 1 /\ mCurrent <= rotateNum
       \/ lastIdx # Absent /\ mCurrent = 1 /\ \A f \in files : f.idx <= lastIdx
  /\ pc = "open" => lastIdx = mCurrent
  /\ pc \in {"echo", "open"} => \A f \in files : f.idx # mCurrent

Inv == TypeOK /\ OrderInv /\ PcInv

\* Below 100 the pattern of rm matches its own index only.
LEMMA MatchesOne ==
  ASSUME NEW i \in Nat, NEW j \in Nat, j <= 99
  PROVE  Matches(i, j) <=> i = j
BY DEF Matches

LEMMA NumsFacts == RotateNums \subseteq Nat \ {0}
BY RotationAssumption

LEMMA InitInv == Init => Inv
BY NumsFacts DEF Init, Inv, TypeOK, OrderInv, PcInv, Absent

LEMMA TypeStep == TypeOK /\ [Next]_vars => TypeOK'
<1> SUFFICES ASSUME TypeOK, [Next]_vars PROVE TypeOK' OBVIOUS
<1> USE NumsFacts DEF TypeOK, Absent
<1>1. CASE ReadIdx BY <1>1 DEF ReadIdx
<1>2. CASE DeleteExist BY <1>2 DEF DeleteExist
<1>3. CASE EchoIdx BY <1>3 DEF EchoIdx
<1>4. CASE OpenLog
  <2>1. [idx |-> mCurrent, gen |-> gen + 1] \in [idx : Nat \ {0}, gen : 1..(gen + 1)]
    OBVIOUS
  <2>2. \A f \in files : f \in [idx : Nat \ {0}, gen : 1..(gen + 1)] OBVIOUS
  <2> QED BY <1>4, <2>1, <2>2 DEF OpenLog
<1>5. CASE Crash BY <1>5 DEF Crash
<1>6. CASE \E m \in RotateNums : SetRotateNum(m) BY <1>6 DEF SetRotateNum
<1>7. CASE UNCHANGED vars BY <1>7 DEF vars
<1> QED BY <1>1, <1>2, <1>3, <1>4, <1>5, <1>6, <1>7 DEF Next

\* What deleteExistpathbyId removes is older than what it leaves.
LEMMA DeleteOldest ==
  ASSUME Regular, Inv, DeleteExist, NEW f \in files \ files', NEW g \in files'
  PROVE  f.gen < g.gen /\ f.idx = mCurrent /\ g.idx # mCurrent
<1> USE DEF Inv, TypeOK
<1>1. /\ f \in files /\ g \in files
      /\ f.idx \in Nat \ {0} /\ g.idx \in Nat \ {0}
      /\ f.idx <= 99 /\ g.idx <= 99
  BY NumsFacts DEF DeleteExist, Regular, OrderInv
<1>2. f.idx = mCurrent /\ g.idx # mCurrent
  BY <1>1, MatchesOne DEF DeleteExist
<1>3. Newer(g.idx, f.idx)
  BY <1>1, <1>2, NumsFacts DEF Newer, PcInv, OrderInv, DeleteExist, Absent
<1> QED BY <1>1, <1>2, <1>3 DEF OrderInv

LEMMA InvStep == Regular => (Inv /\ [Next]_vars => Inv')
<1> SUFFICES ASSUME Regular, Inv, [Next]_vars PROVE OrderInv' /\ PcInv'
  BY TypeStep DEF Inv
<1> USE NumsFacts DEF Inv, TypeOK, Absent
<1>1. CASE ReadIdx
  <2>1. OrderInv' BY <1>1 DEF ReadIdx, OrderInv, Newer
  <2>2. PcInv' BY <1>1 DEF ReadIdx, OrderInv, PcInv
  <2> QED BY <2>1, <2>2
<1>2. CASE DeleteExist
  <2>1. files' \subseteq files BY <1>2 DEF DeleteExist
  <2>2. OrderInv' BY <1>2, <2>1 DEF DeleteExist, OrderInv, Newer
  <2>3. \A f \in files' : f.idx # mCurrent BY <1>2 DEF DeleteExist, Matches
  <2>4. PcInv' BY <1>2, <2>1, <2>3 DEF DeleteExist, PcInv
  <2> QED BY <2>2, <2>4
<1>3. CASE EchoIdx
  <2>0. lastIdx' = mCurrent /\ UNCHANGED <<files, mCurrent, rotateNum>>
    BY <1>3 DEF EchoIdx, Regular
  <2>1. \A f \in files : f.idx # mCurrent /\ f.idx \in Nat \ {0} BY <1>3 DEF EchoIdx, PcInv
  <2>2. ASSUME NEW f \in files, NEW g \in files, Newer(f.idx, g.idx)'
        PROVE  Newer(f.idx, g.idx)
    BY <1>3, <2>0, <2>1, <2>2 DEF EchoIdx, Newer, PcInv, OrderInv
  <2>3. mCurrent \in 1..rotateNum BY <1>3 DEF EchoIdx, PcInv, OrderInv
  <2>4. OrderInv' BY <2>0, <2>2, <2>3 DEF OrderInv
  <2>5. PcInv' BY <1>3, <2>0, <2>1 DEF EchoIdx, PcInv
  <2> QED BY <2>4, <2>5
<1>4. CASE OpenLog
  <2> DEFINE new == [idx |-> mCurrent, gen |-> gen + 1]
  <2>0. files' = files \cup {new} /\ UNCHANGED <<lastIdx, rotateNum>> /\ lastIdx = mCurrent
    BY <1>4 DEF OpenLog, PcInv
  <2>1. \A f \in files : /\ f.idx # mCurrent /\ f.idx \in Nat \ {0} /\ f.gen <= gen
                         /\ f.gen \in Nat
    BY <1>4 DEF OpenLog, PcInv
  <2>2. new.idx = mCurrent /\ new.gen = gen + 1 OBVIOUS
  <2>3. \A f \in files : ~Newer(f.idx, new.idx) /\ f.gen < new.gen
    BY <2>0, <2>1, <2>2 DEF Newer
  <2>4. ~Newer(new.idx, new.idx) BY <2>0, <2>2 DEF Newer
  <2>5. mCurrent <= rotateNum BY <2>0 DEF OrderInv
  <2> HIDE DEF new
  <2>6. \A f, g \in files' : Newer(f.idx, g.idx) => g.gen < f.gen
    BY <2>0, <2>3, <2>4 DEF OrderInv
  <2>7. \A f, g \in files' : f.idx = g.idx => f = g
    BY <2>0, <2>1, <2>2 DEF OrderInv
  <2>8. \A f, g \in files' : Newer(f.idx, g.idx)' => g.gen < f.gen
    BY <2>0, <2>6 DEF Newer
  <2>9. OrderInv' BY <2>0, <2>2, <2>5, <2>7, <2>8 DEF OrderInv
  <2>10. PcInv' BY <1>4 DEF OpenLog, PcInv
  <2> QED BY <2>9, <2>10
<1>5. CASE Crash
  <2>1. OrderInv' BY <1>5 DEF Crash, OrderInv, Newer
  <2>2. PcInv' BY <1>5 DEF Crash, PcInv
  <2> QED BY <2>1, <2>2
<1>6. CASE \E m \in RotateNums : SetRotateNum(m)
  <2>1. PICK m \in RotateNums : SetRotateNum(m) BY <1>6
  <2>2. rotateNum' \in Nat /\ rotateNum' > rotateNum /\ rotateNum \in Nat
    BY <2>1 DEF SetRotateNum, Regular
  <2>3. UNCHANGED <<pc, lastIdx, mCurrent, files>> BY <2>1 DEF SetRotateNum
  <2>4. OrderInv' BY <2>2, <2>3 DEF OrderInv, Newer
  <2>5. PcInv' BY <2>2, <2>3 DEF PcInv
  <2> QED BY <2>4, <2>5
<1>7. CASE UNCHANGED vars BY <1>7 DEF vars, OrderInv, PcInv, Newer
<1> QED BY <1>1, <1>2, <1>3, <1>4, <1>5, <1>6, <1>7 DEF Next

\* Only DeleteExist removes files.
LEMMA OthersAdd ==
  ASSUME [Next]_vars, ~DeleteExist
  PROVE  files \subseteq files'
BY DEF Next, ReadIdx, EchoIdx, OpenLog, Crash, SetRotateNum, vars

LEMMA OldestStep ==
  ASSUME Regular, Inv, [Next]_vars
  PROVE  \A f \in files \ files', g \in files' : f.gen < g.gen
<1> SUFFICES ASSUME NEW f \in files \ files', NEW g \in files' PROVE f.gen < g.gen
  OBVIOUS
<1>1. DeleteExist BY OthersAdd
<1> QED BY <1>1, DeleteOldest

\* Every removal of deleteExistpathbyId takes the oldest file that is left.
THEOREM RotationOldestFirst == Regular => (Spec => OldestFirst)
<1> SUFFICES ASSUME Regular PROVE Spec => OldestFirst OBVIOUS
<1>1. Inv /\ [Next]_vars => [\A f \in files \ files', g \in files' : f.gen < g.gen]_vars
  BY OldestStep
<1> QED BY <1>1, InitInv, InvStep, PTL DEF Spec, OldestFirst

LEMMA ImplementsInit == Init => Abstract!Init
BY DEF Init, Abstract!Init

LEMMA ImplementsStep ==
  ASSUME Regular, Inv, [Next]_vars
  PROVE  [Abstract!Next]_<<{f.gen : f \in files}, gen>>
<1> DEFINE Kept == {f.gen : f \in files}
<1>1. CASE DeleteExist
  <2>1. gen' = gen /\ files' \subseteq files BY <1>1 DEF DeleteExist
  <2>2. Kept' \subseteq Kept BY <2>1
  <2>3. ASSUME NEW old \in Kept \ Kept', NEW new \in Kept' PROVE old < new
    <3>1. PICK f \in files : f.gen = old OBVIOUS
    <3>2. f \notin files' BY <3>1
    <3>3. PICK g \in files' : g.gen = new OBVIOUS
    <3> QED BY <1>1, <3>1, <3>2, <3>3, DeleteOldest
  <2> QED BY <2>1, <2>2, <2>3 DEF Abstract!Next, Abstract!Trim
<1>2. CASE OpenLog
  <2> DEFINE new == [idx |-> mCurrent, gen |-> gen + 1]
  <2>1. files' = files \cup {new} /\ gen' = gen + 1 BY <1>2 DEF OpenLog
  <2>2. new.gen = gen + 1 OBVIOUS
  <2> HIDE DEF new
  <2>3. Kept' = Kept \cup {gen + 1} BY <2>1, <2>2
  <2> QED BY <2>1, <2>3 DEF Abstract!Next, Abstract!Append
<1>3. CASE ReadIdx \/ EchoIdx \/ Crash \/ (\E m \in RotateNums : SetRotateNum(m))
           \/ UNCHANGED vars
  <2>1. UNCHANGED <<files, gen>>
    BY <1>3 DEF ReadIdx, EchoIdx, Crash, SetRotateNum, vars
  <2> QED BY <2>1
<1> QED BY <1>1, <1>2, <1>3 DEF Next

\* The rotation is a log that grows at the new end and is trimmed at the old one.
THEOREM RotationImplements == Regular => (Spec => ImplementsBoundedLog)
<1> SUFFICES ASSUME Regular PROVE Spec => ImplementsBoundedLog OBVIOUS
<1>1. Inv /\ [Next]_vars => [Abstract!Next]_<<{f.gen : f \in files}, gen>>
  BY ImplementsStep
<1> QED BY <1>1, ImplementsInit, InitInv, InvStep, PTL
        DEF Spec, ImplementsBoundedLog, Abstract!Spec

(***************************************************************************)
(* The bound, for any property values, crashes and failures of the counter. *)
(***************************************************************************)
\* The index a file is about to be opened with is in range and free; without a
\* counter nothing was ever opened.
BoundInv ==
  /\ lastIdx = Absent => files = {}
  /\ pc \in {"delete", "open"} => lastIdx # Absent
  /\ pc # "idle" => \E m \in RotateNums : mCurrent <= m
  /\ pc \in {"echo", "open"} => \A f \in files : f.idx # mCurrent
  /\ Bounded

LEMMA BoundStep == TypeOK /\ BoundInv /\ [Next]_vars => BoundInv'
<1> SUFFICES ASSUME TypeOK, BoundInv, [Next]_vars PROVE BoundInv' OBVIOUS
<1> USE NumsFacts DEF TypeOK, Absent
<1>1. CASE ReadIdx
  <2>1. UNCHANGED <<lastIdx, files, rotateNum>> BY <1>1 DEF ReadIdx
  <2>2. \E m \in RotateNums : mCurrent' <= m
    BY <1>1 DEF ReadIdx
  <2>3. Bounded' BY <2>1 DEF BoundInv, Bounded
  <2> QED BY <1>1, <2>1, <2>2, <2>3 DEF ReadIdx, BoundInv
<1>2. CASE DeleteExist
  <2>1. files' \subseteq files BY <1>2 DEF DeleteExist
  <2>2. \A f \in files' : f.idx # mCurrent BY <1>2 DEF DeleteExist, Matches
  <2>3. Bounded' BY <2>1 DEF BoundInv, Bounded
  <2> QED BY <1>2, <2>1, <2>2, <2>3 DEF DeleteExist, BoundInv
<1>3. CASE EchoIdx
  <2>1. UNCHANGED <<files, mCurrent>> /\ lastIdx' # Absent /\ pc = "echo" /\ pc' = "open"
    BY <1>3 DEF EchoIdx
  <2>2. Bounded' BY <2>1 DEF BoundInv, Bounded
  <2> QED BY <2>1, <2>2 DEF BoundInv
<1>4. CASE OpenLog
  <2> DEFINE new == [idx |-> mCurrent, gen |-> gen + 1]
  <2>0. /\ files' = files \cup {new} /\ UNCHANGED <<lastIdx, mCurrent>>
        /\ pc = "open" /\ pc' = "idle"
    BY <1>4 DEF OpenLog
  <2>1. new.idx = mCurrent OBVIOUS
  <2> HIDE DEF new
  <2>2. \A f \in files : f.idx # new.idx BY <2>0, <2>1 DEF BoundInv
  <2>3. \A f, g \in files' : f.idx = g.idx => f = g
    BY <2>0, <2>2 DEF BoundInv, Bounded
  <2>4. \A f \in files' : \E m \in RotateNums : f.idx <= m
    BY <2>0, <2>1 DEF BoundInv, Bounded
  <2> QED BY <2>0, <2>3, <2>4 DEF BoundInv, Bounded
<1>5. CASE Crash BY <1>5 DEF Crash, BoundInv, Bounded
<1>6. CASE \E m \in RotateNums : SetRotateNum(m)
  BY <1>6 DEF SetRotateNum, BoundInv, Bounded
<1>7. CASE UNCHANGED vars BY <1>7 DEF vars, BoundInv, Bounded
<1> QED BY <1>1, <1>2, <1>3, <1>4, <1>5, <1>6, <1>7 DEF Next

LEMMA BoundInit == Init => TypeOK /\ BoundInv
BY InitInv DEF Init, Inv, BoundInv, Bounded

\* An index names one file at a time and none exceeds the largest value of the
\* property, with any crashes, any failures of echo and any changes of the property:
\* what onHandleLogPathbyId is for, and it does not rest on Regular.
THEOREM RotationBounded == Spec => []Bounded
<1>1. TypeOK /\ BoundInv /\ [Next]_vars => (TypeOK /\ BoundInv)'
  BY TypeStep, BoundStep
<1>2. BoundInv => Bounded
  BY DEF BoundInv
<1> QED BY <1>1, <1>2, BoundInit, PTL DEF Spec

(***************************************************************************)
(* The age of a file, counted in indices.                                  *)
(***************************************************************************)
\* The times the counter was written for a file that was opened, or was lost to a
\* crash, or is about to be opened, at most.
Spent == gen + crashes + (IF pc = "open" THEN 1 ELSE 0)

\* m is a lower bound of the property.
Least(m) == \A k \in RotateNums : m <= k

\* From a file's index the counter has gone on to lastIdx, or to at least m and then
\* on from 1, one for each file opened and each crash since; it wraps at m or later.
AgeInv(m) ==
  /\ pc \in {"delete", "echo"} /\ mCurrent = 1 /\ lastIdx # Absent => m <= lastIdx
  /\ \A f \in files :
       f.gen + (IF f.idx <= lastIdx THEN lastIdx ELSE lastIdx + m) <= Spent + f.idx

\* The newest files are there.
NewestKept(m) == \A n \in 1..gen : n > gen - (m - 1 - crashes) => \E f \in files : f.gen = n

KeepInv == Inv /\ \A m \in RotateNums : Least(m) => AgeInv(m) /\ NewestKept(m)

LEMMA AgeStep ==
  ASSUME Regular, Inv, Inv', [Next]_vars, NEW m \in RotateNums, Least(m), AgeInv(m)
  PROVE  AgeInv(m)'
<1> USE NumsFacts DEF Absent
<1>0. /\ m \in Nat \ {0} /\ m <= rotateNum /\ rotateNum \in Nat
      /\ gen \in Nat /\ crashes \in Nat /\ mCurrent \in Nat \ {0}
      /\ lastIdx \in Nat \cup {Absent} /\ (lastIdx # Absent => lastIdx \in 1..rotateNum)
      /\ (lastIdx = Absent => files = {})
      /\ \A f \in files : f.idx \in Nat \ {0} /\ f.gen \in Nat
  BY DEF Inv, TypeOK, OrderInv, Least
<1>1. CASE ReadIdx
  <2>1. UNCHANGED <<lastIdx, files, gen, crashes>> /\ pc = "idle" /\ pc' # "open"
    BY <1>1 DEF ReadIdx
  <2>2. Spent' = Spent BY <2>1 DEF Spent
  <2>3. pc' \in {"delete", "echo"} /\ mCurrent' = 1 /\ lastIdx' # Absent => m <= lastIdx'
    BY <1>0, <1>1 DEF ReadIdx
  <2> QED BY <2>1, <2>2, <2>3 DEF AgeInv
<1>2. CASE DeleteExist
  <2>1. /\ UNCHANGED <<lastIdx, mCurrent, gen, crashes>> /\ pc = "delete" /\ pc' = "echo"
        /\ files' \subseteq files
    BY <1>2 DEF DeleteExist
  <2>2. Spent' = Spent BY <2>1 DEF Spent
  <2> QED BY <2>1, <2>2 DEF AgeInv
<1>3. CASE EchoIdx
  <2>1. /\ lastIdx' = mCurrent /\ UNCHANGED <<files, gen, crashes>> /\ pc = "echo" /\ pc' = "open"
    BY <1>3 DEF EchoIdx, Regular
  <2>2. Spent' = Spent + 1 /\ Spent \in Nat BY <1>0, <2>1 DEF Spent
  <2>3. ASSUME NEW f \in files
        PROVE  f.gen + (IF f.idx <= mCurrent THEN mCurrent ELSE mCurrent + m) <= Spent + 1 + f.idx
    <3>1. f.idx # mCurrent /\ lastIdx # Absent
      BY <1>0, <2>1 DEF Inv, PcInv
    <3>2. f.gen + (IF f.idx <= lastIdx THEN lastIdx ELSE lastIdx + m) <= Spent + f.idx
      BY DEF AgeInv
    <3>3. CASE mCurrent = lastIdx + 1
      BY <1>0, <2>2, <3>1, <3>2, <3>3
    <3>4. CASE mCurrent = 1 /\ f.idx <= lastIdx /\ m <= lastIdx
      BY <1>0, <2>2, <3>1, <3>2, <3>4
    <3>5. mCurrent = lastIdx + 1 \/ (mCurrent = 1 /\ f.idx <= lastIdx /\ m <= lastIdx)
      BY <2>1, <3>1 DEF Inv, PcInv, AgeInv
    <3> QED BY <3>3, <3>4, <3>5
  <2> QED BY <2>1, <2>2, <2>3 DEF AgeInv
<1>4. CASE OpenLog
  <2> DEFINE new == [idx |-> mCurrent, gen |-> gen + 1]
  <2>1. /\ files' = files \cup {new} /\ UNCHANGED <<lastIdx, crashes>> /\ gen' = gen + 1
        /\ pc = "open" /\ pc' = "idle"
    BY <1>4 DEF OpenLog
  <2>2. Spent' = Spent /\ Spent' = gen + 1 + crashes BY <1>0, <2>1 DEF Spent
  <2>3. new.idx = mCurrent /\ new.gen = gen + 1 OBVIOUS
  <2>4. lastIdx = mCurrent BY <2>1 DEF Inv, PcInv
  <2> HIDE DEF new
  <2>5. new.gen + (IF new.idx <= lastIdx THEN lastIdx ELSE lastIdx + m) <= Spent + new.idx
    BY <1>0, <2>2, <2>3, <2>4
  <2> QED BY <2>1, <2>2, <2>5 DEF AgeInv
<1>5. CASE Crash
  <2>1. UNCHANGED <<lastIdx, files, gen>> /\ crashes' = crashes + 1 /\ pc' = "idle"
    BY <1>5 DEF Crash
  <2>2. Spent <= Spent' /\ Spent \in Nat /\ Spent' \in Nat BY <1>0, <2>1 DEF Spent
  <2>3. ASSUME NEW f \in files
        PROVE  f.gen + (IF f.idx <= lastIdx THEN lastIdx ELSE lastIdx + m) <= Spent' + f.idx
    <3>1. f.gen + (IF f.idx <= lastIdx THEN lastIdx ELSE lastIdx + m) <= Spent + f.idx
      BY DEF AgeInv
    <3>2. lastIdx \in Int /\ f.idx \in Nat /\ f.gen \in Nat BY <1>0
    <3> QED BY <1>0, <2>2, <3>1, <3>2
  <2> QED BY <2>1, <2>3 DEF AgeInv
<1>6. CASE (\E k \in RotateNums : SetRotateNum(k)) \/ UNCHANGED vars
  <2>1. UNCHANGED <<pc, mCurrent, lastIdx, files, gen, crashes>>
    BY <1>6 DEF SetRotateNum, vars
  <2> QED BY <2>1 DEF AgeInv, Spent
<1> QED BY <1>1, <1>2, <1>3, <1>4, <1>5, <1>6 DEF Next

\* A crash takes one file out of what KeepsNewest asks for.
LEMMA CrashRaises ==
  ASSUME NEW g \in Nat, NEW m \in Nat, NEW c \in Nat, NEW d \in Nat, d >= c, NEW n \in 1..g,
         n > g - (m - 1 - d)
  PROVE  n > g - (m - 1 - c)
<1>1. n \in Int /\ g - (m - 1 - d) >= g - (m - 1 - c)
  OBVIOUS
<1> QED BY <1>1

\* The file deleteExistpathbyId removes is not one of the newest m - 1 - crashes.
LEMMA KeptStep ==
  ASSUME Regular, Inv, Inv', [Next]_vars, NEW m \in RotateNums, Least(m), AgeInv(m),
         NewestKept(m)
  PROVE  NewestKept(m)'
<1> USE NumsFacts DEF Absent
<1>0. /\ m \in Nat \ {0} /\ m <= rotateNum /\ rotateNum \in Nat
      /\ gen \in Nat /\ crashes \in Nat /\ mCurrent \in Nat \ {0}
      /\ lastIdx \in Nat \cup {Absent} /\ (lastIdx # Absent => lastIdx \in 1..rotateNum)
      /\ \A f \in files : f.idx \in Nat \ {0} /\ f.gen \in Nat /\ f.idx <= 99
  BY DEF Inv, TypeOK, OrderInv, Least, Regular
<1>1. CASE DeleteExist
  <2>1. UNCHANGED <<gen, crashes>> /\ pc = "delete" /\ files' \subseteq files
    BY <1>1 DEF DeleteExist
  <2>2. ASSUME NEW n \in 1..gen, n > gen - (m - 1 - crashes)
        PROVE  \E f \in files' : f.gen = n
    <3>1. PICK f \in files : f.gen = n BY <2>2 DEF NewestKept
    <3>2. lastIdx # Absent /\ f.idx \in Nat \ {0} /\ f.gen \in Nat /\ lastIdx \in Nat
      BY <1>0, <2>1 DEF Inv, PcInv
    <3>3. f.gen + (IF f.idx <= lastIdx THEN lastIdx ELSE lastIdx + m) <= gen + crashes + f.idx
      BY <1>0, <2>1 DEF AgeInv, Spent
    <3>4. mCurrent = lastIdx + 1 \/ (mCurrent = 1 /\ m <= lastIdx)
      BY <2>1, <3>2 DEF Inv, PcInv, AgeInv
    <3>5. f.idx # mCurrent
      <4> SUFFICES ASSUME f.idx = mCurrent PROVE FALSE OBVIOUS
      <4>1. CASE mCurrent = lastIdx + 1
        BY <1>0, <2>2, <3>1, <3>2, <3>3, <4>1
      <4>2. CASE mCurrent = 1 /\ m <= lastIdx
        BY <1>0, <2>2, <3>1, <3>2, <3>3, <4>2
      <4> QED BY <3>4, <4>1, <4>2
    <3>6. ~Matches(mCurrent, f.idx) BY <1>0, <3>5, MatchesOne
    <3> QED BY <1>1, <3>1, <3>6 DEF DeleteExist
  <2> QED BY <2>1, <2>2 DEF NewestKept
<1>2. CASE OpenLog
  <2> DEFINE new == [idx |-> mCurrent, gen |-> gen + 1]
  <2>1. files' = files \cup {new} /\ UNCHANGED crashes /\ gen' = gen + 1
    BY <1>2 DEF OpenLog
  <2>2. new.gen = gen + 1 OBVIOUS
  <2> HIDE DEF new
  <2>3. ASSUME NEW n \in 1..(gen + 1), n > gen + 1 - (m - 1 - crashes)
        PROVE  \E f \in files' : f.gen = n
    <3>1. CASE n = gen + 1 BY <2>1, <2>2, <3>1
    <3>2. CASE n # gen + 1
      <4>1. n \in 1..gen /\ n > gen - (m - 1 - crashes) BY <1>0, <2>3, <3>2
      <4> QED BY <2>1, <4>1 DEF NewestKept
    <3> QED BY <3>1, <3>2
  <2>4. ASSUME NEW n \in 1..gen', n > gen' - (m - 1 - crashes')
        PROVE  \E f \in files' : f.gen = n
    <3>1. n \in 1..(gen + 1) /\ n > gen + 1 - (m - 1 - crashes)
      BY <1>0, <2>1, <2>4
    <3> QED BY <2>3, <3>1
  <2> QED BY <2>4 DEF NewestKept
<1>3. CASE ReadIdx \/ EchoIdx \/ Crash \/ (\E k \in RotateNums : SetRotateNum(k))
           \/ UNCHANGED vars
  <2>1. UNCHANGED <<files, gen>> /\ crashes' \in {crashes, crashes + 1}
    BY <1>3 DEF ReadIdx, EchoIdx, Crash, SetRotateNum, vars
  <2>2. \A n \in 1..gen : n > gen - (m - 1 - crashes') => n > gen - (m - 1 - crashes)
    <3>1. crashes' \in Nat /\ crashes' >= crashes BY <1>0, <2>1
    <3>2. gen \in Nat /\ m \in Nat /\ crashes \in Nat BY <1>0
    <3> QED BY <3>1, <3>2, CrashRaises
  <2> QED BY <2>1, <2>2 DEF NewestKept
<1> QED BY <1>1, <1>2, <1>3 DEF Next

LEMMA KeepInit == Init => KeepInv
<1> SUFFICES ASSUME Init PROVE KeepInv OBVIOUS
<1>1. Inv BY InitInv
<1>2. files = {} /\ gen = 0 /\ pc = "idle" BY DEF Init
<1>3. \A m \in RotateNums : AgeInv(m) /\ NewestKept(m)
  BY <1>2 DEF AgeInv, NewestKept
<1> QED BY <1>1, <1>3 DEF KeepInv

LEMMA KeepStep ==
  ASSUME Regular, KeepInv, [Next]_vars
  PROVE  KeepInv'
<1>1. Inv /\ Inv' BY InvStep DEF KeepInv
<1>2. ASSUME NEW m \in RotateNums, Least(m)
      PROVE  AgeInv(m)' /\ NewestKept(m)'
  BY <1>1, <1>2, AgeStep, KeptStep DEF KeepInv
<1> QED BY <1>1, <1>2 DEF KeepInv, Least

LEMMA KeepFacts == KeepInv => Inv /\ KeepsNewest
BY DEF KeepInv, KeepsNewest, Least, NewestKept

\* The newest m - 1 - crashes files are on disk when the property never goes below m:
\* a crash inside onHandleLogPathbyId wastes at most one index.
THEOREM RotationKeepsNewest == Regular => (Spec => []KeepsNewest)
<1> SUFFICES ASSUME Regular PROVE Spec => []KeepsNewest OBVIOUS
<1>1. KeepInv /\ [Next]_vars => KeepInv'
  BY KeepStep
<1> QED BY <1>1, KeepInit, KeepFacts, PTL DEF Spec
=============================================================================
