------------------------- MODULE IperfThreadsProofs -------------------------
(***************************************************************************)
(* Proofs about the threads of an iperf process and the count main waits   *)
(* on, for any command lines and any numbers of connections and signals;   *)
(* and, at the end, of the three levels of iperf together (MCIperf).       *)
(***************************************************************************)
EXTENDS MCIperf, IperfDataProofs

(***************************************************************************)
(* The inductive invariant.                                                *)
(***************************************************************************)
States == {"none", "created", "init", "barrier", "ready", "run", "closed", "end", "gone",
           "ignored", "woken", "pass", "test", "listen", "started", "leave"}
Listening == {"listen", "started", "leave"}

ThreadsTypeOK ==
  /\ test \in Tests
  /\ main \in {"start", "join", "wait", "exited", "killed"}
  /\ at \in [AllThreads -> States]
  /\ starting \in [Starters -> Seq(AllThreads)]
  /\ runNext \subseteq Servers /\ numThreads \in [1..MaxConns -> 0..MaxAsked]
  /\ thread_sNum \in Int /\ nonterminating_num \in {0, 1}
  /\ report \in [Agents -> {"none", "open", "closed", "handled", "ended", "freed"}]
  /\ mClients \in Int /\ conns \in 0..MaxConns
  /\ sInterupted \in BOOLEAN

\* Some thread has still to start x.
Queued(x) == \E p \in Starters : \E k \in 1..Len(starting[p]) : starting[p][k] = x

\* x was not started, and nobody is about to.
Fresh(x) == at[x] = "none" /\ ~Queued(x)

\* A thread is in one place of one chain, and not yet started.
ChainInv ==
  /\ \A p \in Starters : \A k \in 1..Len(starting[p]) : at[starting[p][k]] = "none"
  /\ \A p, q \in Starters : \A k \in 1..Len(starting[p]), l \in 1..Len(starting[q]) :
       starting[p][k] = starting[q][l] => p = q /\ k = l

\* The reverse clients of connection k.
ReversesOf(k) == {<<"reverse", k, i>> : i \in 1..MaxAsked}
ReversesFresh(k) == \A x \in ReversesOf(k) : Fresh(x)

\* The servers and clients of connections to come are fresh, and so are the clients
\* that run after a server.
PeersInv ==
  /\ \A k \in 1..MaxConns : k > conns => Fresh(<<"server", k>>) /\ ReversesFresh(k)
  /\ \A k \in 1..MaxConns : <<"server", k>> \in runNext =>
       k <= conns /\ (at[<<"server", k>>] # "gone" => ReversesFresh(k))

NontermInv == nonterminating_num = 1 => at[ListenerThread] \in Listening

LiveOf(a) == {x \in AllThreads : a[x] \notin {"none", "gone"}}
Off(a, n) ==
  (IF a[ListenerThread] \in Listening /\ n = 0 THEN 1 ELSE 0)
    + (IF a[ReporterThread] \in {"ignored", "woken"} THEN 1 ELSE 0)

CountInv ==
  /\ IsFiniteSet(LiveOf(at))
  /\ thread_sNum = Cardinality(LiveOf(at)) - Off(at, nonterminating_num)

\* A report that is not printed belongs to an agent at work.
ReportInv ==
  \A x \in Agents : report[x] \in {"open", "closed", "handled"} => at[x] \in {"run", "closed"}

ThreadsInv ==
  ThreadsTypeOK /\ ChainInv /\ PeersInv /\ NontermInv /\ CountInv /\ ReportInv /\ JoinWaits

\* A tradeoff test that nothing has interrupted: main has started the listener, main still waits
\* for it, it counts its connections, leaves after the last and starts a server for
\* each.
ServedInv ==
  test.mode = "tradeoff" /\ ~sInterupted =>
    /\ at[ListenerThread] \in Listening => nonterminating_num = 1
    /\ mClients = test.mThreads - conns
    /\ at[ListenerThread] \in {"leave", "end", "gone"} => mClients <= 0
    /\ at[ListenerThread] # "started" => starting[ListenerThread] = <<>>
    /\ main # "start" => starting[MainThread] = <<>>
    /\ at[ListenerThread] = "none" =>
         \E k \in 1..Len(starting[MainThread]) : starting[MainThread][k] = ListenerThread
    /\ \A k \in 1..MaxConns : k <= conns =>
         \/ at[<<"server", k>>] # "none"
         \/ \E j \in 1..Len(starting[ListenerThread]) :
              starting[ListenerThread][j] = <<"server", k>>

\* Only a timed client sets the timer, and without a signal nothing interrupts.
QuietInv ==
  /\ signals \in Nat
  /\ ~test.timed /\ signals = 0 => ~armed /\ ~sInterupted

TradeoffInv == ThreadsInv /\ ServedInv /\ QuietInv /\ TradeoffServed

(***************************************************************************)
(* Threads, chains and the set of live threads.                            *)
(***************************************************************************)
\* The kinds of threads are apart.
LEMMA Kinds ==
  /\ ListenerThread \notin Agents /\ ReporterThread \notin Agents
  /\ ListenerThread # ReporterThread /\ MainThread # ListenerThread
  /\ MainThread \notin Servers /\ ListenerThread \notin Servers
  /\ MainThread \in Starters /\ ListenerThread \in Starters
  /\ ListenerThread \in AllThreads /\ ReporterThread \in AllThreads
  /\ Agents \subseteq AllThreads /\ Servers \subseteq Agents
  /\ \A t \in Tests : ClientsOf(t) \subseteq Agents
<1>1. ListenerThread \notin Agents /\ ReporterThread \notin Agents
  <2>1. \A x \in Agents : x[1] \in {"client", "server", "reverse"}
    <3>1. \A t : \A x \in ClientsOf(t) : x[1] = "client"
      BY DEF ClientsOf
    <3>2. \A x \in Servers \cup Reverses : x[1] \in {"server", "reverse"}
      BY DEF Servers, Reverses
    <3>3. \A x \in Agents : x \in Servers \cup Reverses \/ \E t \in Tests : x \in ClientsOf(t)
      BY Zenon DEF Agents
    <3> QED BY <3>1, <3>2, <3>3
  <2> QED BY <2>1 DEF ListenerThread, ReporterThread
<1>2. MainThread \notin Servers /\ ListenerThread \notin Servers
  BY DEF MainThread, ListenerThread, Servers
<1>3. ListenerThread # ReporterThread /\ MainThread # ListenerThread
  BY DEF MainThread, ListenerThread, ReporterThread
<1>4. /\ MainThread \in Starters /\ ListenerThread \in Starters
      /\ ListenerThread \in AllThreads /\ ReporterThread \in AllThreads
      /\ Agents \subseteq AllThreads
  BY DEF Starters, AllThreads
<1>5. Servers \subseteq Agents /\ \A t \in Tests : ClientsOf(t) \subseteq Agents
  BY Zenon DEF Agents
<1> QED BY <1>1, <1>2, <1>3, <1>4, <1>5

\* The threads of connection k.
LEMMA Peers ==
  ASSUME NEW k \in 1..MaxConns
  PROVE  /\ <<"server", k>> \in Servers /\ <<"server", k>> \in Agents
         /\ <<"server", k>> \in AllThreads /\ <<"server", k>> \in Starters
         /\ \A x \in ReversesOf(k) : x \in Agents /\ x \in AllThreads
<1>1. <<"server", k>> \in Servers
  BY DEF Servers
<1>2. \A x \in ReversesOf(k) : x \in Reverses
  BY DEF ReversesOf, Reverses
<1> QED BY <1>1, <1>2, Zenon DEF Agents, AllThreads, Starters

\* Connections share no thread, and a server is no reverse client.
LEMMA PeersApart ==
  /\ \A k, l \in 1..MaxConns : <<"server", k>> = <<"server", l>> => k = l
  /\ \A k, l \in 1..MaxConns : \A x \in ReversesOf(k) : x \in ReversesOf(l) => k = l
  /\ \A k, l \in 1..MaxConns : <<"server", k>> \notin ReversesOf(l)
<1>1. \A l \in 1..MaxConns : \A x \in ReversesOf(l) : x[1] = "reverse" /\ x[2] = l
  BY DEF ReversesOf
<1>2. \A k \in 1..MaxConns : <<"server", k>>[1] = "server" /\ <<"server", k>>[2] = k
  OBVIOUS
<1> QED BY <1>1, <1>2

\* The clients that share a barrier.
LEMMA GroupAgents ==
  ASSUME ThreadsTypeOK, NEW x \in Agents
  PROVE  Group(x) \subseteq Agents
<1>1. CASE x[1] = "client"
  BY <1>1, Kinds DEF Group, Clients, ThreadsTypeOK
<1>2. CASE x[1] # "client"
  <2>1. x \in Servers \cup Reverses
    <3>1. \A t : \A y \in ClientsOf(t) : y[1] = "client"
      BY DEF ClientsOf
    <3> QED BY <1>2, <3>1, Zenon DEF Agents
  <2>2. x[2] \in 1..MaxConns
    BY <2>1 DEF Servers, Reverses
  <2>3. numThreads[x[2]] \in 0..MaxAsked /\ MaxAsked \in Nat
    BY <2>2, IperfThreadsAssumption DEF ThreadsTypeOK
  <2>4. \A i \in 1..numThreads[x[2]] : i \in 1..MaxAsked
    BY <2>3
  <2>5. Group(x) = {<<"reverse", x[2], i>> : i \in 1..numThreads[x[2]]}
    BY <1>2 DEF Group
  <2>6. Group(x) \subseteq ReversesOf(x[2])
    BY <2>4, <2>5 DEF ReversesOf
  <2> QED BY <2>2, <2>6, Peers
<1> QED BY <1>1, <1>2

\* One thread moves: the set of live threads grows, stays or shrinks by one.
LEMMA LiveMove ==
  ASSUME NEW a \in [AllThreads -> States], IsFiniteSet(LiveOf(a)),
         NEW x \in AllThreads, NEW b \in States
  PROVE  LET d == [a EXCEPT ![x] = b] IN
         /\ IsFiniteSet(LiveOf(d)) /\ Cardinality(LiveOf(a)) \in Nat
         /\ a[x] = "none" /\ b \notin {"none", "gone"} =>
              Cardinality(LiveOf(d)) = Cardinality(LiveOf(a)) + 1
         /\ a[x] \notin {"none", "gone"} /\ b \notin {"none", "gone"} =>
              Cardinality(LiveOf(d)) = Cardinality(LiveOf(a))
         /\ a[x] \notin {"none", "gone"} /\ b = "gone" =>
              Cardinality(LiveOf(d)) = Cardinality(LiveOf(a)) - 1
<1> DEFINE d == [a EXCEPT ![x] = b]
<1>1. \A y \in AllThreads : d[y] = IF y = x THEN b ELSE a[y]
  OBVIOUS
<1> HIDE DEF d
<1>2. Cardinality(LiveOf(a)) \in Nat
  BY FS_CardinalityType
<1>3. CASE b \notin {"none", "gone"}
  <2>1. LiveOf(d) = LiveOf(a) \cup {x}
    BY <1>1, <1>3 DEF LiveOf
  <2>2. /\ IsFiniteSet(LiveOf(d))
        /\ Cardinality(LiveOf(d)) =
             IF x \in LiveOf(a) THEN Cardinality(LiveOf(a)) ELSE Cardinality(LiveOf(a)) + 1
    BY <2>1, FS_AddElement
  <2>3. x \in LiveOf(a) <=> a[x] \notin {"none", "gone"}
    BY DEF LiveOf
  <2> QED BY <1>2, <1>3, <2>2, <2>3 DEF d
<1>4. CASE b \in {"none", "gone"}
  <2>1. LiveOf(d) = LiveOf(a) \ {x}
    BY <1>1, <1>4 DEF LiveOf
  <2>2. /\ IsFiniteSet(LiveOf(d))
        /\ Cardinality(LiveOf(d)) =
             IF x \in LiveOf(a) THEN Cardinality(LiveOf(a)) - 1 ELSE Cardinality(LiveOf(a))
    BY <2>1, FS_RemoveElement
  <2>3. x \in LiveOf(a) <=> a[x] \notin {"none", "gone"}
    BY DEF LiveOf
  <2> QED BY <1>2, <1>4, <2>2, <2>3 DEF d
<1> QED BY <1>3, <1>4

\* CountExact is what CountInv says of the count.
LEMMA CountIsExact ==
  ASSUME ThreadsTypeOK, CountInv
  PROVE  CountExact
<1>1. Cardinality(LiveOf(at)) \in Nat
  BY FS_CardinalityType DEF CountInv
<1>2. LiveOf(at) = {x \in AllThreads : at[x] \notin {"none", "gone"}}
  BY DEF LiveOf
<1> QED BY <1>1, <1>2 DEF CountInv, CountExact, Off, Released, Listening

\* The count is 0 only when no agent is live, and the listener is not unless it was
\* released.
LEMMA CountZero ==
  ASSUME ThreadsTypeOK, CountInv, ~(thread_sNum > 0)
  PROVE  /\ \A x \in Agents : at[x] \in {"none", "gone"}
         /\ at[ListenerThread] \notin {"none", "gone"} =>
              at[ListenerThread] \in Listening /\ nonterminating_num = 0
<1> DEFINE S == LiveOf(at)
           L == IF at[ListenerThread] \in Listening /\ nonterminating_num = 0
                THEN {ListenerThread} ELSE {}
           R == IF at[ReporterThread] \in {"ignored", "woken"} THEN {ReporterThread} ELSE {}
<1>1. IsFiniteSet(S) /\ Cardinality(S) \in Nat
  BY FS_CardinalityType DEF CountInv
<1>2. Cardinality(S) <= Off(at, nonterminating_num)
  <2>1. Off(at, nonterminating_num) \in Nat
    BY DEF Off
  <2> QED BY <1>1, <2>1 DEF CountInv
<1>3. L \subseteq S /\ R \subseteq S /\ L \cap R = {}
  BY Kinds DEF LiveOf, Listening
<1>4. /\ IsFiniteSet(L) /\ IsFiniteSet(R)
      /\ Cardinality(L) = (IF at[ListenerThread] \in Listening /\ nonterminating_num = 0
                           THEN 1 ELSE 0)
      /\ Cardinality(R) = (IF at[ReporterThread] \in {"ignored", "woken"} THEN 1 ELSE 0)
  BY FS_Singleton, FS_EmptySet
<1>5. Cardinality(L) + Cardinality(R) = Off(at, nonterminating_num)
  BY <1>4 DEF Off
<1> HIDE DEF S, L, R
<1>6. IsFiniteSet(L \cup R) /\ Cardinality(L \cup R) = Cardinality(L) + Cardinality(R)
  <2>1. /\ IsFiniteSet(L \cup R)
        /\ Cardinality(L \cup R) = Cardinality(L) + Cardinality(R) - Cardinality(L \cap R)
    BY <1>4, FS_Union
  <2>2. Cardinality(L \cap R) = 0
    BY <1>3, FS_EmptySet
  <2>3. Cardinality(L) \in Nat /\ Cardinality(R) \in Nat
    BY <1>4, FS_CardinalityType
  <2> QED BY <2>1, <2>2, <2>3
<1>7. S = L \cup R
  <2>1. L \cup R \in SUBSET S
    BY <1>3
  <2>2. Cardinality(L \cup R) <= Cardinality(S)
    BY <1>1, <2>1, FS_Subset
  <2>3. Cardinality(L \cup R) \in Nat
    BY <1>6, FS_CardinalityType
  <2>4. Cardinality(S) = Cardinality(L \cup R)
    BY <1>1, <1>2, <1>5, <1>6, <2>2, <2>3
  <2> QED BY <1>1, <2>1, <2>4, FS_Subset
<1>8. \A x \in AllThreads : at[x] \notin {"none", "gone"} => x \in L \cup R
  BY <1>7 DEF S, LiveOf
<1> QED BY <1>8, Kinds DEF L, R

(***************************************************************************)
(* Chains.                                                                 *)
(***************************************************************************)
Elements(s) == {s[k] : k \in 1..Len(s)}
AddsLast(s, x, r) == r = s \o <<x>>
Distinct(s) == \A k, l \in 1..Len(s) : s[k] = s[l] => k = l

\* A chain with one more thread at its end.
LEMMA AddLast ==
  ASSUME NEW S, NEW s \in Seq(S), NEW x \in S, NEW r, AddsLast(s, x, r)
  PROVE  /\ r \in Seq(S) /\ Elements(r) = Elements(s) \cup {x}
         /\ Distinct(s) /\ x \notin Elements(s) => Distinct(r)
<1>1. /\ r \in Seq(S) /\ Len(s) \in Nat /\ Len(r) = Len(s) + 1
      /\ \A k \in 1..Len(s) : r[k] = s[k]
      /\ r[Len(s) + 1] = x
  <2>1. r = Append(s, x)
    BY DEF AddsLast
  <2> QED BY <2>1
<1>2. /\ \A k \in 1..Len(r) : k \in 1..Len(s) \/ k = Len(s) + 1
      /\ \A k \in 1..Len(s) : k \in 1..Len(r)
      /\ Len(s) + 1 \in 1..Len(r)
  BY <1>1
<1>3. Elements(r) = Elements(s) \cup {x}
  BY <1>1, <1>2 DEF Elements
<1>4. ASSUME Distinct(s), x \notin Elements(s)
      PROVE  Distinct(r)
  BY <1>1, <1>2, <1>4 DEF Elements, Distinct
<1> QED BY <1>1, <1>3, <1>4

\* What thread_start finds when it starts the reverse clients of a connection.
LEMMA ReverseChain ==
  ASSUME NEW k \in 1..MaxConns, NEW n \in 0..MaxAsked
  PROVE  /\ ReverseStarts(k, n) \in Seq(AllThreads) /\ Distinct(ReverseStarts(k, n))
         /\ Elements(ReverseStarts(k, n)) \subseteq ReversesOf(k)
<1> DEFINE A == ReverseStarts(k, n)
<1>0. n \in Nat /\ MaxAsked \in Nat /\ n <= MaxAsked
  BY IperfThreadsAssumption
<1>1. A = [i \in 1..n |-> <<"reverse", k, n + 1 - i>>]
  BY DEF ReverseStarts
<1>2. \A i \in 1..n : n + 1 - i \in 1..MaxAsked
  BY <1>0
<1>3. \A i \in 1..n : A[i] = <<"reverse", k, n + 1 - i>> /\ A[i] \in ReversesOf(k)
  BY <1>1, <1>2 DEF ReversesOf
<1>4. \A i \in 1..n : A[i] \in AllThreads
  BY <1>3, Peers
<1> HIDE DEF A
<1>5. A \in Seq(AllThreads) /\ Len(A) = n
  <2>1. A \in [1..n -> AllThreads]
    BY <1>1, <1>4
  <2>2. A \in Seq(AllThreads)
    <3>1. Seq(AllThreads) = UNION {[1..m -> AllThreads] : m \in Nat}
      OBVIOUS
    <3> QED BY <1>0, <2>1, <3>1
  <2>3. Len(A) \in Nat /\ DOMAIN A = 1..Len(A) /\ DOMAIN A = 1..n
    BY <2>1, <2>2
  <2>4. Len(A) <= n /\ n <= Len(A)
    <3>1. \A i \in 1..Len(A) : i \in 1..n
      BY <2>3
    <3>2. \A i \in 1..n : i \in 1..Len(A)
      BY <2>3
    <3> QED BY <1>0, <2>3, <3>1, <3>2
  <2>5. Len(A) \in Nat
    BY <2>3
  <2>6. Len(A) = n
    BY <1>0, <2>4, <2>5
  <2> QED BY <2>2, <2>6
<1>6. \A i, j \in 1..n : A[i] = A[j] => i = j
  <2>1. \A i, j \in 1..n : A[i] = A[j] => n + 1 - i = n + 1 - j
    <3>1. \A i \in 1..n : A[i][3] = n + 1 - i
      BY <1>3
    <3> QED BY <3>1
  <2> QED BY <1>0, <2>1
<1> QED BY <1>3, <1>5, <1>6 DEF A, Elements, Distinct

\* A step that starts nothing keeps the chains.
LEMMA ChainsKept ==
  ASSUME ThreadsTypeOK, ChainInv, PeersInv, starting' = starting,
         runNext' = runNext, conns' >= conns, conns' \in Nat,
         \A x \in AllThreads : /\ at[x] = "none" => at'[x] = "none"
                               /\ at[x] = "gone" => at'[x] = "gone"
  PROVE  ChainInv' /\ PeersInv'
<1>1. \A p \in Starters : \A k \in 1..Len(starting[p]) : starting[p][k] \in AllThreads
  BY DEF ThreadsTypeOK
<1>2. ChainInv'
  BY <1>1 DEF ChainInv
<1>3. conns \in Nat
  BY DEF ThreadsTypeOK
<1>4. \A x \in AllThreads : Fresh(x) => Fresh(x)'
  BY DEF Fresh, Queued
<1>5. PeersInv'
  <2>1. ASSUME NEW k \in 1..MaxConns, k > conns'
        PROVE  Fresh(<<"server", k>>)' /\ ReversesFresh(k)'
    <3>1. Fresh(<<"server", k>>) /\ ReversesFresh(k)
      BY <1>3, <2>1 DEF PeersInv
    <3> QED BY <1>4, <3>1, Peers DEF ReversesFresh
  <2>2. ASSUME NEW k \in 1..MaxConns, <<"server", k>> \in runNext'
        PROVE  k <= conns' /\ (at'[<<"server", k>>] # "gone" => ReversesFresh(k)')
    <3>1. k <= conns /\ (at[<<"server", k>>] # "gone" => ReversesFresh(k))
      BY <2>2 DEF PeersInv
    <3>2. k <= conns'
      BY <1>3, <3>1
    <3> QED BY <1>4, <3>1, <3>2, Peers DEF ReversesFresh
  <2> QED BY <2>1, <2>2 DEF PeersInv
<1> QED BY <1>2, <1>5

\* A chain of fresh threads replaces what p has still to start.
LEMMA NewChain ==
  ASSUME ThreadsTypeOK, ChainInv, NEW p \in Starters, NEW s \in Seq(AllThreads),
         \A k \in 1..Len(s) : Fresh(s[k]),
         \A k, l \in 1..Len(s) : s[k] = s[l] => k = l,
         starting' = [starting EXCEPT ![p] = s],
         \A x \in AllThreads : at[x] = "none" => at'[x] = "none"
  PROVE  /\ ChainInv'
         /\ \A x \in AllThreads : Fresh(x) /\ (\A k \in 1..Len(s) : s[k] # x) => Fresh(x)'
<1>1. /\ \A q \in Starters : starting'[q] = IF q = p THEN s ELSE starting[q]
      /\ \A q \in Starters : \A k \in 1..Len(starting[q]) : starting[q][k] \in AllThreads
      /\ \A k \in 1..Len(s) : s[k] \in AllThreads
  BY DEF ThreadsTypeOK
<1>2. ASSUME NEW q \in Starters, NEW k \in 1..Len(starting'[q])
      PROVE  at'[starting'[q][k]] = "none"
  BY <1>1, <1>2 DEF ChainInv, Fresh
<1>3. ASSUME NEW q \in Starters, NEW r \in Starters, NEW k \in 1..Len(starting'[q]),
             NEW l \in 1..Len(starting'[r]), starting'[q][k] = starting'[r][l]
      PROVE  q = r /\ k = l
  <2>1. CASE q = p /\ r = p
    BY <1>1, <1>3, <2>1
  <2>2. CASE q # p /\ r # p
    BY <1>1, <1>3, <2>2 DEF ChainInv
  <2>3. CASE q = p /\ r # p
    BY <1>1, <1>3, <2>3 DEF Fresh, Queued
  <2>4. CASE q # p /\ r = p
    BY <1>1, <1>3, <2>4 DEF Fresh, Queued
  <2> QED BY <2>1, <2>2, <2>3, <2>4
<1>4. ASSUME NEW x \in AllThreads, Fresh(x), \A k \in 1..Len(s) : s[k] # x
      PROVE  Fresh(x)'
  BY <1>1, <1>4 DEF Fresh, Queued
<1> QED BY <1>2, <1>3, <1>4 DEF ChainInv

\* thread_start takes the first thread of a chain.
LEMMA StartChain ==
  ASSUME ThreadsTypeOK, ChainInv, PeersInv, NEW p \in Starters, StartThread(p)
  PROVE  LET h == Head(starting[p]) IN
         /\ h \in AllThreads /\ at[h] = "none" /\ at' = [at EXCEPT ![h] = "created"]
         /\ starting' \in [Starters -> Seq(AllThreads)]
         /\ \A q \in Starters : starting'[q] = IF q = p THEN Tail(starting[p]) ELSE starting[q]
         /\ ChainInv' /\ PeersInv'
<1> DEFINE h == Head(starting[p])
           s == starting[p]
<1>1. /\ s \in Seq(AllThreads) /\ s # <<>> /\ starting \in [Starters -> Seq(AllThreads)]
      /\ starting' = [starting EXCEPT ![p] = Tail(s)]
      /\ at' = [at EXCEPT ![h] = "created"] /\ at \in [AllThreads -> States]
      /\ UNCHANGED <<conns, runNext>>
  BY DEF ThreadsTypeOK, StartThread, Goes, listening
<1>2. /\ h = s[1] /\ 1 \in 1..Len(s) /\ h \in AllThreads /\ Tail(s) \in Seq(AllThreads)
      /\ Len(Tail(s)) = Len(s) - 1 /\ Len(s) \in Nat
      /\ \A k \in 1..Len(Tail(s)) : Tail(s)[k] = s[k + 1] /\ k + 1 \in 1..Len(s)
  BY <1>1
<1>3. at[h] = "none"
  BY <1>2 DEF ChainInv
<1>4. \A q \in Starters : starting'[q] = IF q = p THEN Tail(s) ELSE starting[q]
  BY <1>1
<1> HIDE DEF h
<1>5. ASSUME NEW q \in Starters, NEW k \in 1..Len(starting'[q])
      PROVE  \E j \in 1..Len(starting[q]) :
               /\ starting[q][j] = starting'[q][k]
               /\ j = IF q = p THEN k + 1 ELSE k
  <2>1. CASE q = p
    BY <1>2, <1>4, <2>1
  <2>2. CASE q # p
    BY <1>4, <2>2
  <2> QED BY <2>1, <2>2
<1>6. ASSUME NEW q \in Starters, NEW k \in 1..Len(starting'[q])
      PROVE  at'[starting'[q][k]] = "none"
  <2>1. PICK j \in 1..Len(starting[q]) :
          starting[q][j] = starting'[q][k] /\ j = IF q = p THEN k + 1 ELSE k
    BY <1>5
  <2>2. starting[q][j] \in AllThreads /\ at[starting[q][j]] = "none"
    BY <1>1 DEF ChainInv
  <2>3. k \in Nat \ {0}
    BY <1>2, <1>4, <1>1
  <2>4. starting[q][j] # h
    BY <1>2, <2>1, <2>3 DEF ChainInv
  <2> QED BY <1>1, <2>1, <2>2, <2>4
<1>7. ASSUME NEW q \in Starters, NEW r \in Starters, NEW k \in 1..Len(starting'[q]),
             NEW l \in 1..Len(starting'[r]), starting'[q][k] = starting'[r][l]
      PROVE  q = r /\ k = l
  <2>1. PICK i \in 1..Len(starting[q]) :
          starting[q][i] = starting'[q][k] /\ i = IF q = p THEN k + 1 ELSE k
    BY <1>5
  <2>2. PICK j \in 1..Len(starting[r]) :
          starting[r][j] = starting'[r][l] /\ j = IF r = p THEN l + 1 ELSE l
    BY <1>5
  <2>3. q = r /\ i = j
    BY <1>7, <2>1, <2>2 DEF ChainInv
  <2>4. k \in Int /\ l \in Int
    BY <1>1, <1>2, <1>4
  <2> QED BY <2>1, <2>2, <2>3, <2>4
<1>8. ChainInv'
  BY <1>6, <1>7 DEF ChainInv
<1>9. ASSUME NEW x \in AllThreads, Fresh(x)
      PROVE  Fresh(x)'
  <2>1. x # h
    BY <1>2, <1>9 DEF Fresh, Queued
  <2>2. at'[x] = "none"
    BY <1>1, <1>9, <2>1 DEF Fresh
  <2>3. ~Queued(x)'
    BY <1>5, <1>9 DEF Fresh, Queued
  <2> QED BY <2>2, <2>3 DEF Fresh
<1>10. PeersInv'
  <2>1. \A x \in AllThreads : at'[x] # "gone" => at[x] # "gone"
    BY <1>1, <1>3
  <2>2. \A k \in 1..MaxConns : ReversesFresh(k) => ReversesFresh(k)'
    BY <1>9, Peers DEF ReversesFresh
  <2> QED BY <1>1, <1>9, <2>1, <2>2, Peers DEF PeersInv
<1>11. starting' \in [Starters -> Seq(AllThreads)]
  BY <1>1, <1>2
<1> QED BY <1>1, <1>2, <1>3, <1>4, <1>8, <1>10, <1>11 DEF h

(***************************************************************************)
(* The actions.                                                            *)
(***************************************************************************)
Kept == <<test, runNext, numThreads, mClients, conns, sInterupted>>

\* A step of an agent that may end it: what it does to its report, and what it
\* leaves to start.
LEMMA AgentMove ==
  ASSUME ThreadsInv, ~Ended, NEW x \in Agents, at[x] \notin {"none", "gone"},
         NEW b \in States, b # "none", at' = [at EXCEPT ![x] = b],
         UNCHANGED <<Kept, nonterminating_num>>, main' \in {main, "join"},
         thread_sNum' = (IF b = "gone" THEN thread_sNum - 1 ELSE thread_sNum),
         starting' \in [Starters -> Seq(AllThreads)], ChainInv', PeersInv',
         report' \in [Agents -> {"none", "open", "closed", "handled", "ended", "freed"}],
         \A y \in Agents : y # x => report'[y] = report[y],
         report'[x] \in {"open", "closed", "handled"} => b \in {"run", "closed"}
  PROVE  ThreadsInv'
<1>1. x \in AllThreads /\ x # ListenerThread /\ x # ReporterThread
  BY Kinds
<1>2. ThreadsTypeOK'
  BY <1>1 DEF ThreadsInv, ThreadsTypeOK, Kept
<1>3. /\ at'[ListenerThread] = at[ListenerThread] /\ at'[ReporterThread] = at[ReporterThread]
      /\ at'[x] = b /\ \A y \in AllThreads : y # x => at'[y] = at[y]
  BY <1>1, Kinds DEF ThreadsInv, ThreadsTypeOK
<1>4. NontermInv'
  BY <1>3 DEF ThreadsInv, NontermInv
<1>5. CountInv'
  <2>1. at \in [AllThreads -> States] /\ IsFiniteSet(LiveOf(at))
    BY DEF ThreadsInv, ThreadsTypeOK, CountInv
  <2>2. /\ IsFiniteSet(LiveOf(at')) /\ Cardinality(LiveOf(at)) \in Nat
        /\ b # "gone" => Cardinality(LiveOf(at')) = Cardinality(LiveOf(at))
        /\ b = "gone" => Cardinality(LiveOf(at')) = Cardinality(LiveOf(at)) - 1
    BY <1>1, <2>1, LiveMove
  <2>3. Off(at', nonterminating_num') = Off(at, nonterminating_num)
        /\ Off(at, nonterminating_num) \in Nat
    BY <1>3 DEF Off
  <2>4. thread_sNum = Cardinality(LiveOf(at)) - Off(at, nonterminating_num)
    BY DEF ThreadsInv, CountInv
  <2> QED BY <2>2, <2>3, <2>4 DEF CountInv
<1>6. ReportInv'
  BY <1>3, Kinds DEF ThreadsInv, ReportInv
<1>7. JoinWaits'
  BY DEF JoinWaits, Ended
<1> QED BY <1>2, <1>4, <1>5, <1>6, <1>7 DEF ThreadsInv

\* Clients and servers keep the invariant.
LEMMA AgentsKeep ==
  ASSUME ThreadsInv, NEW x \in Agents, Connect(x) \/ CloseAgent(x) \/ EndAgent(x)
  PROVE  ThreadsInv'
<1>0. /\ ThreadsTypeOK /\ ChainInv /\ PeersInv /\ ReportInv /\ x \in AllThreads
      /\ conns \in Nat /\ at \in [AllThreads -> States]
      /\ report \in [Agents -> {"none", "open", "closed", "handled", "ended", "freed"}]
      /\ starting \in [Starters -> Seq(AllThreads)]
  BY Kinds DEF ThreadsInv, ThreadsTypeOK
<1>1. ~Ended /\ UNCHANGED <<Kept, nonterminating_num, starting>>
  BY DEF Connect, CloseAgent, EndAgent, Kept, counts, listening, signalling
<1>2. ASSUME NEW b, b # "none", at' = [at EXCEPT ![x] = b], at[x] \notin {"none", "gone"}
      PROVE  ChainInv' /\ PeersInv'
  <2>1. \A y \in AllThreads : /\ at[y] = "none" => at'[y] = "none"
                              /\ at[y] = "gone" => at'[y] = "gone"
    BY <1>0, <1>2
  <2> QED BY <1>0, <1>1, <2>1, ChainsKept DEF Kept
<1>3. CASE Connect(x)
  <2>1. report' = report /\ at[x] = "created" /\ main' \in {main, "join"}
    BY <1>3 DEF Connect, WakeMain
  <2>2. PICK b \in {"init", "ready", "gone"} :
          /\ at' = [at EXCEPT ![x] = b]
          /\ thread_sNum' = (IF b = "gone" THEN thread_sNum - 1 ELSE thread_sNum)
    BY <1>3 DEF Connect, Goes
  <2>3. b \in States /\ b # "none"
    BY DEF States
  <2>4. report[x] \notin {"open", "closed", "handled"}
    BY <1>0, <2>1 DEF ReportInv
  <2>5. ChainInv' /\ PeersInv'
    BY <1>2, <2>1, <2>2
  <2> QED BY <1>0, <1>1, <2>1, <2>2, <2>3, <2>4, <2>5, AgentMove
<1>4. CASE CloseAgent(x)
  <2>1. /\ report' = [report EXCEPT ![x] = "closed"] /\ at[x] = "run" /\ main' = main
        /\ at' = [at EXCEPT ![x] = "closed"] /\ thread_sNum' = thread_sNum
    BY <1>4 DEF CloseAgent, Goes, counts
  <2>2. ChainInv' /\ PeersInv'
    BY <1>2, <2>1
  <2>3. "closed" \in States
    BY DEF States
  <2> QED BY <1>0, <1>1, <2>1, <2>2, <2>3, AgentMove
<1>5. CASE EndAgent(x)
  <2>1. /\ report' = [report EXCEPT ![x] = "ended"] /\ at[x] = "closed" /\ main' = main
        /\ at' = [at EXCEPT ![x] = "end"] /\ thread_sNum' = thread_sNum
    BY <1>5 DEF EndAgent, Goes, counts
  <2>2. ChainInv' /\ PeersInv'
    BY <1>2, <2>1
  <2>3. "end" \in States
    BY DEF States
  <2> QED BY <1>0, <1>1, <2>1, <2>2, <2>3, AgentMove
<1> QED BY <1>3, <1>4, <1>5

\* The end of a thread, with the client that runs after it.
LEMMA ThreadEndKeeps ==
  ASSUME ThreadsInv, NEW x \in Agents \cup {ListenerThread}, ThreadEnd(x)
  PROVE  ThreadsInv'
<1>0. /\ ThreadsTypeOK /\ ChainInv /\ PeersInv /\ ReportInv /\ NontermInv /\ x \in AllThreads
      /\ conns \in Nat /\ at \in [AllThreads -> States] /\ runNext \subseteq Servers
      /\ report \in [Agents -> {"none", "open", "closed", "handled", "ended", "freed"}]
      /\ starting \in [Starters -> Seq(AllThreads)] /\ "gone" \in States
  BY Kinds DEF ThreadsInv, ThreadsTypeOK, States
<1>1. /\ ~Ended /\ UNCHANGED <<Kept, nonterminating_num, report>> /\ at[x] = "end"
      /\ at' = [at EXCEPT ![x] = "gone"] /\ thread_sNum' = thread_sNum - 1
      /\ main' \in {main, "join"}
      /\ starting' = IF x \in runNext
                     THEN [starting EXCEPT ![x] = ReverseStarts(x[2], numThreads[x[2]])]
                     ELSE starting
  BY DEF ThreadEnd, Goes, WakeMain, Kept, listening, signalling
<1>2. \A y \in AllThreads : /\ at[y] = "none" => at'[y] = "none"
                            /\ at[y] = "gone" => at'[y] = "gone"
  BY <1>0, <1>1
<1>3. starting' \in [Starters -> Seq(AllThreads)] /\ ChainInv' /\ PeersInv'
  <2>1. CASE x \notin runNext
    BY <1>0, <1>1, <1>2, <2>1, ChainsKept DEF Kept
  <2>2. CASE x \in runNext
    <3>1. PICK k \in 1..MaxConns : x = <<"server", k>>
      BY <1>0, <2>2 DEF Servers
    <3> DEFINE s == ReverseStarts(k, numThreads[k])
    <3>2. x[2] = k /\ starting' = [starting EXCEPT ![x] = s]
      BY <1>1, <2>2, <3>1
    <3>3. ReversesFresh(k) /\ k <= conns
      BY <1>0, <1>1, <2>2, <3>1 DEF PeersInv
    <3>4. x \in Starters
      BY <3>1, Peers
    <3>5. s \in Seq(AllThreads) /\ Distinct(s) /\ Elements(s) \subseteq ReversesOf(k)
      <4>1. numThreads[k] \in 0..MaxAsked
        BY <1>0 DEF ThreadsTypeOK
      <4> QED BY <4>1, ReverseChain
    <3> HIDE DEF s
    <3>6. /\ ChainInv'
          /\ \A y \in AllThreads : Fresh(y) /\ (\A i \in 1..Len(s) : s[i] # y) => Fresh(y)'
      <4>1. \A i \in 1..Len(s) : Fresh(s[i])
        BY <3>3, <3>5 DEF ReversesFresh, Elements
      <4>2. \A i, j \in 1..Len(s) : s[i] = s[j] => i = j
        BY <3>5 DEF Distinct
      <4> QED BY <1>0, <1>2, <3>2, <3>4, <3>5, <4>1, <4>2, NewChain
    <3>7. \A y \in AllThreads : Fresh(y) /\ y \notin ReversesOf(k) => Fresh(y)'
      BY <3>5, <3>6 DEF Elements
    <3>a. \A l \in 1..MaxConns : l # k /\ ReversesFresh(l) => ReversesFresh(l)'
      BY <3>7, Peers, PeersApart DEF ReversesFresh
    <3>8. PeersInv'
      <4>1. ASSUME NEW l \in 1..MaxConns, l > conns'
            PROVE  Fresh(<<"server", l>>)' /\ ReversesFresh(l)'
        <5>1. l > conns /\ l # k
          BY <1>0, <1>1, <3>3, <4>1 DEF Kept
        <5>2. Fresh(<<"server", l>>) /\ ReversesFresh(l)
          BY <1>0, <5>1 DEF PeersInv
        <5>3. <<"server", l>> \in AllThreads /\ <<"server", l>> \notin ReversesOf(k)
          BY Peers, PeersApart
        <5> QED BY <3>7, <3>a, <5>1, <5>2, <5>3
      <4>2. ASSUME NEW l \in 1..MaxConns, <<"server", l>> \in runNext'
            PROVE  l <= conns' /\ (at'[<<"server", l>>] # "gone" => ReversesFresh(l)')
        <5>1. /\ l <= conns' /\ <<"server", l>> \in runNext
              /\ (at[<<"server", l>>] # "gone" => ReversesFresh(l))
          BY <1>0, <1>1, <4>2 DEF PeersInv, Kept
        <5>2. CASE l = k
          BY <1>0, <1>1, <3>1, <5>1, <5>2
        <5>3. CASE l # k
          <6>1. <<"server", l>> \in AllThreads
            BY Peers
          <6> QED BY <1>2, <3>a, <5>1, <5>3, <6>1
        <5> QED BY <5>2, <5>3
      <4> QED BY <4>1, <4>2 DEF PeersInv
    <3> QED BY <1>0, <3>2, <3>5, <3>6, <3>8
  <2> QED BY <2>1, <2>2
<1>4. CASE x \in Agents
  <2>1. report[x] \notin {"open", "closed", "handled"}
    BY <1>0, <1>1, <1>4 DEF ReportInv
  <2> QED BY <1>0, <1>1, <1>3, <1>4, <2>1, AgentMove
<1>5. CASE x = ListenerThread
  <2>1. ThreadsTypeOK'
    BY <1>0, <1>1, <1>3 DEF ThreadsTypeOK, Kept
  <2>2. nonterminating_num # 1
    BY <1>0, <1>1, <1>5 DEF NontermInv, Listening
  <2>3. CountInv'
    <3>1. IsFiniteSet(LiveOf(at))
      BY DEF ThreadsInv, CountInv
    <3>2. /\ IsFiniteSet(LiveOf(at')) /\ Cardinality(LiveOf(at)) \in Nat
          /\ Cardinality(LiveOf(at')) = Cardinality(LiveOf(at)) - 1
      BY <1>0, <1>1, <3>1, LiveMove
    <3>3. Off(at', nonterminating_num') = Off(at, nonterminating_num)
          /\ Off(at, nonterminating_num) \in Nat
      BY <1>0, <1>1, <1>5, Kinds DEF Off, Listening
    <3>4. thread_sNum = Cardinality(LiveOf(at)) - Off(at, nonterminating_num)
      BY DEF ThreadsInv, CountInv
    <3> QED BY <1>1, <3>2, <3>3, <3>4 DEF CountInv
  <2>4. ReportInv' /\ NontermInv'
    BY <1>0, <1>1, <1>5, <2>2, Kinds DEF ReportInv, NontermInv
  <2>5. JoinWaits'
    BY <1>1 DEF JoinWaits, Ended
  <2> QED BY <1>3, <2>1, <2>3, <2>4, <2>5 DEF ThreadsInv
<1> QED BY <1>4, <1>5

\* What a step needs to show when it leaves chains and reports alone.
LEMMA ThreadsQuietStep ==
  ASSUME ThreadsInv, ~Ended, ThreadsTypeOK', UNCHANGED <<starting, runNext, report>>,
         conns' >= conns, main' # "exited",
         \A x \in AllThreads : /\ at[x] = "none" => at'[x] = "none"
                               /\ at[x] = "gone" => at'[x] = "gone",
         \A x \in Agents : at[x] \in {"run", "closed"} => at'[x] = at[x],
         NontermInv', CountInv'
  PROVE  ThreadsInv'
<1>1. ChainInv' /\ PeersInv'
  <2>1. conns' \in Nat
    BY DEF ThreadsTypeOK
  <2> QED BY <2>1, ChainsKept DEF ThreadsInv
<1>2. ReportInv'
  BY DEF ThreadsInv, ReportInv
<1>3. JoinWaits'
  BY DEF JoinWaits
<1> QED BY <1>1, <1>2, <1>3 DEF ThreadsInv

\* The numbers in the count.
LEMMA CountFacts ==
  ASSUME ThreadsInv
  PROVE  /\ IsFiniteSet(LiveOf(at)) /\ Cardinality(LiveOf(at)) \in Nat
         /\ thread_sNum = Cardinality(LiveOf(at)) - Off(at, nonterminating_num)
         /\ at \in [AllThreads -> States] /\ nonterminating_num \in {0, 1}
BY FS_CardinalityType DEF ThreadsInv, CountInv, ThreadsTypeOK

\* thread_start keeps the invariant: the thread was not yet started.
LEMMA StartKeeps ==
  ASSUME ThreadsInv, NEW p \in Starters, StartThread(p)
  PROVE  ThreadsInv'
<1> DEFINE h == Head(starting[p])
<1>1. /\ h \in AllThreads /\ at[h] = "none" /\ at' = [at EXCEPT ![h] = "created"]
      /\ starting' \in [Starters -> Seq(AllThreads)] /\ ChainInv' /\ PeersInv'
  BY StartChain DEF ThreadsInv
<1> HIDE DEF h
<1>2. /\ ~Ended /\ thread_sNum' = thread_sNum + 1 /\ main' = main
      /\ UNCHANGED <<Kept, nonterminating_num, report>>
  BY DEF StartThread, Kept, listening, signalling
<1>3. "created" \in States
  BY DEF States
<1>4. ThreadsTypeOK'
  BY <1>1, <1>2, <1>3 DEF ThreadsInv, ThreadsTypeOK, Kept
<1>5. \A x \in AllThreads : at'[x] = IF x = h THEN "created" ELSE at[x]
  BY <1>1 DEF ThreadsInv, ThreadsTypeOK
<1>6. NontermInv'
  BY <1>1, <1>2, <1>5, Kinds DEF ThreadsInv, NontermInv, Listening
<1>7. CountInv'
  <2>1. /\ IsFiniteSet(LiveOf(at'))
        /\ Cardinality(LiveOf(at')) = Cardinality(LiveOf(at)) + 1
    BY <1>1, <1>3, CountFacts, LiveMove
  <2>2. Off(at', nonterminating_num') = Off(at, nonterminating_num)
        /\ Off(at, nonterminating_num) \in Nat
    BY <1>1, <1>2, <1>5, Kinds DEF Off, Listening
  <2> QED BY <1>2, <2>1, <2>2, CountFacts DEF CountInv
<1>8. ReportInv'
  BY <1>1, <1>2, <1>5, Kinds DEF ThreadsInv, ReportInv
<1>9. JoinWaits'
  BY <1>2 DEF JoinWaits, Ended
<1> QED BY <1>1, <1>4, <1>6, <1>7, <1>8, <1>9 DEF ThreadsInv

\* thread_joinall: main returns only when the count is 0.
LEMMA JoinKeeps ==
  ASSUME ThreadsInv, JoinAll
  PROVE  ThreadsInv'
<1>1. UNCHANGED <<Kept, at, starting, counts, report>>
  BY DEF JoinAll, Kept, listening, signalling
<1>2. main' \in {"join", "wait", "exited"}
  BY DEF JoinAll
<1>3. ThreadsTypeOK'
  BY <1>1, <1>2 DEF ThreadsInv, ThreadsTypeOK, Kept, counts
<1>4. ChainInv' /\ PeersInv'
  BY <1>1, ChainsKept DEF ThreadsInv, ThreadsTypeOK, Kept
<1>5. NontermInv' /\ CountInv' /\ ReportInv'
  BY <1>1 DEF ThreadsInv, NontermInv, CountInv, ReportInv, counts
<1>6. JoinWaits'
  <2> SUFFICES ASSUME main' = "exited" PROVE JoinWaits'
    BY DEF JoinWaits
  <2>1. ~(thread_sNum > 0)
    BY DEF JoinAll
  <2>2. \A x \in Agents : at[x] \in {"none", "gone"}
    BY <2>1, CountZero DEF ThreadsInv
  <2>3. \A x \in Agents : report[x] \in {"none", "ended", "freed"}
    BY <2>2 DEF ThreadsInv, ReportInv, ThreadsTypeOK
  <2> QED BY <1>1, <2>2, <2>3 DEF JoinWaits
<1> QED BY <1>3, <1>4, <1>5, <1>6 DEF ThreadsInv

\* The barrier of the clients keeps the invariant.
LEMMA BarrierKeeps ==
  ASSUME ThreadsInv, NEW x \in Agents, BarrierClient(x)
  PROVE  ThreadsInv'
<1>0. at \in [AllThreads -> States] /\ x \in AllThreads /\ Group(x) \subseteq Agents
  BY Kinds, GroupAgents DEF ThreadsInv, ThreadsTypeOK
<1>1. /\ ~Ended /\ at[x] = "init" /\ UNCHANGED <<Kept, starting, counts, report, main>>
  BY DEF BarrierClient, Kept, listening, signalling
<1>2. /\ at' \in [AllThreads -> States]
      /\ \A y \in AllThreads :
           \/ at'[y] = at[y]
           \/ /\ y \in Agents /\ at[y] \in {"init", "barrier"}
              /\ at'[y] \in {"ready", "barrier"}
  <2>1. CASE \A y \in Group(x) \ {x} : at[y] = "barrier"
    <3>1. at' = [y \in AllThreads |-> IF y \in Group(x) THEN "ready" ELSE at[y]]
      BY <2>1 DEF BarrierClient
    <3> QED BY <1>0, <1>1, <2>1, <3>1 DEF States
  <2>2. CASE ~\A y \in Group(x) \ {x} : at[y] = "barrier"
    <3>1. at' = [at EXCEPT ![x] = "barrier"]
      BY <2>2 DEF BarrierClient, Goes
    <3> QED BY <1>0, <1>1, <3>1 DEF States
  <2> QED BY <2>1, <2>2
<1>3. LiveOf(at') = LiveOf(at)
  BY <1>2 DEF LiveOf
<1>4. at'[ListenerThread] = at[ListenerThread] /\ at'[ReporterThread] = at[ReporterThread]
  BY <1>2, Kinds
<1>5. NontermInv' /\ CountInv'
  BY <1>1, <1>3, <1>4 DEF ThreadsInv, NontermInv, CountInv, Off, counts
<1>6. ThreadsTypeOK' /\ main' # "exited"
  BY <1>1, <1>2 DEF ThreadsInv, ThreadsTypeOK, Kept, counts, Ended
<1>7. /\ \A y \in AllThreads : /\ at[y] = "none" => at'[y] = "none"
                               /\ at[y] = "gone" => at'[y] = "gone"
      /\ \A y \in Agents : at[y] \in {"run", "closed"} => at'[y] = at[y]
  BY <1>2, Kinds
<1>8. conns' >= conns
  BY <1>1 DEF ThreadsInv, ThreadsTypeOK, Kept
<1> QED BY <1>1, <1>5, <1>6, <1>7, <1>8, ThreadsQuietStep DEF Kept

\* InitReport wakes the reporter and keeps the invariant.
LEMMA InitReportKeeps ==
  ASSUME ThreadsInv, NEW x \in Agents, InitReport(x)
  PROVE  ThreadsInv'
<1> DEFINE r == IF at[ReporterThread] = "ignored" THEN "woken" ELSE at[ReporterThread]
<1>0. /\ at \in [AllThreads -> States] /\ x \in AllThreads /\ x # ReporterThread
      /\ x # ListenerThread /\ ReporterThread \in AllThreads /\ ListenerThread \in AllThreads
      /\ ListenerThread # ReporterThread
  BY Kinds DEF ThreadsInv, ThreadsTypeOK
<1>1. /\ ~Ended /\ at[x] \in {"ready", "created"} /\ UNCHANGED <<Kept, starting, counts, main>>
      /\ report' = [report EXCEPT ![x] = "open"]
      /\ at' = [[at EXCEPT ![x] = "run"] EXCEPT ![ReporterThread] = r]
  BY <1>0 DEF InitReport, Kept, listening
<1>2. r \in States /\ "run" \in States
  BY <1>0 DEF States
<1>3. \A y \in AllThreads :
        at'[y] = IF y = x THEN "run" ELSE IF y = ReporterThread THEN r ELSE at[y]
  BY <1>0, <1>1
<1>4. at' \in [AllThreads -> States]
  BY <1>0, <1>1, <1>2
<1>5. LiveOf(at') = LiveOf(at)
  BY <1>0, <1>1, <1>3 DEF LiveOf
<1>6. Off(at', nonterminating_num') = Off(at, nonterminating_num)
  BY <1>0, <1>1, <1>3 DEF Off, counts
<1>7. NontermInv' /\ CountInv'
  BY <1>0, <1>1, <1>3, <1>5, <1>6 DEF ThreadsInv, NontermInv, CountInv, counts
<1>8. ThreadsTypeOK'
  BY <1>1, <1>4 DEF ThreadsInv, ThreadsTypeOK, Kept, counts
<1>9. ChainInv' /\ PeersInv'
  <2>1. \A y \in AllThreads : /\ at[y] = "none" => at'[y] = "none"
                              /\ at[y] = "gone" => at'[y] = "gone"
    BY <1>1, <1>3
  <2> QED BY <1>1, <2>1, ChainsKept DEF ThreadsInv, ThreadsTypeOK, Kept
<1>10. ReportInv'
  BY <1>0, <1>1, <1>3, Kinds DEF ThreadsInv, ReportInv, ThreadsTypeOK
<1>11. JoinWaits'
  BY <1>1 DEF JoinWaits, Ended
<1> QED BY <1>7, <1>8, <1>9, <1>10, <1>11 DEF ThreadsInv

\* The reporter takes itself in and out of the count.
LEMMA ReporterKeeps ==
  ASSUME ThreadsInv, ReporterStep
  PROVE  ThreadsInv'
<1>0. /\ ReporterThread \in AllThreads /\ ListenerThread \in AllThreads
      /\ ListenerThread # ReporterThread /\ ReporterThread \notin Agents
  BY Kinds
<1>1. ~Ended /\ UNCHANGED <<Kept, starting, nonterminating_num>> /\ main' \in {main, "join"}
  BY DEF ReporterStep, ReporterTest, ReporterWoken, ReporterPass, Kept, counts, listening,
         signalling, WakeMain
<1>2. \E b \in {"ignored", "pass", "test"} :
        /\ at' = [at EXCEPT ![ReporterThread] = b]
        /\ at[ReporterThread] \in {"created", "test", "woken", "pass"}
        /\ \/ b = "ignored" /\ at[ReporterThread] # "woken" /\ thread_sNum' = thread_sNum - 1
           \/ b # "ignored" /\ at[ReporterThread] = "woken" /\ thread_sNum' = thread_sNum + 1
           \/ b # "ignored" /\ at[ReporterThread] # "woken" /\ thread_sNum' = thread_sNum
  BY DEF ReporterStep, ReporterTest, ReporterWoken, ReporterPass, Goes, counts
<1>3. PICK b \in {"ignored", "pass", "test"} :
        /\ at' = [at EXCEPT ![ReporterThread] = b]
        /\ at[ReporterThread] \in {"created", "test", "woken", "pass"}
        /\ \/ b = "ignored" /\ at[ReporterThread] # "woken" /\ thread_sNum' = thread_sNum - 1
           \/ b # "ignored" /\ at[ReporterThread] = "woken" /\ thread_sNum' = thread_sNum + 1
           \/ b # "ignored" /\ at[ReporterThread] # "woken" /\ thread_sNum' = thread_sNum
  BY <1>2
<1>4. b \in States
  BY DEF States
<1>5. \A y \in AllThreads : at'[y] = IF y = ReporterThread THEN b ELSE at[y]
  BY <1>3, CountFacts
<1>6. /\ report' \in [Agents -> {"none", "open", "closed", "handled", "ended", "freed"}]
      /\ \A x \in Agents : report'[x] \in {"open", "closed", "handled"} =>
                             report[x] \in {"open", "closed", "handled"}
  <2>1. CASE report' = report
    BY <2>1 DEF ThreadsInv, ThreadsTypeOK
  <2>2. CASE report' = [x \in Agents |-> CASE report[x] = "closed" -> "handled"
                                   [] report[x] = "ended" -> "freed"
                                   [] OTHER -> report[x]]
    BY <2>2 DEF ThreadsInv, ThreadsTypeOK
  <2> QED BY <2>1, <2>2 DEF ReporterStep, ReporterTest, ReporterWoken, ReporterPass
<1>7. ThreadsTypeOK'
  <2>1. thread_sNum' \in Int
    BY <1>3 DEF ThreadsInv, ThreadsTypeOK
  <2>2. at' \in [AllThreads -> States]
    BY <1>3, <1>4, CountFacts
  <2> QED BY <1>1, <1>6, <2>1, <2>2 DEF ThreadsInv, ThreadsTypeOK, Kept
<1>8. CountInv'
  <2>1. /\ IsFiniteSet(LiveOf(at'))
        /\ Cardinality(LiveOf(at')) = Cardinality(LiveOf(at))
    BY <1>0, <1>3, <1>4, CountFacts, LiveMove
  <2>2. CASE b = "ignored" /\ at[ReporterThread] # "woken" /\ thread_sNum' = thread_sNum - 1
    BY <1>0, <1>1, <1>3, <1>5, <2>1, <2>2, CountFacts DEF CountInv, Off
  <2>3. CASE b # "ignored" /\ at[ReporterThread] = "woken" /\ thread_sNum' = thread_sNum + 1
    BY <1>0, <1>1, <1>3, <1>5, <2>1, <2>3, CountFacts DEF CountInv, Off
  <2>4. CASE b # "ignored" /\ at[ReporterThread] # "woken" /\ thread_sNum' = thread_sNum
    BY <1>0, <1>1, <1>3, <1>5, <2>1, <2>4, CountFacts DEF CountInv, Off
  <2> QED BY <1>3, <2>2, <2>3, <2>4
<1>9. NontermInv'
  BY <1>0, <1>1, <1>5 DEF ThreadsInv, NontermInv
<1>10. ChainInv' /\ PeersInv'
  <2>1. \A y \in AllThreads : /\ at[y] = "none" => at'[y] = "none"
                              /\ at[y] = "gone" => at'[y] = "gone"
    BY <1>3, <1>5
  <2> QED BY <1>1, <2>1, ChainsKept DEF ThreadsInv, ThreadsTypeOK, Kept
<1>11. ReportInv'
  BY <1>0, <1>5, <1>6, Kinds DEF ThreadsInv, ReportInv
<1>12. JoinWaits'
  BY <1>1 DEF JoinWaits, Ended
<1> QED BY <1>7, <1>8, <1>9, <1>10, <1>11, <1>12 DEF ThreadsInv

\* The listener registers, goes round its loop and leaves it.
LEMMA ListenerKeeps ==
  ASSUME ThreadsInv, RegisterNonterm \/ ListenerLoop \/ UnregisterNonterm \/ AcceptRefused
                       \/ AcceptInterupted
  PROVE  ThreadsInv'
<1>0. /\ ReporterThread \in AllThreads /\ ListenerThread \in AllThreads
      /\ ListenerThread # ReporterThread /\ ListenerThread \notin Agents
  BY Kinds
<1>1. /\ ~Ended /\ conns' \in {conns, conns + 1}
      /\ UNCHANGED <<test, runNext, numThreads, mClients, sInterupted, starting, report, main>>
  BY DEF RegisterNonterm, ListenerLoop, UnregisterNonterm, AcceptRefused, AcceptInterupted, counts,
         listening, signalling
<1>2. PICK b \in {"listen", "started", "leave", "end"} :
        /\ at' = [at EXCEPT ![ListenerThread] = b]
        /\ at[ListenerThread] \in {"created", "listen", "started", "leave"}
        /\ \/ /\ at[ListenerThread] = "created" /\ b = "listen"
              /\ nonterminating_num' = nonterminating_num + 1 /\ thread_sNum' = thread_sNum
           \/ /\ at[ListenerThread] \in Listening /\ b # "end"
              /\ nonterminating_num' = nonterminating_num /\ thread_sNum' = thread_sNum
           \/ /\ at[ListenerThread] \in Listening /\ b = "end" /\ nonterminating_num = 0
              /\ nonterminating_num' = nonterminating_num /\ thread_sNum' = thread_sNum + 1
           \/ /\ at[ListenerThread] \in Listening /\ b = "end" /\ nonterminating_num # 0
              /\ nonterminating_num' = nonterminating_num - 1 /\ thread_sNum' = thread_sNum
  BY DEF RegisterNonterm, ListenerLoop, UnregisterNonterm, AcceptRefused, AcceptInterupted,
         counts, Goes, Listening
<1>3. b \in States
  BY DEF States
<1>4. \A y \in AllThreads : at'[y] = IF y = ListenerThread THEN b ELSE at[y]
  BY <1>2, CountFacts
<1>5. conns' \in 0..MaxConns /\ conns' >= conns
  <2>1. AcceptInterupted => conns < MaxConns
    BY DEF AcceptInterupted, PeerConnects
  <2>2. ~AcceptInterupted => conns' = conns
    BY DEF RegisterNonterm, ListenerLoop, UnregisterNonterm, AcceptRefused, listening
  <2>3. conns \in 0..MaxConns /\ MaxConns \in Nat
    BY IperfThreadsAssumption DEF ThreadsInv, ThreadsTypeOK
  <2> QED BY <1>1, <2>1, <2>2, <2>3
<1>6. nonterminating_num = 1 => at[ListenerThread] \in Listening
  BY DEF ThreadsInv, NontermInv
<1>7. nonterminating_num' \in {0, 1} /\ thread_sNum' \in Int
  <2>1. thread_sNum \in Int
    BY DEF ThreadsInv, ThreadsTypeOK
  <2> QED BY <1>2, <1>6, <2>1, CountFacts DEF Listening
<1>8. ThreadsTypeOK'
  <2>1. at' \in [AllThreads -> States]
    BY <1>2, <1>3, CountFacts
  <2> QED BY <1>1, <1>5, <1>7, <2>1 DEF ThreadsInv, ThreadsTypeOK
<1>9. NontermInv'
  BY <1>0, <1>2, <1>4, <1>6, CountFacts DEF NontermInv, Listening
<1>10. CountInv'
  <2>1. /\ IsFiniteSet(LiveOf(at'))
        /\ Cardinality(LiveOf(at')) = Cardinality(LiveOf(at))
    BY <1>0, <1>2, <1>3, CountFacts, LiveMove
  <2> DEFINE R == IF at[ReporterThread] \in {"ignored", "woken"} THEN 1 ELSE 0
  <2>2. /\ at'[ListenerThread] = b
        /\ Off(at', nonterminating_num') =
             (IF b \in Listening /\ nonterminating_num' = 0 THEN 1 ELSE 0) + R
        /\ Off(at, nonterminating_num) =
             (IF at[ListenerThread] \in Listening /\ nonterminating_num = 0 THEN 1 ELSE 0) + R
        /\ R \in Nat
    BY <1>0, <1>4 DEF Off
  <2> HIDE DEF R
  <2>3. thread_sNum' = Cardinality(LiveOf(at)) - Off(at', nonterminating_num')
    BY <1>2, <1>6, <2>2, CountFacts DEF Listening
  <2> QED BY <2>1, <2>3 DEF CountInv
<1>11. /\ \A y \in AllThreads : /\ at[y] = "none" => at'[y] = "none"
                                /\ at[y] = "gone" => at'[y] = "gone"
       /\ \A y \in Agents : at[y] \in {"run", "closed"} => at'[y] = at[y]
  BY <1>0, <1>2, <1>4, Kinds
<1>12. main' # "exited"
  BY <1>1 DEF Ended
<1> QED BY <1>1, <1>5, <1>8, <1>9, <1>10, <1>11, <1>12, ThreadsQuietStep

\* The listener starts a server, with clients of its own at once or after it.
LEMMA AcceptKeeps ==
  ASSUME ThreadsInv, NEW asked \in {"nothing", "dual", "tradeoff"}, NEW n \in 0..MaxAsked,
         AcceptPeer(asked, n)
  PROVE  ThreadsInv'
<1> DEFINE c == conns + 1
           sv == <<"server", c>>
           rs == IF asked = "dual" THEN ReverseStarts(c, n) ELSE <<>>
           s == rs \o <<sv>>
<1>0. /\ ReporterThread \in AllThreads /\ ListenerThread \in AllThreads
      /\ ListenerThread # ReporterThread /\ ListenerThread \notin Agents
      /\ ListenerThread \in Starters
  BY Kinds
<1>1. /\ ~Ended /\ UNCHANGED <<test, sInterupted, report>> /\ conns' = c
      /\ at[ListenerThread] = "listen" /\ at' = [at EXCEPT ![ListenerThread] = "started"]
      /\ starting' = [starting EXCEPT ![ListenerThread] = s]
      /\ runNext' = IF asked = "tradeoff" THEN runNext \cup {sv} ELSE runNext
      /\ numThreads' = [numThreads EXCEPT ![c] = n]
      /\ conns < MaxConns
  BY DEF AcceptPeer, Goes, PeerConnects, signalling
<1>2. \/ /\ thread_sNum' = thread_sNum - nonterminating_num /\ nonterminating_num' = 0
         /\ main' \in {main, "join"}
      \/ UNCHANGED <<counts, main>>
  BY DEF AcceptPeer, WakeMain
<1>3. mClients' \in {mClients, mClients - 1}
  BY DEF AcceptPeer
<1>4. c \in 1..MaxConns /\ c > conns /\ conns \in Nat
  BY <1>1, IperfThreadsAssumption DEF ThreadsInv, ThreadsTypeOK
<1>5. /\ sv \in Servers /\ sv \in AllThreads /\ sv \notin ReversesOf(c)
      /\ Fresh(sv) /\ ReversesFresh(c)
  BY <1>4, Peers, PeersApart DEF ThreadsInv, PeersInv
<1>6. \A y \in AllThreads : at'[y] = IF y = ListenerThread THEN "started" ELSE at[y]
  BY <1>1, CountFacts
<1>7. "started" \in States
  BY DEF States
<1>a. /\ rs \in Seq(AllThreads) /\ Distinct(rs) /\ Elements(rs) \subseteq ReversesOf(c)
      /\ asked # "dual" => Elements(rs) = {}
  <2>1. CASE asked = "dual"
    BY <1>4, <2>1, ReverseChain
  <2>2. CASE asked # "dual"
    <3>1. rs = <<>>
      BY <2>2
    <3> HIDE DEF rs
    <3>2. rs \in Seq(AllThreads) /\ Len(rs) = 0
      BY <3>1
    <3> QED BY <3>2 DEF Elements, Distinct
  <2> QED BY <2>1, <2>2
<1>b. AddsLast(rs, sv, s)
  BY DEF AddsLast
<1> HIDE DEF c, sv, rs, s
<1>8. s \in Seq(AllThreads) /\ Distinct(s) /\ Elements(s) = Elements(rs) \cup {sv}
  <2>1. sv \notin Elements(rs)
    BY <1>5, <1>a
  <2> QED BY <1>5, <1>a, <1>b, <2>1, AddLast
<1>9. \A x \in AllThreads : x \in Elements(s) => Fresh(x)
  BY <1>5, <1>8, <1>a DEF ReversesFresh
<1>10. \A y \in AllThreads : /\ at[y] = "none" => at'[y] = "none"
                             /\ at[y] = "gone" => at'[y] = "gone"
  BY <1>1, <1>6
<1>11. /\ ChainInv'
       /\ \A x \in AllThreads : Fresh(x) /\ x \notin Elements(s) => Fresh(x)'
  <2>1. \A k \in 1..Len(s) : s[k] \in Elements(s) /\ s[k] \in AllThreads
    BY <1>8 DEF Elements
  <2>2. \A k \in 1..Len(s) : Fresh(s[k])
    BY <1>9, <2>1
  <2>3. \A k, l \in 1..Len(s) : s[k] = s[l] => k = l
    BY <1>8 DEF Distinct
  <2>4. /\ ChainInv'
        /\ \A x \in AllThreads : Fresh(x) /\ (\A k \in 1..Len(s) : s[k] # x) => Fresh(x)'
    BY <1>0, <1>1, <1>8, <1>10, <2>2, <2>3, NewChain DEF ThreadsInv
  <2> QED BY <2>1, <2>4
<1>c. \A l \in 1..MaxConns : l # c /\ ReversesFresh(l) => ReversesFresh(l)'
  <2>1. ASSUME NEW l \in 1..MaxConns, l # c, NEW x \in ReversesOf(l)
        PROVE  x \in AllThreads /\ x \notin Elements(s)
    <3>1. x \notin ReversesOf(c)
      BY <1>4, <2>1, PeersApart
    <3>2. x # sv
      BY <1>4, PeersApart DEF sv
    <3> QED BY <1>8, <1>a, <3>1, <3>2, Peers
  <2> QED BY <1>11, <2>1 DEF ReversesFresh
<1>12. PeersInv'
  <2>1. ASSUME NEW l \in 1..MaxConns, l > conns'
        PROVE  Fresh(<<"server", l>>)' /\ ReversesFresh(l)'
    <3>1. l > conns /\ l # c
      BY <1>1, <1>4, <2>1
    <3>2. <<"server", l>> # sv /\ <<"server", l>> \notin ReversesOf(c)
      BY <1>4, <3>1, PeersApart DEF sv
    <3>3. Fresh(<<"server", l>>) /\ ReversesFresh(l)
      BY <3>1 DEF ThreadsInv, PeersInv
    <3>4. <<"server", l>> \in AllThreads /\ <<"server", l>> \notin Elements(s)
      BY <1>8, <1>a, <3>2, Peers
    <3> QED BY <1>11, <1>c, <3>1, <3>3, <3>4
  <2>2. ASSUME NEW l \in 1..MaxConns, <<"server", l>> \in runNext'
        PROVE  l <= conns' /\ (at'[<<"server", l>>] # "gone" => ReversesFresh(l)')
    <3>1. CASE <<"server", l>> \in runNext
      <4>1. l <= conns /\ (at[<<"server", l>>] # "gone" => ReversesFresh(l))
        BY <3>1 DEF ThreadsInv, PeersInv
      <4>2. l # c /\ l <= c
        BY <1>4, <4>1 DEF c
      <4>3. <<"server", l>> \in AllThreads
        BY Peers
      <4> QED BY <1>1, <1>10, <1>c, <4>1, <4>2, <4>3
    <3>2. CASE <<"server", l>> \notin runNext
      <4>1. asked = "tradeoff" /\ <<"server", l>> = sv
        BY <1>1, <2>2, <3>2
      <4>2. l = c
        BY <1>4, <4>1, PeersApart DEF sv
      <4>3. Elements(s) = {sv}
        BY <1>8, <1>a, <4>1
      <4>4. ReversesFresh(l)'
        <5>1. \A x \in ReversesOf(l) : x \in AllThreads /\ x \notin Elements(s)
          BY <1>4, <1>5, <4>2, <4>3, Peers
        <5>2. \A x \in ReversesOf(l) : Fresh(x)
          BY <1>5, <4>2 DEF ReversesFresh
        <5> QED BY <1>11, <5>1, <5>2 DEF ReversesFresh
      <4> QED BY <1>1, <1>4, <4>2, <4>4
    <3> QED BY <3>1, <3>2
  <2> QED BY <2>1, <2>2 DEF PeersInv
<1>13. nonterminating_num' \in {0, 1} /\ thread_sNum' \in Int
  <2>1. thread_sNum \in Int
    BY DEF ThreadsInv, ThreadsTypeOK
  <2> QED BY <1>2, <2>1, CountFacts DEF counts
<1>14. ThreadsTypeOK'
  <2>1. at' \in [AllThreads -> States]
    BY <1>1, <1>7, CountFacts
  <2>2. starting' \in [Starters -> Seq(AllThreads)]
    BY <1>1, <1>8 DEF ThreadsInv, ThreadsTypeOK
  <2>3. runNext' \subseteq Servers
    BY <1>1, <1>5 DEF ThreadsInv, ThreadsTypeOK
  <2>4. conns' \in 0..MaxConns /\ mClients' \in Int
    BY <1>1, <1>3, <1>4 DEF ThreadsInv, ThreadsTypeOK
  <2>5. main' \in {"start", "join", "wait", "exited", "killed"}
    BY <1>2 DEF ThreadsInv, ThreadsTypeOK
  <2>6. numThreads' \in [1..MaxConns -> 0..MaxAsked]
    BY <1>1 DEF ThreadsInv, ThreadsTypeOK
  <2> QED BY <1>1, <1>13, <2>1, <2>2, <2>3, <2>4, <2>5, <2>6 DEF ThreadsInv, ThreadsTypeOK
<1>15. NontermInv'
  BY <1>0, <1>6 DEF NontermInv, Listening
<1>16. CountInv'
  <2>1. /\ IsFiniteSet(LiveOf(at'))
        /\ Cardinality(LiveOf(at')) = Cardinality(LiveOf(at))
    BY <1>0, <1>1, <1>7, CountFacts, LiveMove
  <2>2. CASE thread_sNum' = thread_sNum - nonterminating_num /\ nonterminating_num' = 0
    BY <1>0, <1>1, <1>6, <2>1, <2>2, CountFacts DEF CountInv, Off, Listening
  <2>3. CASE UNCHANGED counts
    BY <1>0, <1>1, <1>6, <2>1, <2>3, CountFacts DEF CountInv, Off, Listening, counts
  <2> QED BY <1>2, <2>2, <2>3
<1>17. ReportInv'
  BY <1>0, <1>1, <1>6, Kinds DEF ThreadsInv, ReportInv
<1>18. JoinWaits'
  BY <1>1, <1>2 DEF JoinWaits, Ended
<1> QED BY <1>11, <1>12, <1>14, <1>15, <1>16, <1>17, <1>18 DEF ThreadsInv

\* A signal releases the threads that do not terminate, once.
LEMMA SignalKeeps ==
  ASSUME ThreadsInv, NEW t, Signal(t)
  PROVE  ThreadsInv'
<1>1. /\ ~Ended /\ UNCHANGED <<test, at, starting, report, runNext, numThreads, mClients, conns>>
      /\ thread_sNum' = thread_sNum - nonterminating_num /\ nonterminating_num' = 0
      /\ main' \in {main, "join", "killed"} /\ sInterupted' = TRUE
  BY DEF Signal, Sig_Interupt, WakeMain, listening
<1>2. ThreadsTypeOK'
  <2>1. thread_sNum' \in Int
    BY <1>1 DEF ThreadsInv, ThreadsTypeOK
  <2> QED BY <1>1, <2>1 DEF ThreadsInv, ThreadsTypeOK
<1>3. NontermInv'
  BY <1>1 DEF NontermInv
<1>4. CountInv'
  <2>1. nonterminating_num = 1 => at[ListenerThread] \in Listening
    BY DEF ThreadsInv, NontermInv
  <2> QED BY <1>1, <2>1, CountFacts DEF CountInv, Off
<1>5. main' # "exited" /\ conns' >= conns
  BY <1>1 DEF Ended, ThreadsInv, ThreadsTypeOK
<1> QED BY <1>1, <1>2, <1>3, <1>4, <1>5, ThreadsQuietStep

(***************************************************************************)
(* The initial chain of main.                                              *)
(***************************************************************************)
\* The number of clients, or of connections to wait for.
LEMMA TestThreads ==
  ASSUME NEW t \in Tests
  PROVE  t.mThreads \in Nat /\ (t.mode # "server" => t.mThreads > 0)
<1>1. \/ t \in [mode : {"client", "dual", "tradeoff"}, timed : BOOLEAN,
                mThreads : Nat \ {0}, single : {FALSE}]
      \/ t \in [mode : {"server"}, timed : BOOLEAN, mThreads : Nat, single : BOOLEAN]
  BY IperfThreadsAssumption, Zenon
<1>2. CASE t \in [mode : {"client", "dual", "tradeoff"}, timed : BOOLEAN,
                  mThreads : Nat \ {0}, single : {FALSE}]
  BY <1>2
<1>3. CASE t \in [mode : {"server"}, timed : BOOLEAN, mThreads : Nat, single : BOOLEAN]
  BY <1>3
<1> QED BY <1>1, <1>2, <1>3

\* What client_init and the listener's main have to start.
LEMMA MainChain ==
  ASSUME NEW t \in Tests
  PROVE  /\ MainStarts(t) \in Seq(AllThreads) /\ Distinct(MainStarts(t))
         /\ Elements(MainStarts(t)) \subseteq ClientsOf(t) \cup {ListenerThread, ReporterThread}
         /\ t.mode = "tradeoff" => ListenerThread \in Elements(MainStarts(t))
<1> DEFINE n == t.mThreads
           c1 == <<"client", 1>>
           A == [i \in 1..n - 1 |-> <<"client", n + 1 - i>>]
           B == A \o (IF t.mode = "client" THEN <<>> ELSE <<ListenerThread>>)
           C == B \o <<c1>>
<1>1. n \in Nat /\ (t.mode # "server" => n > 0)
  BY TestThreads
<1>2. /\ ListenerThread \in AllThreads /\ ReporterThread \in AllThreads
      /\ ClientsOf(t) \subseteq AllThreads
      /\ ListenerThread # ReporterThread
      /\ ListenerThread \notin ClientsOf(t) /\ ReporterThread \notin ClientsOf(t)
  BY Kinds
<1>3. CASE t.mode = "server"
  <2> DEFINE s == <<ListenerThread>>
             r == s \o <<ReporterThread>>
  <2>1. MainStarts(t) = r
    BY <1>3 DEF MainStarts
  <2>2. s \in Seq(AllThreads) /\ Elements(s) = {ListenerThread} /\ Distinct(s)
    <3>1. s \in Seq(AllThreads) /\ Len(s) = 1 /\ s[1] = ListenerThread
      BY <1>2
    <3> HIDE DEF s
    <3>2. \A k \in 1..Len(s) : k = 1
      BY <3>1
    <3>3. 1 \in 1..Len(s)
      BY <3>1
    <3> QED BY <3>1, <3>2, <3>3 DEF Elements, Distinct
  <2> HIDE DEF s
  <2>3. r \in Seq(AllThreads) /\ Elements(r) = {ListenerThread, ReporterThread} /\ Distinct(r)
    <3>1. ListenerThread # ReporterThread /\ ReporterThread \notin Elements(s)
      BY <1>2, <2>2
    <3>2. AddsLast(s, ReporterThread, r)
      BY DEF AddsLast
    <3> HIDE DEF r
    <3>3. /\ r \in Seq(AllThreads) /\ Elements(r) = Elements(s) \cup {ReporterThread}
          /\ Distinct(r)
      BY <1>2, <2>2, <3>1, <3>2, AddLast
    <3> QED BY <2>2, <3>3
  <2> HIDE DEF r
  <2> QED BY <1>3, <2>1, <2>3
<1>4. CASE t.mode # "server"
  <2>0. /\ ClientsOf(t) = {<<"client", i>> : i \in 1..n} /\ 1 \in 1..n /\ c1 \in ClientsOf(t)
    <3>1. ClientsOf(t) = {<<"client", i>> : i \in 1..n} /\ 1 \in 1..n
      BY <1>1, <1>4 DEF ClientsOf
    <3> QED BY <3>1
  <2>1. MainStarts(t) = C \o <<ReporterThread>>
    BY <1>4 DEF MainStarts
  <2>2. /\ A \in Seq(AllThreads) /\ Distinct(A) /\ Elements(A) \subseteq ClientsOf(t)
        /\ c1 \notin Elements(A)
    <3>1. \A i \in 1..n - 1 : n + 1 - i \in 1..n /\ n + 1 - i # 1
      BY <1>1
    <3>2. \A i \in 1..n - 1 : /\ A[i] = <<"client", n + 1 - i>>
                              /\ A[i] \in ClientsOf(t) /\ A[i] \in AllThreads
      BY <1>2, <2>0, <3>1
    <3>3. Len(A) = n - 1 /\ A \in Seq(AllThreads)
      <4>1. n - 1 \in Nat
        BY <1>1, <1>4
      <4>2. A \in [1..n - 1 -> AllThreads]
        BY <3>2
      <4>3. A \in Seq(AllThreads)
        <5>1. Seq(AllThreads) = UNION {[1..m -> AllThreads] : m \in Nat}
          OBVIOUS
        <5> HIDE DEF A
        <5> QED BY <4>1, <4>2, <5>1
      <4> HIDE DEF A
      <4>4. Len(A) \in Nat /\ DOMAIN A = 1..Len(A) /\ DOMAIN A = 1..n - 1
        BY <4>2, <4>3
      <4> QED BY <4>1, <4>3, <4>4
    <3>4. \A i, j \in 1..n - 1 : A[i] = A[j] => i = j
      <4>1. \A i, j \in 1..n - 1 : A[i] = A[j] => n + 1 - i = n + 1 - j
        BY <3>2
      <4> QED BY <1>1, <4>1
    <3>5. \A i \in 1..n - 1 : A[i] # c1
      BY <3>1, <3>2
    <3> HIDE DEF A
    <3> QED BY <3>2, <3>3, <3>4, <3>5 DEF Elements, Distinct
  <2>3. /\ B \in Seq(AllThreads) /\ Distinct(B) /\ c1 \notin Elements(B)
        /\ Elements(B) \subseteq ClientsOf(t) \cup {ListenerThread}
        /\ t.mode = "tradeoff" => ListenerThread \in Elements(B)
    <3> HIDE DEF A
    <3>1. CASE t.mode = "client"
      <4>1. B = A
        BY <2>2, <3>1
      <4> QED BY <2>2, <3>1, <4>1
    <3>2. CASE t.mode # "client"
      <4>1. AddsLast(A, ListenerThread, B)
        BY <3>2 DEF AddsLast
      <4> HIDE DEF B
      <4>2. /\ B \in Seq(AllThreads) /\ Elements(B) = Elements(A) \cup {ListenerThread}
            /\ Distinct(A) /\ ListenerThread \notin Elements(A) => Distinct(B)
        BY <1>2, <2>2, <4>1, AddLast
      <4> QED BY <1>2, <2>0, <2>2, <4>2
    <3> QED BY <3>1, <3>2
  <2> HIDE DEF B
  <2>4. /\ C \in Seq(AllThreads) /\ Elements(C) = Elements(B) \cup {c1} /\ Distinct(C)
    <3>1. AddsLast(B, c1, C) /\ c1 \in AllThreads
      BY <1>2, <2>0 DEF AddsLast
    <3> HIDE DEF C, c1
    <3> QED BY <2>3, <3>1, AddLast
  <2> HIDE DEF C
  <2> DEFINE D == MainStarts(t)
  <2>5. AddsLast(C, ReporterThread, D)
    BY <2>1 DEF AddsLast
  <2> HIDE DEF D
  <2>6. ReporterThread \notin Elements(C)
    BY <1>2, <2>0, <2>3, <2>4
  <2>7. /\ D \in Seq(AllThreads) /\ Elements(D) = Elements(C) \cup {ReporterThread}
        /\ Distinct(D)
    BY <1>2, <2>4, <2>5, <2>6, AddLast
  <2>8. /\ D \in Seq(AllThreads) /\ Distinct(D)
        /\ Elements(D) \subseteq ClientsOf(t) \cup {ListenerThread, ReporterThread}
        /\ t.mode = "tradeoff" => ListenerThread \in Elements(D)
    BY <2>0, <2>3, <2>4, <2>7
  <2> QED BY <2>8 DEF D
<1> QED BY <1>3, <1>4

\* The initial state satisfies the invariant.
LEMMA InitThreadsInv == ThreadsInit => ThreadsInv
<1> SUFFICES ASSUME ThreadsInit PROVE ThreadsInv
  OBVIOUS
<1> DEFINE s == MainStarts(test)
<1>0. /\ test \in Tests /\ main = "start" /\ at = [x \in AllThreads |-> "none"]
      /\ starting = [p \in Starters |-> IF p = MainThread THEN s ELSE <<>>]
      /\ runNext = {} /\ numThreads = [k \in 1..MaxConns |-> 0] /\ thread_sNum = 0 /\ nonterminating_num = 0
      /\ report = [x \in Agents |-> "none"] /\ mClients = test.mThreads /\ conns = 0
      /\ sInterupted = FALSE
  BY DEF ThreadsInit
<1>1. /\ s \in Seq(AllThreads) /\ Distinct(s)
      /\ Elements(s) \subseteq Clients \cup {ListenerThread, ReporterThread}
  BY <1>0, MainChain DEF Clients
<1> HIDE DEF s
<1>2. ThreadsTypeOK
  <2>1. mClients \in Int /\ conns \in 0..MaxConns
    BY <1>0, IperfThreadsAssumption
  <2>2. starting \in [Starters -> Seq(AllThreads)]
    BY <1>0, <1>1
  <2>3. sInterupted \in BOOLEAN
    BY <1>0, Zenon
  <2>4. numThreads \in [1..MaxConns -> 0..MaxAsked]
    BY <1>0, IperfThreadsAssumption
  <2> QED BY <1>0, <2>1, <2>2, <2>3, <2>4 DEF ThreadsTypeOK, States
<1>3. \A p \in Starters : \A k \in 1..Len(starting[p]) :
        p = MainThread /\ starting[p] = s /\ k \in 1..Len(s)
  BY <1>0
<1>4. ChainInv
  <2>1. \A p \in Starters : \A k \in 1..Len(starting[p]) : at[starting[p][k]] = "none"
    BY <1>0, <1>1, <1>3
  <2> QED BY <1>1, <1>3, <2>1 DEF ChainInv, Distinct
<1>5. PeersInv
  <2>1. ASSUME NEW k \in 1..MaxConns, NEW x \in {<<"server", k>>} \cup ReversesOf(k)
        PROVE  Fresh(x)
    <3>1. x \in AllThreads /\ at[x] = "none"
      BY <1>0, <2>1, Peers
    <3>2. x \notin Clients \cup {ListenerThread, ReporterThread}
      BY <2>1 DEF ReversesOf, Clients, ClientsOf, ListenerThread, ReporterThread
    <3>3. ~Queued(x)
      BY <1>1, <1>3, <3>2 DEF Queued, Elements
    <3> QED BY <3>1, <3>3 DEF Fresh
  <2> QED BY <1>0, <2>1 DEF PeersInv, ReversesFresh
<1>6. NontermInv
  BY <1>0 DEF NontermInv
<1>7. CountInv
  <2>1. LiveOf(at) = {}
    BY <1>0 DEF LiveOf
  <2>2. Off(at, nonterminating_num) = 0
    BY <1>0, Kinds DEF Off, Listening
  <2>3. IsFiniteSet(LiveOf(at)) /\ Cardinality(LiveOf(at)) = 0
    BY <2>1, FS_EmptySet
  <2> QED BY <1>0, <2>2, <2>3 DEF CountInv
<1>8. ReportInv /\ JoinWaits
  BY <1>0 DEF ReportInv, JoinWaits
<1> QED BY <1>2, <1>4, <1>5, <1>6, <1>7, <1>8 DEF ThreadsInv

\* Every step keeps the invariant.
LEMMA StepThreadsInv == ThreadsInv /\ [ThreadsNext]_threadVars => ThreadsInv'
<1> SUFFICES ASSUME ThreadsInv, [ThreadsNext]_threadVars PROVE ThreadsInv'
  OBVIOUS
<1>1. CASE Starts
  BY <1>1, StartKeeps DEF Starts
<1>2. CASE JoinAll
  BY <1>2, JoinKeeps
<1>3. ASSUME NEW x \in Agents, AgentStep(x) \/ CloseAgent(x)
      PROVE  ThreadsInv'
  BY <1>3, AgentsKeep, BarrierKeeps, InitReportKeeps, ThreadEndKeeps DEF AgentStep
<1>4. CASE ReporterStep
  BY <1>4, ReporterKeeps
<1>5. CASE ListenerStep
  BY <1>5, ListenerKeeps, ThreadEndKeeps DEF ListenerStep
<1>6. ASSUME NEW asked \in {"nothing", "dual", "tradeoff"}, NEW n \in 0..MaxAsked,
             AcceptPeer(asked, n)
      PROVE  ThreadsInv'
  BY <1>6, AcceptKeeps
<1>7. CASE AcceptRefused \/ AcceptInterupted
  BY <1>7, ListenerKeeps
<1>8. ASSUME NEW t \in {"main", "other"}, Signal(t)
      PROVE  ThreadsInv'
  BY <1>8, SignalKeeps
<1>9. CASE UNCHANGED threadVars
  <2>1. /\ UNCHANGED <<Kept, at, starting, counts, report, main>>
    BY <1>9 DEF threadVars, Kept, listening, signalling
  <2>2. ThreadsTypeOK'
    BY <2>1 DEF ThreadsInv, ThreadsTypeOK, Kept, counts
  <2>3. ChainInv' /\ PeersInv'
    BY <2>1, ChainsKept DEF ThreadsInv, ThreadsTypeOK, Kept
  <2>4. NontermInv' /\ CountInv' /\ ReportInv' /\ JoinWaits'
    BY <2>1 DEF ThreadsInv, NontermInv, CountInv, ReportInv, JoinWaits, counts
  <2> QED BY <2>2, <2>3, <2>4 DEF ThreadsInv
<1> QED BY <1>1, <1>2, <1>3, <1>4, <1>5, <1>6, <1>7, <1>8, <1>9 DEF ThreadsNext

(***************************************************************************)
(* A tradeoff test that nothing interrupts.                                *)
(***************************************************************************)
\* A step that leaves the listener, its chain and its numbers alone.
LEMMA ServedQuiet ==
  ASSUME ThreadsInv, TradeoffInv, UNCHANGED <<test, mClients, conns, nonterminating_num>>,
         ~sInterupted' => ~sInterupted,
         at'[ListenerThread] = at[ListenerThread],
         starting'[ListenerThread] = starting[ListenerThread],
         starting'[MainThread] = starting[MainThread],
         main' # "start" => main # "start" \/ starting[MainThread] = <<>>,
         \A x \in Servers : at[x] # "none" => at'[x] # "none"
  PROVE  ServedInv'
<1> SUFFICES ASSUME test'.mode = "tradeoff", ~sInterupted'
             PROVE  ServedInv'
  BY DEF ServedInv
<1>1. test.mode = "tradeoff" /\ ~sInterupted /\ ServedInv
  BY DEF TradeoffInv
<1>2. \A k \in 1..MaxConns : <<"server", k>> \in Servers
  BY Peers
<1>3. ASSUME NEW k \in 1..MaxConns, k <= conns'
      PROVE  \/ at'[<<"server", k>>] # "none"
             \/ \E j \in 1..Len(starting'[ListenerThread]) :
                  starting'[ListenerThread][j] = <<"server", k>>
  BY <1>1, <1>2, <1>3 DEF ServedInv
<1>4. /\ at'[ListenerThread] \in Listening => nonterminating_num' = 1
      /\ mClients' = test'.mThreads - conns'
      /\ at'[ListenerThread] \in {"leave", "end", "gone"} => mClients' <= 0
  BY <1>1 DEF ServedInv
<1>5. /\ at'[ListenerThread] # "started" => starting'[ListenerThread] = <<>>
      /\ main' # "start" => starting'[MainThread] = <<>>
      /\ at'[ListenerThread] = "none" =>
           \E k \in 1..Len(starting'[MainThread]) : starting'[MainThread][k] = ListenerThread
  BY <1>1 DEF ServedInv
<1> QED BY <1>3, <1>4, <1>5 DEF ServedInv

\* thread_start takes the listener from main's chain, or a server from the listener's.
LEMMA StartServed ==
  ASSUME TradeoffInv, NEW p \in Starters, StartThread(p)
  PROVE  ServedInv'
<1> SUFFICES ASSUME test'.mode = "tradeoff", ~sInterupted'
             PROVE  ServedInv'
  BY DEF ServedInv
<1> DEFINE h == Head(starting[p])
<1>1. ThreadsInv /\ ServedInv
  BY DEF TradeoffInv
<1>2. /\ ~Ended /\ starting[p] # <<>>
      /\ UNCHANGED <<test, main, nonterminating_num, mClients, conns, sInterupted>>
  BY DEF StartThread, listening, signalling
<1>3. test.mode = "tradeoff" /\ ~sInterupted
  BY <1>2
<1>4. /\ h \in AllThreads /\ at[h] = "none" /\ at' = [at EXCEPT ![h] = "created"]
      /\ \A q \in Starters : starting'[q] = IF q = p THEN Tail(starting[p]) ELSE starting[q]
  BY <1>1, StartChain DEF ThreadsInv
<1>5. starting \in [Starters -> Seq(AllThreads)] /\ at \in [AllThreads -> States]
  BY <1>1 DEF ThreadsInv, ThreadsTypeOK
<1> HIDE DEF h
<1>6. \A y \in AllThreads : at'[y] = IF y = h THEN "created" ELSE at[y]
  BY <1>4, <1>5
\* What a chain loses is the thread that is started.
<1>7. ASSUME NEW q \in Starters, NEW y \in AllThreads, y # h,
             NEW k \in 1..Len(starting[q]), starting[q][k] = y
      PROVE  \E j \in 1..Len(starting'[q]) : starting'[q][j] = y
  <2>1. CASE q # p
    BY <1>4, <1>7, <2>1
  <2>2. CASE q = p
    <3> DEFINE s == starting[p]
    <3>1. s \in Seq(AllThreads) /\ s # <<>> /\ h = Head(s) /\ starting'[q] = Tail(s)
      BY <1>2, <1>4, <1>5, <2>2 DEF h
    <3>2. k \in 1..Len(s) /\ s[k] = y
      BY <1>7, <2>2
    <3> HIDE DEF s
    <3>3. k # 1
      BY <1>7, <3>1, <3>2
    <3>4. k - 1 \in 1..Len(Tail(s)) /\ Tail(s)[k - 1] = s[k]
      BY <3>1, <3>2, <3>3
    <3> QED BY <3>1, <3>2, <3>4
  <2> QED BY <2>1, <2>2
<1>8. \A q \in Starters : starting[q] = <<>> => starting'[q] = <<>>
  BY <1>2, <1>4
<1>9. MainThread \in Starters /\ ListenerThread \in Starters /\ ListenerThread \in AllThreads
  BY Kinds
<1>10. /\ at'[ListenerThread] \in Listening => nonterminating_num' = 1
       /\ mClients' = test'.mThreads - conns'
       /\ at'[ListenerThread] \in {"leave", "end", "gone"} => mClients' <= 0
  BY <1>1, <1>2, <1>3, <1>6, <1>9 DEF ServedInv, Listening
<1>11. at'[ListenerThread] # "started" => starting'[ListenerThread] = <<>>
  BY <1>1, <1>3, <1>4, <1>6, <1>8, <1>9 DEF ServedInv
<1>12. main' # "start" => starting'[MainThread] = <<>>
  BY <1>1, <1>2, <1>3, <1>8, <1>9 DEF ServedInv
<1>13. at'[ListenerThread] = "none" =>
         \E k \in 1..Len(starting'[MainThread]) : starting'[MainThread][k] = ListenerThread
  <2> SUFFICES ASSUME at'[ListenerThread] = "none"
               PROVE  \E k \in 1..Len(starting'[MainThread]) :
                        starting'[MainThread][k] = ListenerThread
    OBVIOUS
  <2>1. ListenerThread # h /\ at[ListenerThread] = "none"
    BY <1>6, <1>9
  <2>2. PICK k \in 1..Len(starting[MainThread]) : starting[MainThread][k] = ListenerThread
    BY <1>1, <1>3, <2>1 DEF ServedInv
  <2> QED BY <1>7, <1>9, <2>1, <2>2
<1>14. ASSUME NEW k \in 1..MaxConns, k <= conns'
       PROVE  \/ at'[<<"server", k>>] # "none"
              \/ \E j \in 1..Len(starting'[ListenerThread]) :
                   starting'[ListenerThread][j] = <<"server", k>>
  <2> DEFINE y == <<"server", k>>
  <2>1. y \in AllThreads
    BY Peers
  <2>2. at[y] # "none" \/ \E j \in 1..Len(starting[ListenerThread]) :
                            starting[ListenerThread][j] = y
    BY <1>1, <1>2, <1>3, <1>14 DEF ServedInv
  <2> HIDE DEF y
  <2>3. CASE at[y] # "none" \/ y = h
    <3>1. at'[y] # "none"
      BY <1>6, <2>1, <2>3
    <3> QED BY <3>1 DEF y
  <2>4. CASE at[y] = "none" /\ y # h
    <3>1. \E j \in 1..Len(starting'[ListenerThread]) : starting'[ListenerThread][j] = y
      BY <1>7, <1>9, <2>1, <2>2, <2>4
    <3> QED BY <3>1 DEF y
  <2> QED BY <2>3, <2>4
<1> QED BY <1>10, <1>11, <1>12, <1>13, <1>14 DEF ServedInv

\* The listener registers, refuses other hosts, counts its connections and leaves
\* after the last one.
LEMMA ListenerServed ==
  ASSUME TradeoffInv, RegisterNonterm \/ ListenerLoop \/ UnregisterNonterm \/ AcceptRefused
  PROVE  ServedInv'
<1> SUFFICES ASSUME test'.mode = "tradeoff", ~sInterupted'
             PROVE  ServedInv'
  BY DEF ServedInv
<1>1. ThreadsInv /\ ServedInv
  BY DEF TradeoffInv
<1>2. UNCHANGED <<test, main, starting, mClients, conns, sInterupted>>
  BY DEF RegisterNonterm, ListenerLoop, UnregisterNonterm, AcceptRefused, listening, signalling
<1>3. test.mode = "tradeoff" /\ ~sInterupted
  BY <1>2
<1>4. /\ at \in [AllThreads -> States] /\ ListenerThread \in AllThreads
      /\ \A k \in 1..MaxConns : <<"server", k>> \in AllThreads /\ <<"server", k>> # ListenerThread
  BY <1>1, Kinds, Peers DEF ThreadsInv, ThreadsTypeOK
<1>5. \E b \in {"listen", "started", "leave", "end"} :
        /\ at' = [at EXCEPT ![ListenerThread] = b]
        /\ b # "end" => nonterminating_num' = 1
        /\ b \in {"leave", "end"} => mClients <= 0
        /\ starting[ListenerThread] = <<>>
  <2>1. CASE RegisterNonterm
    <3>1. at[ListenerThread] = "created" /\ nonterminating_num' = nonterminating_num + 1
          /\ at' = [at EXCEPT ![ListenerThread] = "listen"]
      BY <2>1 DEF RegisterNonterm, Goes
    <3>2. nonterminating_num = 0
      BY <1>1, <3>1 DEF ThreadsInv, ThreadsTypeOK, NontermInv, Listening
    <3> QED BY <1>1, <1>3, <3>1, <3>2 DEF ServedInv
  <2>2. CASE ListenerLoop
    <3>1. /\ at[ListenerThread] = "started" /\ starting[ListenerThread] = <<>>
          /\ nonterminating_num' = nonterminating_num
      BY <2>2 DEF ListenerLoop, counts
    <3>2. nonterminating_num = 1 /\ mClients \in Int
      BY <1>1, <1>3, <3>1 DEF ServedInv, Listening, ThreadsInv, ThreadsTypeOK
    <3>3. CASE test.mThreads = 0 \/ mClients > 0
      BY <1>3, <2>2, <3>1, <3>2, <3>3 DEF ListenerLoop, Goes
    <3>4. CASE ~(test.mThreads = 0 \/ mClients > 0)
      BY <1>3, <2>2, <3>1, <3>2, <3>4 DEF ListenerLoop, Goes
    <3> QED BY <3>3, <3>4
  <2>3. CASE UnregisterNonterm
    <3>1. at[ListenerThread] = "leave" /\ at' = [at EXCEPT ![ListenerThread] = "end"]
      BY <2>3 DEF UnregisterNonterm, Goes
    <3> QED BY <1>1, <1>3, <3>1 DEF ServedInv
  <2>4. CASE AcceptRefused
    <3>1. /\ at[ListenerThread] = "listen" /\ at' = [at EXCEPT ![ListenerThread] = "started"]
          /\ nonterminating_num' = nonterminating_num
      BY <2>4 DEF AcceptRefused, Goes, counts
    <3> QED BY <1>1, <1>3, <3>1 DEF ServedInv, Listening
  <2> QED BY <2>1, <2>2, <2>3, <2>4
<1>6. PICK b \in {"listen", "started", "leave", "end"} :
        /\ at' = [at EXCEPT ![ListenerThread] = b]
        /\ b # "end" => nonterminating_num' = 1
        /\ b \in {"leave", "end"} => mClients <= 0
        /\ starting[ListenerThread] = <<>>
  BY <1>5
<1>7. at'[ListenerThread] = b /\ \A y \in AllThreads : y # ListenerThread => at'[y] = at[y]
  BY <1>4, <1>6
<1>8. /\ at'[ListenerThread] \in Listening => nonterminating_num' = 1
      /\ mClients' = test'.mThreads - conns'
      /\ at'[ListenerThread] \in {"leave", "end", "gone"} => mClients' <= 0
  BY <1>1, <1>2, <1>3, <1>6, <1>7 DEF ServedInv, Listening
<1>9. /\ at'[ListenerThread] # "started" => starting'[ListenerThread] = <<>>
      /\ main' # "start" => starting'[MainThread] = <<>>
      /\ at'[ListenerThread] # "none"
  BY <1>1, <1>2, <1>3, <1>6, <1>7 DEF ServedInv
<1>10. ASSUME NEW k \in 1..MaxConns, k <= conns'
       PROVE  \/ at'[<<"server", k>>] # "none"
              \/ \E j \in 1..Len(starting'[ListenerThread]) :
                   starting'[ListenerThread][j] = <<"server", k>>
  <2>1. at'[<<"server", k>>] = at[<<"server", k>>]
    BY <1>4, <1>7
  <2> QED BY <1>1, <1>2, <1>3, <1>10, <2>1 DEF ServedInv
<1> QED BY <1>8, <1>9, <1>10 DEF ServedInv

\* The listener accepts a connection of a tradeoff test and has a server to start.
LEMMA AcceptServed ==
  ASSUME TradeoffInv, NEW asked \in {"nothing", "dual", "tradeoff"}, NEW n \in 0..MaxAsked,
         AcceptPeer(asked, n)
  PROVE  ServedInv'
<1> SUFFICES ASSUME test'.mode = "tradeoff", ~sInterupted'
             PROVE  ServedInv'
  BY DEF ServedInv
<1> DEFINE sv == <<"server", conns + 1>>
<1>1. ThreadsInv /\ ServedInv
  BY DEF TradeoffInv
<1>2. /\ UNCHANGED <<test, sInterupted>> /\ conns' = conns + 1 /\ conns < MaxConns
      /\ at[ListenerThread] = "listen" /\ at' = [at EXCEPT ![ListenerThread] = "started"]
      /\ asked # "nothing" => test.mode = "server"
  BY DEF AcceptPeer, Goes, PeerConnects, signalling
<1>3. test.mode = "tradeoff" /\ ~sInterupted /\ asked = "nothing"
  BY <1>2
<1>4. ~test.single
  <2>1. \/ test \in [mode : {"client", "dual", "tradeoff"}, timed : BOOLEAN,
                     mThreads : Nat \ {0}, single : {FALSE}]
        \/ test \in [mode : {"server"}, timed : BOOLEAN, mThreads : Nat, single : BOOLEAN]
    BY <1>1, IperfThreadsAssumption, Zenon DEF ThreadsInv, ThreadsTypeOK
  <2> QED BY <1>3, <2>1
<1>5. /\ UNCHANGED <<counts, main>> /\ mClients' = mClients - 1
      /\ starting' = [starting EXCEPT ![ListenerThread] = <<>> \o <<sv>>]
  BY <1>2, <1>3, <1>4 DEF AcceptPeer
<1>6. /\ at \in [AllThreads -> States] /\ starting \in [Starters -> Seq(AllThreads)]
      /\ ListenerThread \in AllThreads /\ ListenerThread \in Starters
      /\ MainThread \in Starters /\ MainThread # ListenerThread
      /\ conns \in Nat /\ MaxConns \in Nat /\ mClients \in Int
  BY <1>1, Kinds, IperfThreadsAssumption DEF ThreadsInv, ThreadsTypeOK
<1> DEFINE s == <<>> \o <<sv>>
<1>7. Len(s) = 1 /\ s[1] = sv
  OBVIOUS
<1> HIDE DEF s
<1>8. starting'[ListenerThread] = s /\ starting'[MainThread] = starting[MainThread]
  BY <1>5, <1>6 DEF s
<1>9. at'[ListenerThread] = "started" /\ \A y \in AllThreads : y # ListenerThread => at'[y] = at[y]
  BY <1>2, <1>6
<1>10. /\ nonterminating_num' = 1 /\ main' = main
       /\ mClients' = test'.mThreads - conns'
  <2>1. nonterminating_num = 1 /\ mClients = test.mThreads - conns
    BY <1>1, <1>2, <1>3 DEF ServedInv, Listening
  <2>2. test.mThreads \in Int
    BY <1>1, IperfThreadsAssumption, TestThreads DEF ThreadsInv, ThreadsTypeOK
  <2>3. nonterminating_num' = nonterminating_num /\ main' = main /\ test' = test
    BY <1>2, <1>5 DEF counts
  <2>4. mClients' = test.mThreads - conns'
    <3>1. conns' = conns + 1 /\ mClients' = mClients - 1
      BY <1>2, <1>5, Zenon
    <3>2. conns \in Int /\ mClients \in Int
      BY <1>6
    <3> QED BY <2>1, <2>2, <3>1, <3>2
  <2> QED BY <2>1, <2>3, <2>4
<1>11. main' # "start" => starting'[MainThread] = <<>>
  BY <1>1, <1>3, <1>8, <1>10 DEF ServedInv
<1>12. ASSUME NEW k \in 1..MaxConns, k <= conns'
       PROVE  \/ at'[<<"server", k>>] # "none"
              \/ \E j \in 1..Len(starting'[ListenerThread]) :
                   starting'[ListenerThread][j] = <<"server", k>>
  <2>1. CASE k = conns + 1
    <3>1. 1 \in 1..Len(s) /\ s[1] = <<"server", k>>
      BY <1>7, <2>1
    <3> QED BY <1>8, <3>1
  <2>2. CASE k # conns + 1
    <3>1. k <= conns
      BY <1>2, <1>6, <1>12, <2>2
    <3>2. starting[ListenerThread] = <<>>
      BY <1>1, <1>2, <1>3 DEF ServedInv
    <3>3. at[<<"server", k>>] # "none"
      BY <1>1, <1>3, <3>1, <3>2 DEF ServedInv
    <3>4. at'[<<"server", k>>] = at[<<"server", k>>]
      BY <1>9, Kinds, Peers
    <3> QED BY <3>3, <3>4
  <2> QED BY <2>1, <2>2
<1> QED BY <1>9, <1>10, <1>11, <1>12 DEF ServedInv

\* main returns from thread_joinall: the listener has ended, after as many
\* connections as there are clients, and so has a server for each.
LEMMA JoinServed ==
  ASSUME TradeoffInv, JoinAll
  PROVE  TradeoffServed'
<1> SUFFICES ASSUME main' = "exited", test'.mode = "tradeoff", ~test'.timed, signals' = 0,
                    NEW i \in 1..test'.mThreads
             PROVE  at'[<<"server", i>>] = "gone"
  BY DEF TradeoffServed
<1>1. /\ UNCHANGED <<test, at, starting, conns, mClients, signals>>
      /\ main = "join" /\ ~(thread_sNum > 0)
  BY DEF JoinAll, listening, signalling
<1>2. ThreadsInv /\ ServedInv /\ test.mode = "tradeoff" /\ ~sInterupted
  BY <1>1 DEF TradeoffInv, QuietInv
<1>3. /\ \A x \in Agents : at[x] \in {"none", "gone"}
      /\ at[ListenerThread] \notin {"none", "gone"} =>
           at[ListenerThread] \in Listening /\ nonterminating_num = 0
  BY <1>1, <1>2, CountZero DEF ThreadsInv
<1>4. at[ListenerThread] = "gone"
  <2>1. at[ListenerThread] \in {"none", "gone"}
    BY <1>2, <1>3 DEF ServedInv
  <2>2. starting[MainThread] = <<>>
    BY <1>1, <1>2 DEF ServedInv
  <2>3. at[ListenerThread] # "none"
    BY <1>2, <2>2 DEF ServedInv
  <2> QED BY <2>1, <2>3
<1>5. mClients = test.mThreads - conns /\ mClients <= 0 /\ starting[ListenerThread] = <<>>
  BY <1>2, <1>4 DEF ServedInv
<1>6. test.mThreads \in Nat /\ test.mThreads <= MaxConns /\ MaxConns \in Nat /\ conns \in Nat
  BY <1>2, IperfThreadsAssumption, TestThreads DEF ThreadsInv, ThreadsTypeOK
<1>7. i \in 1..MaxConns /\ i <= conns
  BY <1>1, <1>5, <1>6
<1>8. at[<<"server", i>>] # "none"
  BY <1>2, <1>5, <1>7 DEF ServedInv
<1> QED BY <1>1, <1>3, <1>7, <1>8, Peers

\* The initial state, with the listener in main's chain.
LEMMA InitTradeoffInv == ThreadsInit => TradeoffInv
<1> SUFFICES ASSUME ThreadsInit PROVE TradeoffInv
  OBVIOUS
<1> DEFINE s == MainStarts(test)
<1>1. /\ test \in Tests /\ main = "start" /\ at = [x \in AllThreads |-> "none"]
      /\ starting = [p \in Starters |-> IF p = MainThread THEN s ELSE <<>>]
      /\ mClients = test.mThreads /\ conns = 0
  BY DEF ThreadsInit
<1>2. test.mode = "tradeoff" => ListenerThread \in Elements(s)
  BY <1>1, MainChain
<1> HIDE DEF s
<1>3. /\ at[ListenerThread] = "none" /\ starting[ListenerThread] = <<>>
      /\ starting[MainThread] = s
  BY <1>1, Kinds
<1>4. ServedInv
  <2>1. test.mThreads \in Nat
    BY <1>1, TestThreads
  <2>2. mClients = test.mThreads - conns
    BY <1>1, <2>1
  <2> QED BY <1>1, <1>2, <1>3, <2>2 DEF ServedInv, Listening, Elements
<1>5. TradeoffServed
  BY <1>1 DEF TradeoffServed
<1>6. QuietInv
  BY DEF ThreadsInit, QuietInv
<1> QED BY <1>4, <1>5, <1>6, InitThreadsInv DEF TradeoffInv

\* Only a timed client sets the timer, and only a signal interrupts.
LEMMA StepQuiet == QuietInv /\ [ThreadsNext]_threadVars => QuietInv'
<1> SUFFICES ASSUME QuietInv, [ThreadsNext]_threadVars PROVE QuietInv'
  OBVIOUS
<1>1. CASE UNCHANGED <<test, armed, sInterupted, signals>>
  BY <1>1 DEF QuietInv
<1>2. ASSUME NEW x \in Agents, InitReport(x)
      PROVE  QuietInv'
  <2>1. /\ UNCHANGED <<test, sInterupted, signals>>
        /\ armed' = (armed \/ (IsClient(x) /\ test.timed))
    BY <1>2 DEF InitReport
  <2> QED BY <2>1, Zenon DEF QuietInv
<1>3. ASSUME NEW t \in {"main", "other"}, Signal(t)
      PROVE  QuietInv'
  <2>1. CASE signals' = signals + 1
    BY <2>1 DEF QuietInv
  <2>2. CASE armed /\ signals' = signals
    BY <1>3, <2>2 DEF Signal, QuietInv
  <2> QED BY <1>3, <2>1, <2>2 DEF Signal
<1>4. \/ UNCHANGED <<test, armed, sInterupted, signals>>
      \/ \E x \in Agents : InitReport(x)
      \/ \E t \in {"main", "other"} : Signal(t)
  BY DEF ThreadsNext, Starts, StartThread, JoinAll, AgentStep, Connect, BarrierClient, EndAgent,
         ThreadEnd, CloseAgent, ReporterStep, ReporterTest, ReporterWoken, ReporterPass,
         ListenerStep, RegisterNonterm, ListenerLoop, UnregisterNonterm, AcceptPeer,
         AcceptRefused, AcceptInterupted, signalling, threadVars
<1> QED BY <1>1, <1>2, <1>3, <1>4

\* Every step keeps it.
LEMMA StepTradeoffInv == TradeoffInv /\ [ThreadsNext]_threadVars => TradeoffInv'
<1> SUFFICES ASSUME TradeoffInv, [ThreadsNext]_threadVars PROVE TradeoffInv'
  OBVIOUS
<1>0. ThreadsInv /\ ServedInv /\ ThreadsInv' /\ QuietInv'
  BY StepThreadsInv, StepQuiet DEF TradeoffInv
<1>1. /\ at \in [AllThreads -> States] /\ starting \in [Starters -> Seq(AllThreads)]
      /\ runNext \subseteq Servers
      /\ ListenerThread \in AllThreads /\ ReporterThread \in AllThreads
      /\ ListenerThread # ReporterThread /\ ListenerThread \notin Agents
      /\ MainThread \notin Servers /\ ListenerThread \notin Servers
      /\ MainThread \in Starters /\ ListenerThread \in Starters
      /\ Agents \subseteq AllThreads /\ Servers \subseteq AllThreads
      /\ ReporterThread \notin Servers
  BY <1>0, Kinds DEF ThreadsInv, ThreadsTypeOK
\* Only main's return reaches the states TradeoffServed is about.
<1>2. ASSUME main' # "exited" PROVE TradeoffServed'
  BY <1>2 DEF TradeoffServed
<1>3. CASE Starts
  <2>1. PICK p \in Starters : StartThread(p)
    BY <1>3 DEF Starts
  <2>2. main' # "exited"
    BY <2>1 DEF StartThread, Ended
  <2> QED BY <1>0, <1>2, <2>1, <2>2, StartServed DEF TradeoffInv
<1>4. CASE JoinAll
  <2>1. ServedInv'
    <3>1. /\ UNCHANGED <<test, mClients, conns, nonterminating_num, sInterupted, at, starting>>
          /\ main # "start" \/ starting[MainThread] = <<>>
      BY <1>4 DEF JoinAll, listening, signalling, counts
    <3> QED BY <1>0, <3>1, ServedQuiet
  <2> QED BY <1>0, <1>4, <2>1, JoinServed DEF TradeoffInv
<1>5. ASSUME NEW x \in Agents, Connect(x) \/ BarrierClient(x) \/ InitReport(x) \/ CloseAgent(x)
                                 \/ EndAgent(x)
      PROVE  TradeoffInv'
  <2>1. /\ UNCHANGED <<test, mClients, conns, nonterminating_num, sInterupted, starting>>
        /\ ~Ended /\ main' \in {main, IF main = "wait" THEN "join" ELSE main}
    BY <1>5 DEF Connect, BarrierClient, InitReport, CloseAgent, EndAgent, listening, signalling,
                counts, WakeMain
  <2>2. at'[ListenerThread] = at[ListenerThread] /\ \A y \in Servers : at[y] # "none" => at'[y] # "none"
    <3>1. CASE BarrierClient(x)
      <4>1. Group(x) \subseteq Agents
        BY <1>0, GroupAgents DEF ThreadsInv
      <4> QED BY <1>1, <3>1, <4>1 DEF BarrierClient, Goes
    <3>2. CASE ~BarrierClient(x)
      BY <1>1, <1>5, <3>2 DEF Connect, InitReport, CloseAgent, EndAgent, Goes
    <3> QED BY <3>1, <3>2
  <2>3. main' # "exited" /\ (main' # "start" => main # "start")
    BY <2>1 DEF Ended
  <2>4. ServedInv'
    BY <1>0, <2>1, <2>2, <2>3, ServedQuiet
  <2> QED BY <1>0, <1>2, <2>3, <2>4 DEF TradeoffInv
<1>6. ASSUME NEW x \in Agents, ThreadEnd(x)
      PROVE  TradeoffInv'
  <2>1. /\ UNCHANGED <<test, mClients, conns, nonterminating_num, sInterupted>>
        /\ ~Ended /\ main' \in {main, IF main = "wait" THEN "join" ELSE main}
        /\ at' = [at EXCEPT ![x] = "gone"]
        /\ starting' = IF x \in runNext
                       THEN [starting EXCEPT ![x] = ReverseStarts(x[2], numThreads[x[2]])]
                       ELSE starting
    BY <1>6 DEF ThreadEnd, listening, signalling, WakeMain, Goes
  <2>2. at'[ListenerThread] = at[ListenerThread] /\ \A y \in Servers : at[y] # "none" => at'[y] # "none"
    BY <1>1, <2>1
  <2>3. main' # "exited" /\ (main' # "start" => main # "start")
    BY <2>1 DEF Ended
  <2>4. /\ starting'[ListenerThread] = starting[ListenerThread]
        /\ starting'[MainThread] = starting[MainThread]
    BY <1>1, <2>1
  <2>5. ServedInv'
    BY <1>0, <2>1, <2>2, <2>3, <2>4, ServedQuiet
  <2> QED BY <1>0, <1>2, <2>3, <2>5 DEF TradeoffInv
<1>7. CASE ReporterStep
  <2>1. /\ UNCHANGED <<test, mClients, conns, nonterminating_num, sInterupted, starting>>
        /\ ~Ended /\ main' \in {main, IF main = "wait" THEN "join" ELSE main}
    BY <1>7 DEF ReporterStep, ReporterTest, ReporterWoken, ReporterPass, listening, signalling,
                counts, WakeMain
  <2>2. at'[ListenerThread] = at[ListenerThread] /\ \A y \in Servers : at'[y] = at[y]
    BY <1>1, <1>7 DEF ReporterStep, ReporterTest, ReporterWoken, ReporterPass, Goes
  <2>3. main' # "exited" /\ (main' # "start" => main # "start")
    BY <2>1 DEF Ended
  <2>4. ServedInv'
    BY <1>0, <2>1, <2>2, <2>3, ServedQuiet
  <2> QED BY <1>0, <1>2, <2>3, <2>4 DEF TradeoffInv
<1>8. CASE RegisterNonterm \/ ListenerLoop \/ UnregisterNonterm \/ AcceptRefused
  <2>1. main' # "exited"
    BY <1>8 DEF RegisterNonterm, ListenerLoop, UnregisterNonterm, AcceptRefused, Ended
  <2> QED BY <1>0, <1>2, <1>8, <2>1, ListenerServed DEF TradeoffInv
<1>9. CASE ThreadEnd(ListenerThread)
  <2>1. /\ UNCHANGED <<test, mClients, conns, nonterminating_num, sInterupted>>
        /\ ~Ended /\ main' \in {main, IF main = "wait" THEN "join" ELSE main}
        /\ at[ListenerThread] = "end" /\ at' = [at EXCEPT ![ListenerThread] = "gone"]
        /\ ListenerThread \notin runNext => starting' = starting
    BY <1>9 DEF ThreadEnd, listening, signalling, WakeMain, Goes
  <2>2. starting' = starting /\ at'[ListenerThread] = "gone" /\ \A y \in Servers : at'[y] = at[y]
    BY <1>1, <2>1
  <2>3. main' # "exited" /\ (main' # "start" => main # "start")
    BY <2>1 DEF Ended
  <2>4. ServedInv'
    <3> SUFFICES ASSUME test'.mode = "tradeoff", ~sInterupted'
                 PROVE  ServedInv'
      BY DEF ServedInv
    <3>1. ServedInv /\ test.mode = "tradeoff" /\ ~sInterupted
      BY <1>0, <2>1
    <3>2. ASSUME NEW k \in 1..MaxConns, k <= conns'
          PROVE  \/ at'[<<"server", k>>] # "none"
                 \/ \E j \in 1..Len(starting'[ListenerThread]) :
                      starting'[ListenerThread][j] = <<"server", k>>
      <4>1. at'[<<"server", k>>] = at[<<"server", k>>]
        BY <2>2, Peers
      <4> QED BY <2>1, <2>2, <3>1, <3>2, <4>1 DEF ServedInv
    <3>3. /\ at'[ListenerThread] \notin Listening /\ at'[ListenerThread] # "none"
          /\ mClients' = test'.mThreads - conns' /\ mClients' <= 0
          /\ starting'[ListenerThread] = <<>>
          /\ main' # "start" => starting'[MainThread] = <<>>
      BY <2>1, <2>2, <2>3, <3>1 DEF ServedInv, Listening
    <3> QED BY <3>2, <3>3 DEF ServedInv
  <2> QED BY <1>0, <1>2, <2>3, <2>4 DEF TradeoffInv
<1>10. ASSUME NEW asked \in {"nothing", "dual", "tradeoff"}, NEW n \in 0..MaxAsked,
              AcceptPeer(asked, n)
       PROVE  TradeoffInv'
  <2>1. main' # "exited"
    BY <1>10 DEF AcceptPeer, WakeMain, Ended
  <2> QED BY <1>0, <1>2, <1>10, <2>1, AcceptServed DEF TradeoffInv
<1>11. CASE AcceptInterupted
  <2>1. main' # "exited" /\ sInterupted'
    BY <1>11 DEF AcceptInterupted, Ended, signalling
  <2>2. ServedInv'
    BY <2>1 DEF ServedInv
  <2> QED BY <1>0, <1>2, <2>1, <2>2 DEF TradeoffInv
<1>12. ASSUME NEW t \in {"main", "other"}, Signal(t)
       PROVE  TradeoffInv'
  <2>1. main' # "exited" /\ sInterupted'
    BY <1>12 DEF Signal, Sig_Interupt, WakeMain, Ended
  <2>2. ServedInv'
    BY <2>1 DEF ServedInv
  <2> QED BY <1>0, <1>2, <2>1, <2>2 DEF TradeoffInv
<1>13. CASE UNCHANGED threadVars
  <2>1. /\ UNCHANGED <<test, main, at, starting, nonterminating_num, mClients, conns, sInterupted,
                       failed, signals>>
    BY <1>13 DEF threadVars, counts, listening, signalling
  <2>2. TradeoffServed'
    BY <2>1 DEF TradeoffInv, TradeoffServed
  <2>3. ServedInv'
    BY <1>0, <2>1, ServedQuiet
  <2> QED BY <1>0, <2>2, <2>3 DEF TradeoffInv
<1> QED BY <1>3, <1>4, <1>5, <1>6, <1>7, <1>8, <1>9, <1>10, <1>11, <1>12, <1>13
        DEF ThreadsNext, AgentStep, ListenerStep

(***************************************************************************)
(* Theorems.                                                               *)
(***************************************************************************)
\* thread_sNum is exact in every order of thread_start, the end of
\* thread_run_wrapper, thread_setignore, thread_register_nonterm,
\* thread_release_nonterm and signals, for any command line.
THEOREM ThreadsCountExact == ThreadsSpec => []CountExact
<1>1. ThreadsInit => ThreadsInv
  BY InitThreadsInv
<1>2. ThreadsInv /\ [ThreadsNext]_threadVars => ThreadsInv'
  BY StepThreadsInv
<1>3. ThreadsInv => CountExact
  BY CountIsExact DEF ThreadsInv
<1> QED BY <1>1, <1>2, <1>3, PTL DEF ThreadsSpec

\* thread_joinall returns only when no client and no server is at work and the
\* reporter has printed what they had to report.
THEOREM ThreadsJoinWaits == ThreadsSpec => []JoinWaits
<1>1. ThreadsInit => ThreadsInv
  BY InitThreadsInv
<1>2. ThreadsInv /\ [ThreadsNext]_threadVars => ThreadsInv'
  BY StepThreadsInv
<1>3. ThreadsInv => JoinWaits
  BY DEF ThreadsInv
<1> QED BY <1>1, <1>2, <1>3, PTL DEF ThreadsSpec

\* A tradeoff test whose clients end by their amount of data or over UDP, and not by
\* the alarm, and that the user does not interrupt: main waits for the listener, which
\* waits for as many connections as there are clients, and for the server of each, so
\* iperf does not return before the reverse direction was tested.  It says nothing of
\* a timed TCP test, whose alarm releases the listener.
THEOREM ThreadsTradeoffServed == ThreadsSpec => []TradeoffServed
<1>1. ThreadsInit => TradeoffInv
  BY InitTradeoffInv
<1>2. TradeoffInv /\ [ThreadsNext]_threadVars => TradeoffInv'
  BY StepTradeoffInv
<1>3. TradeoffInv => TradeoffServed
  BY DEF TradeoffInv
<1> QED BY <1>1, <1>2, <1>3, PTL DEF ThreadsSpec

(***************************************************************************)
(* The three levels in one behaviour (MCIperf): whatever level runs, the   *)
(* others rest in a state that their own invariants allow.                 *)
(***************************************************************************)
LevelsInv == RingInv /\ StreamTypeOK /\ LossInv /\ HandshakeInv /\ ThreadsInv /\ TradeoffInv

\* A step of the instance is a step of each level, or leaves its variables alone.
LEMMA IperfSteps ==
  [IperfNext]_iperfVars =>
    /\ [RingNext]_ringVars
    /\ [StreamNext]_streamVars
    /\ [ThreadsNext]_threadVars
BY DEF IperfNext, iperfVars

LEMMA InitLevels == IperfInit => LevelsInv
<1> SUFFICES ASSUME IperfInit PROVE LevelsInv
  OBVIOUS
<1>1. RingInit /\ StreamInit /\ ThreadsInit
  BY DEF IperfInit
<1> QED BY <1>1, InitHolds, InitStreamType, InitLoss, InitHandshake, InitThreadsInv,
           InitTradeoffInv DEF LevelsInv

LEMMA StepLevels ==
  ASSUME StoresInOrder, LevelsInv, [IperfNext]_iperfVars
  PROVE  LevelsInv'
<1>1. [RingNext]_ringVars /\ [StreamNext]_streamVars /\ [ThreadsNext]_threadVars
  BY IperfSteps
<1>2. RingInv'
  BY <1>1, NextKeeps DEF LevelsInv
<1>3. StreamTypeOK' /\ LossInv' /\ HandshakeInv'
  BY <1>1, StepStreamType, StepLoss, StepHandshake DEF LevelsInv
<1>4. ThreadsInv' /\ TradeoffInv'
  BY <1>1, StepThreadsInv, StepTradeoffInv DEF LevelsInv
<1> QED BY <1>2, <1>3, <1>4 DEF LevelsInv

\* All three levels of iperf keep their types and their promises when one of them runs
\* and the others rest: the ring is a queue that loses no packet, the report of a UDP
\* test is right and main counts its threads, for any size, network and command line.
THEOREM IperfCorrect ==
  StoresInOrder =>
    (IperfSpec => /\ [](/\ IperfTypeOK /\ NoOverwrite /\ FreedEnded
                        /\ LossCounted /\ RelayedFinal
                        /\ CountExact /\ JoinWaits /\ TradeoffServed)
                  /\ QueueOrder)
<1> SUFFICES ASSUME StoresInOrder
             PROVE  IperfSpec => /\ [](/\ IperfTypeOK /\ NoOverwrite /\ FreedEnded
                                       /\ LossCounted /\ RelayedFinal
                                       /\ CountExact /\ JoinWaits /\ TradeoffServed)
                                 /\ QueueOrder
  OBVIOUS
<1>1. LevelsInv /\ [IperfNext]_iperfVars => LevelsInv'
  BY StepLevels
<1>2. LevelsInv => IperfTypeOK /\ NoOverwrite /\ FreedEnded
  BY RingFacts DEF LevelsInv, IperfTypeOK
<1>3. LevelsInv => LossCounted /\ RelayedFinal
  BY StreamFacts DEF LevelsInv
<1>4. LevelsInv => CountExact /\ JoinWaits /\ TradeoffServed
  BY CountIsExact DEF LevelsInv, ThreadsInv, TradeoffInv
<1>5. IperfInit => ImplementsQueue!QueueInit
  BY InitImplements DEF IperfInit
<1>6. LevelsInv /\ [IperfNext]_iperfVars =>
        [ImplementsQueue!QueueNext]_ImplementsQueue!queueVars
  BY IperfSteps, StepImplements DEF LevelsInv
<1> QED BY <1>1, <1>2, <1>3, <1>4, <1>5, <1>6, InitLevels, PTL
        DEF IperfSpec, QueueOrder, ImplementsQueue!QueueSpec
=============================================================================
