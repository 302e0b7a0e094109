---------------------------- MODULE IperfThreads ----------------------------
(***************************************************************************)
(* The threads of an iperf process and the count main waits on: thread_sNum *)
(* and nonterminating_num of compat/Thread.c, the chains runNow and runNext *)
(* that main, client_init and the Listener build, the reporter thread that *)
(* takes itself out of the count while it has no report, the Listener's    *)
(* loop, the barrier of parallel clients and the signal handler, which the *)
(* timer of a timed TCP test calls too.                                    *)
(*                                                                         *)
(* Counters and lists are guarded by mutexes, so a critical section is one *)
(* step.  What goes through a report is the subject of PacketRing; here a  *)
(* report is "open", "closed", "handled", "ended" or "freed".  Settings    *)
(* reports and failures of pthread_create are left out.                    *)
(***************************************************************************)
EXTENDS Integers, Sequences, FiniteSets

CONSTANTS
  Tests,        \* the command lines: mode, -P, -1, and whether tests are timed TCP
  MaxConns,     \* bound: connections the Listener accepts
  MaxAsked,     \* bound: reverse clients a peer asks for
  MaxSignals    \* bound: signals from the user

ASSUME IperfThreadsAssumption ==
  /\ Tests \subseteq [mode : {"client", "dual", "tradeoff"}, timed : BOOLEAN,
                      mThreads : Nat \ {0}, single : {FALSE}]
                \cup [mode : {"server"}, timed : BOOLEAN, mThreads : Nat, single : BOOLEAN]
  /\ Tests # {} /\ MaxSignals \in Nat
  /\ MaxAsked \in Nat
  /\ MaxConns \in Nat /\ \A t \in Tests : t.mode = "tradeoff" => t.mThreads <= MaxConns

ClientsOf(t) == IF t.mode = "server" THEN {} ELSE {<<"client", i>> : i \in 1..t.mThreads}
Servers == {<<"server", k>> : k \in 1..MaxConns}
\* The clients that a server's peer asks for.
Reverses == {<<"reverse", k, i>> : k \in 1..MaxConns, i \in 1..MaxAsked}
Agents == (UNION {ClientsOf(t) : t \in Tests}) \cup Servers \cup Reverses
ReporterThread == <<"reporter", 0>>
ListenerThread == <<"listener", 0>>
AllThreads == Agents \cup {ReporterThread, ListenerThread}
MainThread == <<"main", 0>>
Starters == Servers \cup {MainThread, ListenerThread}

VARIABLES
  test,         \* the command line
  main,         \* "start", "join", "wait", "exited", or "killed" by sig_exit
  at,           \* where a thread is
  starting,     \* the threads a thread has still to start
  runNext,      \* the servers with clients to run after them
  numThreads,   \* how many reverse clients the peer of a connection asked for
  thread_sNum, nonterminating_num,
  report,       \* the report of an agent
  mClients, conns,
  armed,        \* ITIMER_REAL
  sInterupted, sThread, signals,
  failed        \* history: a connect failed

counts == <<thread_sNum, nonterminating_num>>
listening == <<mClients, conns, runNext, numThreads>>
signalling == <<armed, sInterupted, sThread, signals>>
threadVars == <<test, main, at, starting, counts, report, listening, signalling, failed>>

Clients == ClientsOf(test)
Ended == main \in {"exited", "killed"}
Goes(x, s) == at' = [at EXCEPT ![x] = s]
WakeMain == main' = IF main = "wait" THEN "join" ELSE main

\* The reverse clients of connection k, in the order of thread_start, and the
\* clients that share the barrier of client x.
ReverseStarts(k, n) == [i \in 1..n |-> <<"reverse", k, n + 1 - i>>]
Group(x) == IF x[1] = "client" THEN Clients
            ELSE {<<"reverse", x[2], i>> : i \in 1..numThreads[x[2]]}

\* client_init: the first client's runNow is the listener of a bidirectional
\* test, if any, and then the other clients; thread_start goes from the end.
MainStarts(t) ==
  LET others == [i \in 1..t.mThreads - 1 |-> <<"client", t.mThreads + 1 - i>>]
  IN (IF t.mode = "server" THEN <<ListenerThread>>
      ELSE others \o (IF t.mode = "client" THEN <<>> ELSE <<ListenerThread>>) \o <<<<"client", 1>>>>)
     \o <<ReporterThread>>

ThreadsInit ==
  /\ test \in Tests
  /\ main = "start"
  /\ at = [x \in AllThreads |-> "none"]
  /\ starting = [p \in Starters |-> IF p = MainThread THEN MainStarts(test) ELSE <<>>]
  /\ runNext = {} /\ numThreads = [k \in 1..MaxConns |-> 0]
  /\ thread_sNum = 0 /\ nonterminating_num = 0
  /\ report = [x \in Agents |-> "none"]
  /\ mClients = test.mThreads /\ conns = 0
  /\ armed = FALSE /\ sInterupted = FALSE /\ sThread = "none" /\ signals = 0
  /\ failed = FALSE

\* thread_start
StartThread(p) ==
  /\ ~Ended /\ starting[p] # <<>>
  /\ Goes(Head(starting[p]), "created")
  /\ thread_sNum' = thread_sNum + 1
  /\ starting' = [starting EXCEPT ![p] = Tail(@)]
  /\ UNCHANGED <<test, main, nonterminating_num, report, listening, signalling, failed>>

\* Mutant: joinall stops one thread too early.
JoinAllEarly ==
  /\ \/ main = "start" /\ starting[MainThread] = <<>> /\ main' = "join"
     \/ main = "join" /\ main' = IF thread_sNum > 1 THEN "wait" ELSE "exited"
  /\ UNCHANGED <<test, at, starting, counts, report, listening, signalling, failed>>

\* thread_joinall, then main returns
JoinAll ==
  /\ \/ main = "start" /\ starting[MainThread] = <<>> /\ main' = "join"
     \/ main = "join" /\ main' = IF thread_sNum > 0 THEN "wait" ELSE "exited"
  /\ UNCHANGED <<test, at, starting, counts, report, listening, signalling, failed>>

(***************************************************************************)
(* Clients and servers.                                                    *)
(***************************************************************************)
IsClient(x) == x[1] \in {"client", "reverse"}

\* Client::Connect; thread_stop when it fails.
Connect(x) ==
  /\ ~Ended /\ IsClient(x) /\ at[x] = "created"
  /\ \/ /\ Goes(x, IF Group(x) # {x} THEN "init" ELSE "ready")
        /\ UNCHANGED <<main, thread_sNum, failed>>
     \/ /\ Goes(x, "gone")
        /\ thread_sNum' = thread_sNum - 1
        /\ WakeMain
        /\ failed' = TRUE
  /\ UNCHANGED <<test, starting, nonterminating_num, report, listening, signalling>>

BarrierClient(x) ==
  /\ ~Ended /\ at[x] = "init"
  /\ IF \A y \in Group(x) \ {x} : at[y] = "barrier"
     THEN at' = [y \in AllThreads |-> IF y \in Group(x) THEN "ready" ELSE at[y]]
     ELSE Goes(x, "barrier")
  /\ UNCHANGED <<test, main, starting, counts, report, listening, signalling, failed>>

\* InitReport signals the reporter; a timed TCP client then sets the timer.
InitReport(x) ==
  /\ ~Ended /\ at[x] = (IF IsClient(x) THEN "ready" ELSE "created")
  /\ report' = [report EXCEPT ![x] = "open"]
  /\ at' = [at EXCEPT ![x] = "run",
                      ![ReporterThread] = IF @ = "ignored" THEN "woken" ELSE @]
  /\ armed' = (armed \/ (IsClient(x) /\ test.timed))
  /\ UNCHANGED <<test, main, starting, counts, listening, sInterupted, sThread, signals, failed>>

\* The test ends: a timed TCP client only looks at sInterupted.
CloseAgent(x) ==
  /\ ~Ended /\ at[x] = "run"
  /\ IsClient(x) /\ test.timed => sInterupted
  /\ report' = [report EXCEPT ![x] = "closed"]
  /\ Goes(x, "closed")
  /\ UNCHANGED <<test, main, starting, counts, listening, signalling, failed>>

EndAgent(x) ==
  /\ ~Ended /\ at[x] = "closed" /\ report[x] = "handled"
  /\ report' = [report EXCEPT ![x] = "ended"]
  /\ Goes(x, "end")
  /\ UNCHANGED <<test, main, starting, counts, listening, signalling, failed>>

\* Mutant: the count goes down and nobody is told.
ThreadEndNoSignal(x) ==
  /\ ~Ended /\ at[x] = "end"
  /\ Goes(x, "gone")
  /\ thread_sNum' = thread_sNum - 1
  /\ starting' = IF x \in runNext
                  THEN [starting EXCEPT ![x] = ReverseStarts(x[2], numThreads[x[2]])] ELSE starting
  /\ UNCHANGED <<test, main, nonterminating_num, report, listening, signalling, failed>>

\* The end of thread_run_wrapper: the count goes down before runNext is started.
ThreadEnd(x) ==
  /\ ~Ended /\ at[x] = "end"
  /\ Goes(x, "gone")
  /\ thread_sNum' = thread_sNum - 1
  /\ WakeMain
  /\ starting' = IF x \in runNext
                  THEN [starting EXCEPT ![x] = ReverseStarts(x[2], numThreads[x[2]])] ELSE starting
  /\ UNCHANGED <<test, nonterminating_num, report, listening, signalling, failed>>

(***************************************************************************)
(* The reporter, reporter_spawn.                                           *)
(***************************************************************************)
ReportRoot == {x \in Agents : report[x] \in {"open", "closed", "handled", "ended"}}

\* Without a report: thread_setignore and Condition_Wait under one lock.
ReporterTest ==
  /\ ~Ended /\ at[ReporterThread] \in {"created", "test"}
  /\ IF ReportRoot = {}
     THEN Goes(ReporterThread, "ignored") /\ thread_sNum' = thread_sNum - 1 /\ WakeMain
     ELSE Goes(ReporterThread, "pass") /\ UNCHANGED <<thread_sNum, main>>
  /\ UNCHANGED <<test, starting, nonterminating_num, report, listening, signalling, failed>>

\* thread_unsetignore
ReporterWoken ==
  /\ ~Ended /\ at[ReporterThread] = "woken"
  /\ Goes(ReporterThread, "pass")
  /\ thread_sNum' = thread_sNum + 1
  /\ WakeMain
  /\ UNCHANGED <<test, starting, nonterminating_num, report, listening, signalling, failed>>

\* reporter_process_report on every report of the list
ReporterPass ==
  /\ ~Ended /\ at[ReporterThread] = "pass"
  /\ report' = [x \in Agents |-> CASE report[x] = "closed" -> "handled"
                                   [] report[x] = "ended" -> "freed"
                                   [] OTHER -> report[x]]
  /\ Goes(ReporterThread, "test")
  /\ UNCHANGED <<test, main, starting, counts, listening, signalling, failed>>

(***************************************************************************)
(* The Listener.                                                           *)
(***************************************************************************)
\* Mutant: a thread that does not terminate is not waited for.
RegisterReleased ==
  /\ ~Ended /\ at[ListenerThread] = "created"
  /\ Goes(ListenerThread, "listen")
  /\ thread_sNum' = thread_sNum - 1
  /\ WakeMain
  /\ UNCHANGED <<test, starting, nonterminating_num, report, listening, signalling, failed>>

RegisterNonterm ==
  /\ ~Ended /\ at[ListenerThread] = "created"
  /\ Goes(ListenerThread, "listen")
  /\ nonterminating_num' = nonterminating_num + 1
  /\ UNCHANGED <<test, main, starting, thread_sNum, report, listening, signalling, failed>>

\* Entries of the list clients.  Server::Run deletes its own after CloseReport.
Entries == {k \in 1..conns : at[<<"server", k>>] \in {"none", "created", "run"}}

\* The peer of a tradeoff test connects when our clients have closed.
PeerConnects ==
  /\ test.mode = "tradeoff" => \A x \in Clients : at[x] \in {"end", "gone"}
  /\ conns < MaxConns

\* Accept and the start of a server, with the n clients the peer asked for.
AcceptPeer(asked, n) ==
  /\ ~Ended /\ at[ListenerThread] = "listen" /\ PeerConnects
  /\ ~sInterupted
  /\ asked # "nothing" => test.mode = "server"
  /\ (n > 0) <=> (asked # "nothing")
  /\ conns' = conns + 1
  /\ numThreads' = [numThreads EXCEPT ![conns'] = n]
  /\ LET s == <<"server", conns'>>
         release == test.single /\ Entries = {} /\ mClients = 1
     IN /\ starting' = [starting EXCEPT ![ListenerThread] =
                          (IF asked = "dual" THEN ReverseStarts(conns', n) ELSE <<>>) \o <<s>>]
        /\ runNext' = IF asked = "tradeoff" THEN runNext \cup {s} ELSE runNext
        /\ IF release
           THEN thread_sNum' = thread_sNum - nonterminating_num /\ nonterminating_num' = 0 /\ WakeMain
           ELSE UNCHANGED <<counts, main>>
        /\ mClients' = IF ~test.single \/ (Entries = {} /\ ~release) THEN mClients - 1 ELSE mClients
  /\ Goes(ListenerThread, "started")
  /\ UNCHANGED <<test, report, signalling, failed>>

\* Another host connects to a Listener that serves one: the listener of a client
\* its server, and one with -1 the host that is being served.
AcceptRefused ==
  /\ ~Ended /\ at[ListenerThread] = "listen"
  /\ ~sInterupted
  /\ test.mode # "server" \/ (test.single /\ Entries # {})
  /\ Goes(ListenerThread, "started")
  /\ UNCHANGED <<test, main, starting, counts, report, listening, signalling, failed>>

\* An interrupted Listener closes the connection it gets.
AcceptInterupted ==
  /\ ~Ended /\ at[ListenerThread] = "listen" /\ PeerConnects
  /\ sInterupted
  /\ conns' = conns + 1
  /\ Goes(ListenerThread, "leave")
  /\ UNCHANGED <<test, main, starting, counts, report, mClients, runNext, numThreads, signalling,
                 failed>>

\* The condition of the loop
ListenerLoop ==
  /\ ~Ended /\ at[ListenerThread] = "started" /\ starting[ListenerThread] = <<>>
  /\ Goes(ListenerThread, IF ~sInterupted /\ (test.mThreads = 0 \/ mClients > 0) THEN "listen" ELSE "leave")
  /\ UNCHANGED <<test, main, starting, counts, report, listening, signalling, failed>>

\* thread_unregister_nonterm
UnregisterNonterm ==
  /\ ~Ended /\ at[ListenerThread] = "leave"
  /\ Goes(ListenerThread, "end")
  /\ IF nonterminating_num = 0
     THEN thread_sNum' = thread_sNum + 1 /\ UNCHANGED nonterminating_num
     ELSE nonterminating_num' = nonterminating_num - 1 /\ UNCHANGED thread_sNum
  /\ UNCHANGED <<test, main, starting, report, listening, signalling, failed>>

(***************************************************************************)
(* Signals.                                                                *)
(***************************************************************************)
\* Mutant: the released threads can be released again.
SigInteruptAgain(t) ==
  /\ IF sThread = t THEN main' = "killed" ELSE WakeMain
  /\ sThread' = IF sThread = "none" THEN t ELSE sThread
  /\ sInterupted' = TRUE
  /\ thread_sNum' = thread_sNum - nonterminating_num
  /\ UNCHANGED nonterminating_num

\* Sig_Interupt on thread t; sig_exit when t handled the first signal.
Sig_Interupt(t) ==
  /\ IF sThread = t THEN main' = "killed" ELSE WakeMain
  /\ sThread' = IF sThread = "none" THEN t ELSE sThread
  /\ sInterupted' = TRUE
  /\ thread_sNum' = thread_sNum - nonterminating_num
  /\ nonterminating_num' = 0

\* The user's signal, or SIGALRM; one of two threads handles it.
Signal(t) ==
  /\ ~Ended
  /\ \/ signals < MaxSignals /\ signals' = signals + 1 /\ UNCHANGED armed
     \/ armed /\ armed' = FALSE /\ UNCHANGED signals
  /\ Sig_Interupt(t)
  /\ UNCHANGED <<test, at, starting, report, listening, failed>>

Alarm == armed /\ \E t \in {"main", "other"} : Signal(t)

Starts == \E p \in Starters : StartThread(p)
AgentStep(x) == Connect(x) \/ BarrierClient(x) \/ InitReport(x) \/ EndAgent(x) \/ ThreadEnd(x)
ReporterStep == ReporterTest \/ ReporterWoken \/ ReporterPass
ListenerStep == RegisterNonterm \/ ListenerLoop \/ UnregisterNonterm \/ ThreadEnd(ListenerThread)

ThreadsNext ==
  \/ Starts \/ JoinAll
  \/ \E x \in Agents : AgentStep(x) \/ CloseAgent(x)
  \/ ReporterStep \/ ListenerStep
  \/ \E asked \in {"nothing", "dual", "tradeoff"}, n \in 0..MaxAsked : AcceptPeer(asked, n)
  \/ AcceptRefused \/ AcceptInterupted
  \/ \E t \in {"main", "other"} : Signal(t)

\* Threads run, the timer expires, and a client's test ends.  Nothing makes a
\* peer connect or close.
ThreadsFairness ==
  /\ \A p \in Starters : WF_threadVars(StartThread(p))
  /\ WF_threadVars(JoinAll)
  /\ \A x \in Agents : WF_threadVars(AgentStep(x))
  /\ \A x \in Agents : WF_threadVars(x[1] = "client" /\ CloseAgent(x))
  /\ WF_threadVars(ReporterStep) /\ WF_threadVars(ListenerStep)
  /\ WF_threadVars(Alarm)

ThreadsSpec == ThreadsInit /\ [][ThreadsNext]_threadVars /\ ThreadsFairness

(***************************************************************************)
(* Properties.                                                             *)
(***************************************************************************)
\* The listener runs and main no longer waits for it.
Released == at[ListenerThread] \in {"listen", "started", "leave"} /\ nonterminating_num = 0

\* The count is exact, whatever order starts, ends, releases and the reporter's
\* comings and goings happen in: every thread that has been started and has not
\* ended, less a released listener and a reporter without reports.
CountExact ==
  thread_sNum = Cardinality({x \in AllThreads : at[x] \notin {"none", "gone"}})
                - (IF Released THEN 1 ELSE 0)
                - (IF at[ReporterThread] \in {"ignored", "woken"} THEN 1 ELSE 0)

\* main never returns while a client or server is at work or its last report is
\* not printed.
JoinWaits ==
  main = "exited" =>
    \A x \in Agents : at[x] \in {"none", "gone"} /\ report[x] \in {"none", "ended", "freed"}

\* A tradeoff test that ends by its amount of data, or runs over UDP, and that no
\* signal disturbs, is over only when the reverse direction was tested.  (A timed TCP
\* test, the default, is no such test: its clients end by the alarm, which releases
\* the listener like the user's signal, and main may return before the peer connects.)
TradeoffServed ==
  main = "exited" /\ test.mode = "tradeoff" /\ ~test.timed /\ signals = 0 /\ ~failed =>
    \A i \in 1..test.mThreads : at[<<"server", i>>] = "gone"

\* No signal to main is lost: once every thread it waits for is gone, it returns.
\* And a client whose connects succeed ends: parallel clients pass their barrier, and
\* the reporter handles their reports.
Over == \A x \in Agents \cup {ListenerThread} :
          \/ at[x] \in {"none", "gone"}
          \/ x = ListenerThread /\ Released
MainReturns ==
  /\ (main \in {"join", "wait"} /\ Over) ~> (Ended \/ ~Over)
  /\ test.mode = "client" => <>(Ended \/ failed)
=============================================================================
