------------------------------- MODULE MCIperf -------------------------------
\* Instances of the iperf modules.  PacketRing, UdpStream and IperfThreads model
\* the same program at three levels and share no variable: a behaviour runs one
\* of them and the others rest where they begin.
EXTENDS PacketRing, UdpStream, IperfThreads

VARIABLE level     \* the level that runs

iperfVars == <<level, ringVars, streamVars, threadVars>>

IperfInit ==
  /\ level \in {"ring", "stream", "threads"}
  /\ RingInit /\ StreamInit /\ ThreadsInit
  /\ level # "threads" => test.mode = "server" /\ test.mThreads = 0

IperfNext ==
  \/ level = "ring" /\ RingNext /\ UNCHANGED <<level, streamVars, threadVars>>
  \/ level = "stream" /\ StreamNext /\ UNCHANGED <<level, ringVars, threadVars>>
  \/ level = "threads" /\ ThreadsNext /\ UNCHANGED <<level, ringVars, streamVars>>

\* The fairness of RingSpec, StreamSpec and ThreadsSpec.
IperfFairness ==
  /\ WF_ringVars(level = "ring" /\ Agent)
  /\ WF_ringVars(level = "ring" /\ Reporter)
  /\ WF_streamVars(level = "stream" /\ ReportSent)
  /\ WF_streamVars(level = "stream" /\ ClientNext)
  /\ WF_streamVars(level = "stream" /\ (WriteAck \/ AwaitAgain \/ ServerEnd))
  /\ \A p \in Starters : WF_threadVars(level = "threads" /\ StartThread(p))
  /\ WF_threadVars(level = "threads" /\ JoinAll)
  /\ \A x \in Agents : WF_threadVars(level = "threads" /\ AgentStep(x))
  /\ \A x \in Agents : WF_threadVars(level = "threads" /\ x[1] = "client" /\ CloseAgent(x))
  /\ WF_threadVars(level = "threads" /\ ReporterStep)
  /\ WF_threadVars(level = "threads" /\ ListenerStep)
  /\ WF_threadVars(level = "threads" /\ Alarm)

IperfSpec == IperfInit /\ [][IperfNext]_iperfVars /\ IperfFairness

\* The type invariants of ring and stream.
IperfTypeOK == RingTypeOK /\ StreamTypeOK

\* Command lines: -c -P 2 timed and by amount, -d, -r, and -s with and without
\* -P 1, -1 and a timed reverse test.
Line(mode, timed, mThreads, single) ==
  [mode |-> mode, timed |-> timed, mThreads |-> mThreads, single |-> single]
CommandLines ==
  {Line("client", t, 2, FALSE) : t \in BOOLEAN}
    \cup {Line(m, t, 1, FALSE) : m \in {"dual", "tradeoff"}, t \in BOOLEAN}
    \cup {Line("server", TRUE, 0, FALSE), Line("server", TRUE, 1, FALSE),
          Line("server", TRUE, 1, TRUE), Line("server", FALSE, 1, FALSE)}
=============================================================================
