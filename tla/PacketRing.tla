----------------------------- MODULE PacketRing -----------------------------
(***************************************************************************)
(* The ring of NUM_REPORT_STRUCTS slots through which an iperf transfer    *)
(* agent (a client or server thread) hands its packets to the reporter     *)
(* thread: ReportPacket, CloseReport and EndReport on the agent's side,    *)
(* reporter_process_report and the loop of reporter_spawn on the other.    *)
(* No lock guards the two indexes.  agentindex is the slot to write next,  *)
(* N when the last slot is written; reporterindex is the slot handled      *)
(* last, or being handled.  Each becomes -1 when its owner is done.        *)
(*                                                                         *)
(* A packet is the number of the ReportPacket call that reports it,        *)
(* negated for the closing one (packetID -1).                              *)
(***************************************************************************)
EXTENDS Integers

CONSTANTS
  N,              \* NUM_REPORT_STRUCTS
  StoresInOrder,  \* whether the agent's two stores reach the reporter in order
  MaxPackets      \* bound: packets before the closing one

ASSUME PacketRingAssumption ==
  N \in Nat /\ N >= 3 /\ StoresInOrder \in BOOLEAN /\ MaxPackets \in Nat

VARIABLES
  agentindex, reporterindex, data,
  agent, index, packet,   \* the agent: where it is, its local index and argument
  stores,                 \* the stores of this call the reporter cannot see yet
  reporter,               \* where the reporter is
  written, handled        \* history: packets reported; number handled last

shared == <<agentindex, reporterindex, data>>
agentVars == <<agent, index, packet, stores>>
ringVars == <<shared, agentVars, reporter, written, handled>>

freed == reporter = "freed"

Slots == 0..N - 1
Number(p) == IF p < 0 THEN -p ELSE p

\* InitReport
RingInit ==
  /\ agentindex = 0 /\ reporterindex = N - 1
  /\ data = [s \in Slots |-> 0]
  /\ agent = "idle" /\ index = 0 /\ packet = 0 /\ stores = {}
  /\ reporter = "sleep"
  /\ written = 0 /\ handled = 0

(***************************************************************************)
(* The agent.                                                              *)
(***************************************************************************)
AgentGoto(s) == agent' = s /\ UNCHANGED <<reporter, written, handled>>

\* ReportPacket and CloseReport are entered; reporterindex is read.
ReportPacket ==
  /\ agent = "idle"
  /\ packet' \in (IF written < MaxPackets THEN {written + 1} ELSE {}) \cup {-(written + 1)}
  /\ index' = reporterindex
  /\ AgentGoto(IF agentindex = N THEN "first" ELSE "lapped")
  /\ UNCHANGED <<shared, stores>>

\* Mutant: the ring is begun again whatever the reporter does.
WrapUnchecked ==
  /\ agent = "first"
  /\ agentindex' = 0
  /\ AgentGoto("lapped")
  /\ UNCHANGED <<reporterindex, data, index, packet, stores>>

\* Mutant: the index is not reset.
WrapNoReset ==
  /\ agent = "first" /\ index # 0
  /\ AgentGoto("lapped")
  /\ UNCHANGED <<shared, index, packet, stores>>

\* The last slot is written: the reporter must have left the first one.
Wrap ==
  /\ agent = "first" /\ index # 0
  /\ agentindex' = 0
  /\ AgentGoto("lapped")
  /\ UNCHANGED <<reporterindex, data, index, packet, stores>>

Pass ==
  /\ agent = "lapped" /\ index - 1 # agentindex
  /\ stores' = {"data", "agentindex"}
  /\ AgentGoto("store")
  /\ UNCHANGED <<shared, index, packet>>

\* Condition_Signal and Condition_Wait.  The mutex is not held, so a signal
\* between the test and the wait is lost.
WaitDone ==
  /\ \/ agent = "first" /\ index = 0 /\ AgentGoto("waitFirst")
     \/ agent = "lapped" /\ index - 1 = agentindex /\ AgentGoto("waitLapped")
  /\ UNCHANGED <<shared, index, packet, stores>>

\* Woken, the agent reads reporterindex again.
Reread ==
  /\ \/ agent = "wokenFirst" /\ AgentGoto("first")
     \/ agent = "wokenLapped" /\ AgentGoto("lapped")
  /\ index' = reporterindex
  /\ UNCHANGED <<shared, packet, stores>>

\* memcpy and agentindex++: two plain stores without a barrier.
Store(s) ==
  /\ agent = "store" /\ s \in stores
  /\ (s = "agentindex" /\ StoresInOrder) => "data" \notin stores
  /\ IF s = "data"
     THEN data' = [data EXCEPT ![agentindex - (IF "agentindex" \in stores THEN 0 ELSE 1)] = packet]
          /\ UNCHANGED <<agentindex, written>>
     ELSE agentindex' = agentindex + 1 /\ written' = written + 1 /\ UNCHANGED data
  /\ stores' = stores \ {s}
  /\ agent' = IF stores' # {} THEN "store" ELSE IF packet < 0 THEN "closed" ELSE "idle"
  /\ UNCHANGED <<reporterindex, index, packet, reporter, handled>>

\* Mutant: the agent does not wait for the reporter.
EndReportAtOnce ==
  /\ agent = "closed"
  /\ agentindex' = -1
  /\ AgentGoto("ended")
  /\ UNCHANGED <<reporterindex, data, index, packet, stores>>

\* EndReport spins until the reporter has finished.
EndReport ==
  /\ agent = "closed" /\ reporterindex = -1
  /\ agentindex' = -1
  /\ AgentGoto("ended")
  /\ UNCHANGED <<reporterindex, data, index, packet, stores>>

Agent == ReportPacket \/ Wrap \/ Pass \/ WaitDone \/ Reread
           \/ (\E s \in {"data", "agentindex"} : Store(s)) \/ EndReport

(***************************************************************************)
(* The reporter.                                                           *)
(***************************************************************************)
ReporterGoto(s) == reporter' = s /\ UNCHANGED <<agentindex, data, index, packet, stores, written>>

\* reporter_process_report: reporterindex >= 0 is tested.
ProcessReport ==
  /\ reporter = "sleep"
  /\ ReporterGoto(IF reporterindex >= 0 THEN "test" ELSE "done")
  /\ UNCHANGED <<reporterindex, agent, handled>>

\* Mutant: the slot the agent will write next is taken for one it has written.
TestAgentOff ==
  /\ reporter = "test"
  /\ ReporterGoto(IF reporterindex # agentindex THEN "step" ELSE "done")
  /\ UNCHANGED <<reporterindex, agent, handled>>

\* The reporter must not pass the agent.
TestAgent ==
  /\ reporter = "test"
  /\ ReporterGoto(IF reporterindex # agentindex - 1 THEN "step" ELSE "done")
  /\ UNCHANGED <<reporterindex, agent, handled>>

\* reporterindex moves on; at the end of the ring agentindex is read again.
StepIndex ==
  /\ reporter = "step"
  /\ \/ reporterindex = N - 1 /\ agentindex = 0 /\ ReporterGoto("done") /\ UNCHANGED reporterindex
     \/ reporterindex = N - 1 /\ agentindex # 0 /\ ReporterGoto("handle") /\ reporterindex' = 0
     \/ reporterindex # N - 1 /\ ReporterGoto("handle") /\ reporterindex' = reporterindex + 1
  /\ UNCHANGED <<agent, handled>>

\* Mutant: the closing packet does not end the report.
HandleNoEnd ==
  /\ reporter = "handle"
  /\ handled' = Number(data[reporterindex])
  /\ ReporterGoto("test") /\ UNCHANGED reporterindex
  /\ UNCHANGED agent

\* reporter_handle_packet reads the slot.
Handle ==
  /\ reporter = "handle"
  /\ handled' = Number(data[reporterindex])
  /\ IF data[reporterindex] < 0
     THEN reporterindex' = -1 /\ ReporterGoto("done")
     ELSE ReporterGoto("test") /\ UNCHANGED reporterindex
  /\ UNCHANGED agent

\* Is the agent done with the report?
TestEnded ==
  /\ reporter = "done"
  /\ ReporterGoto(IF agentindex = -1 THEN "free" ELSE "signal")
  /\ UNCHANGED <<reporterindex, agent, handled>>

\* The report is unlinked and freed if so.  Either way ReportDoneCond is signalled
\* and the reporter sleeps.
SignalDone ==
  /\ reporter \in {"free", "signal"}
  /\ agent' = CASE agent = "waitFirst" -> "wokenFirst"
                [] agent = "waitLapped" -> "wokenLapped"
                [] OTHER -> agent
  /\ ReporterGoto(IF reporter = "free" THEN "freed" ELSE "sleep")
  /\ UNCHANGED <<reporterindex, handled>>

Reporter == ProcessReport \/ TestAgent \/ StepIndex \/ Handle \/ TestEnded \/ SignalDone

RingNext == Agent \/ Reporter

\* Both threads are scheduled.
RingSpec == RingInit /\ [][RingNext]_ringVars /\ WF_ringVars(Agent) /\ WF_ringVars(Reporter)

(***************************************************************************)
(* Properties.                                                             *)
(***************************************************************************)
\* The slots the reporter has still to read.
Pending ==
  (IF reporter = "handle" THEN {reporterindex} ELSE {}) \cup
  IF reporterindex < agentindex THEN {s \in Slots : reporterindex < s /\ s < agentindex}
  ELSE {s \in Slots : reporterindex < s \/ s < agentindex}

\* Type invariant.
RingTypeOK ==
  /\ agentindex \in -1..N /\ reporterindex \in -1..N - 1
  /\ data \in [Slots -> Int]
  /\ agent \in {"idle", "first", "lapped", "waitFirst", "waitLapped",
                "wokenFirst", "wokenLapped", "store", "closed", "ended"}
  /\ index \in -1..N - 1 /\ packet \in Int
  /\ stores \subseteq {"data", "agentindex"}
  /\ reporter \in {"sleep", "test", "step", "handle", "done", "free", "signal", "freed"}
  /\ written \in Nat /\ handled \in Nat

\* However old the reporterindex an agent has read is, it never writes a slot the
\* reporter has still to read or is reading.
NoOverwrite ==
  agent = "store" /\ reporterindex # -1 =>
    agentindex - (IF "agentindex" \in stores THEN 0 ELSE 1) \notin
      Pending \ (IF "agentindex" \in stores THEN {} ELSE {agentindex - 1})

\* The report is freed only after its agent has ended it, with every packet handled.
FreedEnded == freed => agent = "ended" /\ reporterindex = -1 /\ handled = written

\* The ring implements a queue: packets are handled in order, each once.
ImplementsQueue == INSTANCE PacketQueue
QueueOrder == ImplementsQueue!QueueSpec

\* A report that is closed is handled to its end and freed, though agents wait
\* without the mutex and signals are lost.
ReportEnds == (packet < 0) ~> freed
=============================================================================
