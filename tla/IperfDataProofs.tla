-------------------------- MODULE IperfDataProofs --------------------------
(***************************************************************************)
(* Proofs about what iperf counts: the ring between an agent and the       *)
(* reporter, and the datagrams of a UDP test.  The two modules share no    *)
(* variable.                                                               *)
(*                                                                         *)
(* The ring, for every size and every number of packets: when the agent's  *)
(* stores stay in order, the ring of Reporter.c never overwrites a slot    *)
(* that is still needed and implements the queue of PacketQueue.           *)
(*                                                                         *)
(* The UDP test, for any number of datagrams, reads, repetitions and       *)
(* servers, and any width of the id field.                                 *)
(***************************************************************************)
EXTENDS PacketRing, UdpStream, FiniteSetTheorems, TLAPS

(***************************************************************************)
(* The ring: the inductive invariant.                                      *)
(***************************************************************************)
\* The number of the packet in slot reporterindex.
Current == IF reporter = "handle" THEN handled + 1 ELSE handled

\* Slot s holds packet n; the closing one is the last that was written.
Holds(s, n) == data[s] = IF agent \in {"closed", "ended"} /\ n = written THEN -n ELSE n

\* The agent is inside ReportPacket.
InCall == agent \in {"first", "lapped", "waitFirst", "waitLapped",
                     "wokenFirst", "wokenLapped", "store"}

\* Where the agent is, against its index and its argument.
AgentOK ==
  /\ stores = IF agent = "store" THEN stores ELSE {}
  /\ agent = "store" => stores = {"data", "agentindex"} \/ stores = {"agentindex"}
  /\ agentindex = -1 <=> agent = "ended"
  /\ agent \in {"first", "waitFirst", "wokenFirst"} => agentindex = N
  /\ agent \in {"lapped", "waitLapped", "wokenLapped", "store"} => agentindex < N
  /\ InCall => packet \in {written + 1, -(written + 1)}
  /\ agent \in {"closed", "ended"} => written > 0

\* Once the reporter is done the agent has closed and everything is handled.
ReporterOK ==
  /\ reporterindex = -1 => /\ agent \in {"closed", "ended"}
                           /\ handled = written
                           /\ reporter \notin {"test", "step", "handle"}
  /\ agent = "ended" => reporterindex = -1
  /\ reporter \in {"free", "freed"} => agent = "ended"
  /\ reporter = "step" => reporterindex # agentindex - 1

\* The unread packets lie behind reporterindex, without a gap, up to agentindex.
Straight ==
  /\ written = Current + (agentindex - 1 - reporterindex)
  /\ \A s \in Slots : reporterindex < s /\ s < agentindex => Holds(s, Current + (s - reporterindex))

\* The same when the agent has begun the ring again and the reporter has not.
Wrapped ==
  /\ agentindex < reporterindex
  /\ written = Current + (N - 1 - reporterindex) + agentindex
  /\ \A s \in Slots : /\ reporterindex < s => Holds(s, Current + (s - reporterindex))
                      /\ s < agentindex => Holds(s, Current + (N - reporterindex) + s)

RingOK ==
  reporterindex # -1 =>
    /\ reporterindex < agentindex => Straight
    /\ reporterindex >= agentindex => Wrapped
    /\ reporter = "handle" => Holds(reporterindex, Current)

\* The index the agent has read may be old: the reporter has moved on from it
\* towards agentindex.
StaleOK ==
  /\ agent \in {"first", "lapped"} =>
       /\ index # -1 /\ index # agentindex
       /\ index < agentindex => index <= reporterindex /\ reporterindex < agentindex
       /\ index > agentindex => index <= reporterindex \/ reporterindex < agentindex
  /\ agent = "store" =>
       /\ reporterindex < agentindex \/ agentindex + 1 < reporterindex
       /\ "data" \notin stores => data[agentindex] = packet

RingInv == RingTypeOK /\ AgentOK /\ ReporterOK /\ RingOK /\ StaleOK

USE PacketRingAssumption

\* A step that moves the agent only, and neither closes nor ends, keeps the ring.
LEMMA RingKept ==
  ASSUME RingOK, UNCHANGED <<shared, reporter, written, handled>>,
         agent \in {"closed", "ended"} <=> agent' \in {"closed", "ended"}
  PROVE  RingOK'
BY DEF RingOK, Straight, Wrapped, Current, Holds, shared

(***************************************************************************)
(* Every step preserves the invariant: one lemma per action.               *)
(***************************************************************************)
LEMMA ReportPacketKeeps == ASSUME RingInv, ReportPacket PROVE RingInv'
<1> USE DEF ReportPacket, AgentGoto, RingInv, shared, Slots
<1>1. RingTypeOK' BY DEF RingTypeOK
<1>2. AgentOK' BY DEF RingTypeOK, AgentOK, ReporterOK, InCall
<1>3. ReporterOK' BY DEF RingTypeOK, AgentOK, ReporterOK
<1>4. RingOK' BY RingKept
<1>5. StaleOK' BY DEF RingTypeOK, AgentOK, ReporterOK, StaleOK, RingOK, Wrapped
<1> QED BY <1>1, <1>2, <1>3, <1>4, <1>5

LEMMA WrapKeeps == ASSUME RingInv, Wrap PROVE RingInv'
<1> USE DEF Wrap, AgentGoto, RingInv, shared, Slots
<1>1. RingTypeOK' BY DEF RingTypeOK
<1>2. AgentOK' BY DEF RingTypeOK, AgentOK, ReporterOK, InCall
<1>3. ReporterOK' BY DEF RingTypeOK, AgentOK, ReporterOK, StaleOK
<1>4. RingOK' BY DEF RingTypeOK, AgentOK, ReporterOK, RingOK, Straight, Wrapped, Current, Holds, StaleOK
<1>5. StaleOK' BY DEF RingTypeOK, AgentOK, ReporterOK, StaleOK
<1> QED BY <1>1, <1>2, <1>3, <1>4, <1>5

LEMMA PassKeeps == ASSUME RingInv, Pass PROVE RingInv'
<1> USE DEF Pass, AgentGoto, RingInv, shared, Slots
<1>1. RingTypeOK' BY DEF RingTypeOK
<1>2. AgentOK' BY DEF RingTypeOK, AgentOK, ReporterOK, InCall
<1>3. ReporterOK' BY DEF RingTypeOK, AgentOK, ReporterOK
<1>4. RingOK' BY RingKept
<1>5. StaleOK' BY DEF RingTypeOK, AgentOK, ReporterOK, StaleOK, RingOK, Wrapped
<1> QED BY <1>1, <1>2, <1>3, <1>4, <1>5

LEMMA WaitDoneKeeps == ASSUME RingInv, WaitDone PROVE RingInv'
<1> USE DEF WaitDone, AgentGoto, RingInv, shared, Slots
<1>1. RingTypeOK' BY DEF RingTypeOK
<1>2. AgentOK' BY DEF RingTypeOK, AgentOK, ReporterOK, InCall
<1>3. ReporterOK' BY DEF RingTypeOK, AgentOK, ReporterOK
<1>4. RingOK' BY RingKept
<1>5. StaleOK' BY DEF RingTypeOK, AgentOK, ReporterOK, StaleOK
<1> QED BY <1>1, <1>2, <1>3, <1>4, <1>5

LEMMA RereadKeeps == ASSUME RingInv, Reread PROVE RingInv'
<1> USE DEF Reread, AgentGoto, RingInv, shared, Slots
<1>1. RingTypeOK' BY DEF RingTypeOK
<1>2. AgentOK' BY DEF RingTypeOK, AgentOK, ReporterOK, InCall
<1>3. ReporterOK' BY DEF RingTypeOK, AgentOK, ReporterOK
<1>4. RingOK' BY RingKept
<1>5. StaleOK' BY DEF RingTypeOK, AgentOK, ReporterOK, StaleOK, RingOK, Wrapped
<1> QED BY <1>1, <1>2, <1>3, <1>4, <1>5

LEMMA StoreKeeps ==
  ASSUME StoresInOrder, RingInv, NEW s \in {"data", "agentindex"}, Store(s)
  PROVE  RingInv'
<1> USE DEF RingInv, Slots
<1>0. /\ agent = "store" /\ agentindex \in 0..N - 1 /\ packet \in {written + 1, -(written + 1)}
      /\ written \in Nat /\ reporterindex # -1
      /\ UNCHANGED <<reporterindex, index, packet, reporter, handled>>
  BY DEF Store, RingTypeOK, AgentOK, ReporterOK, InCall
<1>a. CASE s = "data"
  <2>1. /\ stores = {"data", "agentindex"} /\ stores' = {"agentindex"}
        /\ data' = [data EXCEPT ![agentindex] = packet]
        /\ agent' = "store" /\ UNCHANGED <<agentindex, written>>
    BY <1>a, <1>0 DEF Store, AgentOK
  <2>2. RingTypeOK' BY <1>0, <2>1 DEF RingTypeOK
  <2>3. AgentOK' BY <1>0, <2>1 DEF AgentOK, InCall
  <2>4. ReporterOK' BY <1>0, <2>1 DEF ReporterOK
  <2>5. RingOK' BY <1>0, <2>1 DEF RingTypeOK, RingOK, Straight, Wrapped, Current, Holds
  <2>6. StaleOK' BY <1>0, <2>1 DEF RingTypeOK, StaleOK
  <2> QED BY <2>2, <2>3, <2>4, <2>5, <2>6
<1>b. CASE s = "agentindex"
  <2>1. /\ stores = {"agentindex"} /\ stores' = {}
        /\ agentindex' = agentindex + 1 /\ written' = written + 1
        /\ agent' = (IF packet < 0 THEN "closed" ELSE "idle") /\ UNCHANGED data
    BY <1>b, <1>0 DEF Store, AgentOK
  <2>2. RingTypeOK' BY <1>0, <2>1 DEF RingTypeOK
  <2>3. AgentOK' BY <1>0, <2>1 DEF RingTypeOK, AgentOK, InCall
  <2>4. reporterindex # agentindex BY <1>0 DEF RingTypeOK, StaleOK
  <2>5. ReporterOK' BY <1>0, <2>1, <2>4 DEF RingTypeOK, ReporterOK
  <2>6. RingOK'
    <3>1. CASE reporterindex < agentindex
      <4>1. Straight /\ (reporter = "handle" => Holds(reporterindex, Current))
        BY <1>0, <3>1 DEF RingOK
      <4>2. data[agentindex] = packet
        BY <1>0, <2>1 DEF StaleOK
      <4>3. Current \in Nat /\ Current' = Current /\ Current <= written
        BY <1>0, <2>1, <3>1, <4>1 DEF RingTypeOK, Current, Straight
      <4>4. (reporterindex < agentindex)' /\ Straight'
        BY <1>0, <2>1, <3>1, <4>1, <4>2, <4>3 DEF RingTypeOK, Straight, Holds
      <4>5. (reporter = "handle" => Holds(reporterindex, Current))'
        BY <1>0, <2>1, <4>1, <4>3 DEF RingTypeOK, Holds
      <4> QED BY <2>2, <4>4, <4>5 DEF RingOK, RingTypeOK
    <3>2. CASE reporterindex >= agentindex
      <4>1. Wrapped /\ agentindex + 1 < reporterindex /\ data[agentindex] = packet
        BY <1>0, <2>1, <3>2 DEF RingTypeOK, StaleOK, RingOK
      <4>2. reporter # "handle" \/ Holds(reporterindex, Current)
        BY <1>0 DEF RingOK
      <4>3. Current \in Nat /\ Current' = Current /\ Current <= written
        BY <1>0, <2>1, <4>1 DEF RingTypeOK, Current, Wrapped
      <4>6. /\ (agentindex < reporterindex)'
            /\ (written = Current + (N - 1 - reporterindex) + agentindex)'
        BY <1>0, <2>1, <4>1, <4>3 DEF RingTypeOK, Wrapped
      <4>7. ASSUME NEW t \in Slots, reporterindex < t
            PROVE  Holds(t, Current + (t - reporterindex))'
        <5> DEFINE n == Current + (t - reporterindex)
        <5>1. n \in Nat /\ n <= written /\ n' = n
          BY <1>0, <4>1, <4>3, <4>7 DEF RingTypeOK, Wrapped
        <5>2. Holds(t, n) BY <4>1, <4>7 DEF Wrapped
        <5> QED BY <1>0, <2>1, <5>1, <5>2 DEF RingTypeOK, Holds
      <4>8. ASSUME NEW t \in Slots, t < agentindex + 1
            PROVE  Holds(t, Current + (N - reporterindex) + t)'
        <5> DEFINE n == Current + (N - reporterindex) + t
        <5>1. n \in Nat /\ n' = n
          BY <1>0, <4>3 DEF RingTypeOK
        <5>2. CASE t < agentindex
          <6>1. n <= written /\ Holds(t, n) BY <1>0, <4>1, <4>3, <5>2 DEF RingTypeOK, Wrapped
          <6> QED BY <1>0, <2>1, <5>1, <6>1 DEF RingTypeOK, Holds
        <5>3. CASE t = agentindex
          <6>1. n = written + 1 BY <1>0, <4>1, <4>3, <5>3 DEF RingTypeOK, Wrapped
          <6> HIDE DEF n
          <6>2. data'[t] = IF agent' \in {"closed", "ended"} /\ n = written' THEN -n ELSE n
            BY <1>0, <2>1, <4>1, <5>3, <6>1 DEF RingTypeOK
          <6> USE DEF n
          <6> QED BY <5>1, <6>2 DEF Holds
        <5> QED BY <1>0, <4>8, <5>2, <5>3
      <4>9. Wrapped' BY <1>0, <2>1, <4>6, <4>7, <4>8 DEF Wrapped
      <4> QED BY <1>0, <2>1, <4>1, <4>2, <4>3, <4>9 DEF RingTypeOK, RingOK, Holds
    <3> QED BY <1>0, <3>1, <3>2 DEF RingTypeOK
  <2>7. StaleOK' BY <1>0, <2>1 DEF StaleOK
  <2> QED BY <2>2, <2>3, <2>5, <2>6, <2>7
<1> QED BY <1>a, <1>b

LEMMA EndReportKeeps == ASSUME RingInv, EndReport PROVE RingInv'
<1> USE DEF EndReport, AgentGoto, RingInv, shared, Slots
<1>1. RingTypeOK' BY DEF RingTypeOK
<1>2. AgentOK' BY DEF RingTypeOK, AgentOK, ReporterOK, InCall
<1>3. ReporterOK' BY DEF RingTypeOK, AgentOK, ReporterOK
<1>4. RingOK' BY DEF RingTypeOK, AgentOK, ReporterOK, RingOK, Straight, Wrapped, Current, Holds, StaleOK
<1>5. StaleOK' BY DEF RingTypeOK, AgentOK, ReporterOK, StaleOK
<1> QED BY <1>1, <1>2, <1>3, <1>4, <1>5

LEMMA ProcessReportKeeps == ASSUME RingInv, ProcessReport PROVE RingInv'
<1> USE DEF ProcessReport, ReporterGoto, RingInv, shared, Slots
<1>1. RingTypeOK' BY DEF RingTypeOK
<1>2. AgentOK' BY DEF RingTypeOK, AgentOK, ReporterOK, InCall
<1>3. ReporterOK' BY DEF RingTypeOK, AgentOK, ReporterOK
<1>4. RingOK' BY DEF RingTypeOK, AgentOK, ReporterOK, RingOK, Straight, Wrapped, Current, Holds, StaleOK
<1>5. StaleOK' BY DEF RingTypeOK, AgentOK, ReporterOK, StaleOK
<1> QED BY <1>1, <1>2, <1>3, <1>4, <1>5

LEMMA TestAgentKeeps == ASSUME RingInv, TestAgent PROVE RingInv'
<1> USE DEF TestAgent, ReporterGoto, RingInv, shared, Slots
<1>1. RingTypeOK' BY DEF RingTypeOK
<1>2. AgentOK' BY DEF RingTypeOK, AgentOK, ReporterOK, InCall
<1>3. ReporterOK' BY DEF RingTypeOK, AgentOK, ReporterOK
<1>4. RingOK' BY DEF RingTypeOK, AgentOK, ReporterOK, RingOK, Straight, Wrapped, Current, Holds, StaleOK
<1>5. StaleOK' BY DEF RingTypeOK, AgentOK, ReporterOK, StaleOK
<1> QED BY <1>1, <1>2, <1>3, <1>4, <1>5

LEMMA StepIndexKeeps == ASSUME RingInv, StepIndex PROVE RingInv'
<1> USE DEF RingInv, Slots
<1>0. /\ reporterindex \in 0..N - 1 /\ agentindex \in 0..N /\ reporter = "step"
      /\ reporterindex # agentindex - 1 /\ agent # "ended"
  BY DEF StepIndex, RingTypeOK, ReporterOK, AgentOK
<1>a. CASE reporterindex = N - 1 /\ agentindex = 0
  <2>1. /\ reporter' = "done"
        /\ UNCHANGED <<agentindex, reporterindex, data, agent, index, packet, stores, written, handled>>
    BY <1>0, <1>a DEF StepIndex, ReporterGoto
  <2>2. RingTypeOK' BY <2>1 DEF RingTypeOK
  <2>3. AgentOK' BY <2>1 DEF AgentOK, InCall
  <2>4. ReporterOK' BY <1>0, <2>1 DEF ReporterOK, RingTypeOK
  <2>5. RingOK' BY <1>0, <2>1 DEF RingTypeOK, RingOK, Straight, Wrapped, Current, Holds
  <2>6. StaleOK' BY <2>1 DEF RingTypeOK, StaleOK, Wrapped
  <2> QED BY <2>2, <2>3, <2>4, <2>5, <2>6
<1>b. CASE reporterindex = N - 1 /\ agentindex # 0
  <2>1. /\ reporter' = "handle" /\ reporterindex' = 0
        /\ UNCHANGED <<agentindex, data, agent, index, packet, stores, written, handled>>
    BY <1>0, <1>b DEF StepIndex, ReporterGoto
  <2>2. RingTypeOK' BY <2>1 DEF RingTypeOK
  <2>3. AgentOK' BY <2>1 DEF AgentOK, InCall
  <2>4. ReporterOK' BY <1>0, <2>1 DEF ReporterOK, RingTypeOK
  <2>5. Wrapped BY <1>0, <1>b DEF RingOK
  <2>6. RingOK' BY <1>0, <1>b, <2>1, <2>5 DEF RingTypeOK, RingOK, Straight, Wrapped, Current, Holds
  <2>7. StaleOK' BY <1>0, <1>b, <2>1, <2>5 DEF RingTypeOK, StaleOK, Wrapped
  <2> QED BY <2>2, <2>3, <2>4, <2>6, <2>7
<1>c. CASE reporterindex # N - 1
  <2>1. /\ reporter' = "handle" /\ reporterindex' = reporterindex + 1
        /\ UNCHANGED <<agentindex, data, agent, index, packet, stores, written, handled>>
    BY <1>0, <1>c DEF StepIndex, ReporterGoto
  <2>2. RingTypeOK' BY <1>0, <1>c, <2>1 DEF RingTypeOK
  <2>3. AgentOK' BY <2>1 DEF AgentOK, InCall
  <2>4. ReporterOK' BY <1>0, <2>1 DEF ReporterOK, RingTypeOK
  <2>5. RingOK'
    <3>1. CASE reporterindex < agentindex
      BY <1>0, <1>c, <2>1, <3>1 DEF RingTypeOK, RingOK, Straight, Wrapped, Current, Holds
    <3>2. CASE reporterindex >= agentindex
      BY <1>0, <1>c, <2>1, <3>2 DEF RingTypeOK, RingOK, Straight, Wrapped, Current, Holds
    <3> QED BY <1>0, <3>1, <3>2
  <2>6. StaleOK' BY <1>0, <1>c, <2>1 DEF RingTypeOK, StaleOK, Wrapped
  <2> QED BY <2>2, <2>3, <2>4, <2>5, <2>6
<1> QED BY <1>a, <1>b, <1>c

LEMMA HandleKeeps == ASSUME RingInv, Handle PROVE RingInv'
<1> USE DEF RingInv, Slots
<1>0. /\ reporterindex \in 0..N - 1 /\ agentindex \in 0..N /\ reporter = "handle"
      /\ agent # "ended"
  BY DEF Handle, RingTypeOK, ReporterOK, AgentOK
<1>1. /\ data[reporterindex] \in Int
      /\ data[reporterindex] = IF agent = "closed" /\ handled + 1 = written THEN -(handled + 1) ELSE handled + 1
  BY <1>0 DEF RingTypeOK, RingOK, Current, Holds
<1>2. handled' = handled + 1 /\ handled \in Nat BY <1>0, <1>1 DEF Handle, Number, RingTypeOK
<1>a. CASE data[reporterindex] < 0
  <2>1. /\ reporter' = "done" /\ reporterindex' = -1
        /\ UNCHANGED <<agentindex, data, agent, index, packet, stores, written>>
    BY <1>a DEF Handle, ReporterGoto
  <2>2. agent = "closed" /\ handled + 1 = written BY <1>a, <1>1, <1>2
  <2>3. RingTypeOK' BY <1>2, <2>1 DEF RingTypeOK
  <2>4. AgentOK' BY <2>1 DEF AgentOK, InCall
  <2>5. ReporterOK' BY <1>0, <1>2, <2>1, <2>2 DEF ReporterOK, RingTypeOK
  <2>6. RingOK' BY <2>1 DEF RingTypeOK, RingOK, Straight, Wrapped, Current, Holds
  <2>7. StaleOK' BY <2>1, <2>2 DEF RingTypeOK, StaleOK, Wrapped
  <2> QED BY <2>3, <2>4, <2>5, <2>6, <2>7
<1>b. CASE ~(data[reporterindex] < 0)
  <2>1. /\ reporter' = "test"
        /\ UNCHANGED <<agentindex, reporterindex, data, agent, index, packet, stores, written>>
    BY <1>b DEF Handle, ReporterGoto
  <2>2. RingTypeOK' BY <1>2, <2>1 DEF RingTypeOK
  <2>3. AgentOK' BY <2>1 DEF AgentOK, InCall
  <2>4. ReporterOK' BY <1>0, <2>1 DEF ReporterOK, RingTypeOK
  <2>5. Current' = Current BY <1>0, <1>2, <2>1 DEF Current
  <2>6. RingOK' BY <1>0, <2>1, <2>5 DEF RingTypeOK, RingOK, Straight, Wrapped, Current, Holds
  <2>7. StaleOK' BY <2>1 DEF RingTypeOK, StaleOK, Wrapped
  <2> QED BY <2>2, <2>3, <2>4, <2>6, <2>7
<1> QED BY <1>a, <1>b

LEMMA TestEndedKeeps == ASSUME RingInv, TestEnded PROVE RingInv'
<1> USE DEF TestEnded, ReporterGoto, RingInv, shared, Slots
<1>1. RingTypeOK' BY DEF RingTypeOK
<1>2. AgentOK' BY DEF RingTypeOK, AgentOK, ReporterOK, InCall
<1>3. ReporterOK' BY DEF RingTypeOK, AgentOK, ReporterOK
<1>4. RingOK' BY DEF RingTypeOK, AgentOK, ReporterOK, RingOK, Straight, Wrapped, Current, Holds, StaleOK
<1>5. StaleOK' BY DEF RingTypeOK, AgentOK, ReporterOK, StaleOK
<1> QED BY <1>1, <1>2, <1>3, <1>4, <1>5

LEMMA SignalDoneKeeps == ASSUME RingInv, SignalDone PROVE RingInv'
<1> USE DEF SignalDone, ReporterGoto, RingInv, shared, Slots
<1>1. RingTypeOK' BY DEF RingTypeOK
<1>2. AgentOK' BY DEF RingTypeOK, AgentOK, ReporterOK, InCall
<1>3. ReporterOK' BY DEF RingTypeOK, AgentOK, ReporterOK
<1>4. RingOK' BY DEF RingTypeOK, AgentOK, ReporterOK, RingOK, Straight, Wrapped, Current, Holds, StaleOK
<1>5. StaleOK' BY DEF RingTypeOK, AgentOK, ReporterOK, StaleOK
<1> QED BY <1>1, <1>2, <1>3, <1>4, <1>5

LEMMA InitHolds == RingInit => RingInv
BY DEF RingInit, RingInv, RingTypeOK, AgentOK, InCall, ReporterOK, RingOK, Straight, Wrapped,
       Current, Holds, StaleOK, Slots

LEMMA NextKeeps == ASSUME StoresInOrder, RingInv, [RingNext]_ringVars PROVE RingInv'
<1>1. CASE Agent
  BY <1>1, ReportPacketKeeps, WrapKeeps, PassKeeps, WaitDoneKeeps, RereadKeeps, StoreKeeps,
     EndReportKeeps DEF Agent
<1>2. CASE Reporter
  BY <1>2, ProcessReportKeeps, TestAgentKeeps, StepIndexKeeps, HandleKeeps, TestEndedKeeps,
     SignalDoneKeeps DEF Reporter
<1>3. CASE UNCHANGED ringVars
  BY <1>3 DEF ringVars, shared, agentVars, RingInv, RingTypeOK, AgentOK, InCall, ReporterOK, RingOK,
              Straight, Wrapped, Current, Holds, StaleOK, Slots
<1> QED BY <1>1, <1>2, <1>3 DEF RingNext

(***************************************************************************)
(* The theorems.                                                           *)
(***************************************************************************)
\* The inductive invariant of the ring, when the two stores of ReportPacket reach
\* the reporter in order.
THEOREM RingInvariant == StoresInOrder => (RingSpec => []RingInv)
<1> SUFFICES ASSUME StoresInOrder PROVE RingSpec => []RingInv
  OBVIOUS
<1>1. RingInv /\ [RingNext]_ringVars => RingInv'
  BY NextKeeps
<1> QED BY <1>1, InitHolds, PTL DEF RingSpec

\* What the invariant gives: slots still needed are not written, and a report is freed
\* only when it has ended.
LEMMA RingFacts == RingInv => RingTypeOK /\ NoOverwrite /\ FreedEnded
<1>1. RingInv => RingTypeOK
  BY DEF RingInv
<1>2. RingInv => NoOverwrite
  BY DEF RingInv, RingTypeOK, AgentOK, RingOK, Wrapped, StaleOK, NoOverwrite, Pending, Slots
<1>3. RingInv => FreedEnded
  BY DEF RingInv, RingTypeOK, AgentOK, ReporterOK, FreedEnded, freed
<1> QED BY <1>1, <1>2, <1>3

\* Type correctness of the ring of ReportPacket and reporter_process_report.
THEOREM RingTypeCorrect == StoresInOrder => (RingSpec => []RingTypeOK)
BY RingFacts, RingInvariant, PTL

\* ReportPacket never writes a slot the reporter has still to read or is reading,
\* however old the index it has read is.
THEOREM RingNoOverwrite == StoresInOrder => (RingSpec => []NoOverwrite)
BY RingFacts, RingInvariant, PTL

\* reporter_spawn frees a report only after EndReport and with all packets handled.
THEOREM RingFreedEnded == StoresInOrder => (RingSpec => []FreedEnded)
BY RingFacts, RingInvariant, PTL

(***************************************************************************)
(* The refinement.  Only three actions change what the queue consists of.  *)
(***************************************************************************)
\* A step that leaves written and handled alone and frees nothing.
LEMMA QuietStep ==
  ASSUME reporter # "freed", reporter' # "freed", UNCHANGED <<written, handled>>
  PROVE  UNCHANGED ImplementsQueue!queueVars
<1>1. freed' = freed BY DEF freed
<1> QED BY <1>1 DEF ImplementsQueue!queueVars

LEMMA StepImplements ==
  ASSUME StoresInOrder, RingInv, [RingNext]_ringVars
  PROVE  [ImplementsQueue!QueueNext]_ImplementsQueue!queueVars
<1> DEFINE Q == [ImplementsQueue!QueueNext]_ImplementsQueue!queueVars
<1>1. ASSUME Agent, reporter # "freed" PROVE Q
  <2>1. CASE ReportPacket \/ Wrap \/ Pass \/ WaitDone \/ Reread \/ EndReport
    <3>1. UNCHANGED <<reporter, written, handled>>
      BY <2>1 DEF ReportPacket, Wrap, Pass, WaitDone, Reread, EndReport, AgentGoto
    <3> QED BY <1>1, <3>1, QuietStep
  <2>2. ASSUME NEW s \in {"data", "agentindex"}, Store(s) PROVE Q
    <3>1. CASE UNCHANGED written
      BY <1>1, <2>2, <3>1, QuietStep DEF Store
    <3>2. CASE written' # written
      <4>1. written' = written + 1 /\ UNCHANGED <<reporter, handled>> BY <2>2, <3>2 DEF Store
      <4>2. freed' = freed BY <4>1 DEF freed
      <4>3. ~freed BY <1>1 DEF freed
      <4> QED BY <4>1, <4>2, <4>3 DEF ImplementsQueue!QueueNext, ImplementsQueue!Put
    <3> QED BY <3>1, <3>2
  <2> QED BY <1>1, <2>1, <2>2 DEF Agent
<1>2. ASSUME Agent, reporter = "freed" PROVE Q
  <2>1. agent = "ended" BY <1>2 DEF RingInv, ReporterOK
  <2> QED BY <1>2, <2>1 DEF Agent, ReportPacket, Wrap, Pass, WaitDone, Reread, Store, EndReport
<1>3. CASE ProcessReport \/ TestAgent \/ StepIndex \/ TestEnded
  <2>1. reporter # "freed" /\ reporter' # "freed" /\ UNCHANGED <<written, handled>>
    BY <1>3 DEF ProcessReport, TestAgent, StepIndex, TestEnded, ReporterGoto
  <2> QED BY <2>1, QuietStep
<1>4. CASE Handle
  <2>1. /\ reporterindex \in 0..N - 1 /\ handled \in Nat /\ written \in Nat
        /\ agentindex \in 0..N
    BY <1>4 DEF Handle, RingInv, RingTypeOK, ReporterOK, AgentOK
  <2>2. data[reporterindex] \in {handled + 1, -(handled + 1)}
    BY <1>4, <2>1 DEF Handle, RingInv, RingOK, Current, Holds
  <2>3. handled + 1 <= written
    BY <1>4, <2>1 DEF Handle, RingInv, RingOK, Straight, Wrapped, Current
  <2>4. handled' = handled + 1 /\ UNCHANGED written
    BY <1>4, <2>1, <2>2 DEF Handle, Number, ReporterGoto
  <2>5. ~freed BY <1>4 DEF Handle, freed
  <2>6. ~freed' BY <1>4 DEF Handle, freed, ReporterGoto
  <2>7. freed' = freed BY <2>5, <2>6 DEF freed
  <2>8. handled < written BY <2>1, <2>3
  <2> QED BY <2>4, <2>5, <2>7, <2>8 DEF ImplementsQueue!QueueNext, ImplementsQueue!Take
<1>5. CASE SignalDone
  <2>1. CASE reporter = "signal"
    <3>1. reporter # "freed" /\ reporter' # "freed" /\ UNCHANGED <<written, handled>>
      BY <1>5, <2>1 DEF SignalDone, ReporterGoto
    <3> QED BY <3>1, QuietStep
  <2>2. CASE reporter = "free"
    <3>1. handled = written BY <2>2 DEF RingInv, ReporterOK
    <3>2. reporter' = "freed" /\ UNCHANGED <<written, handled>>
      BY <1>5, <2>2 DEF SignalDone, ReporterGoto
    <3>3. ~freed /\ freed' = TRUE BY <2>2, <3>2 DEF freed
    <3> QED BY <3>1, <3>2, <3>3 DEF ImplementsQueue!QueueNext, ImplementsQueue!FreeReport
  <2> QED BY <1>5, <2>1, <2>2 DEF SignalDone
<1>6. CASE UNCHANGED ringVars
  <2>1. UNCHANGED <<written, handled, reporter>> BY <1>6 DEF ringVars
  <2>2. freed' = freed BY <2>1 DEF freed
  <2> QED BY <2>1, <2>2 DEF ImplementsQueue!queueVars
<1> QED BY <1>1, <1>2, <1>3, <1>4, <1>5, <1>6 DEF RingNext, Reporter

LEMMA InitImplements == RingInit => ImplementsQueue!QueueInit
<1> SUFFICES ASSUME RingInit PROVE ImplementsQueue!QueueInit
  OBVIOUS
<1>1. written = 0 /\ handled = 0
  BY DEF RingInit
<1>2. freed = FALSE
  BY DEF RingInit, freed
<1> QED BY <1>1, <1>2 DEF ImplementsQueue!QueueInit

\* The ring of Reporter.c implements a queue: reporter_handle_packet sees every
\* packet of ReportPacket once and in order, and the report is freed empty.
THEOREM RingImplementsQueue == StoresInOrder => (RingSpec => QueueOrder)
<1> SUFFICES ASSUME StoresInOrder PROVE RingSpec => QueueOrder
  OBVIOUS
<1>1. RingInv /\ [RingNext]_ringVars => [ImplementsQueue!QueueNext]_ImplementsQueue!queueVars
  BY StepImplements
<1>2. RingSpec => []RingInv
  BY RingInvariant
<1> QED BY <1>1, <1>2, InitImplements, PTL DEF RingSpec, QueueOrder, ImplementsQueue!QueueSpec

(***************************************************************************)
(* The UDP test: the counters.                                             *)
(***************************************************************************)
Stats == [PacketID : Nat, cntError : Nat, cntOutofOrder : Nat]
Report == [datagrams : Nat, lost : Nat, outOfOrder : Nat]

\* The number that the server's loop reports for the id field m.
Read(m) == IF m < 0 THEN Negated(m) ELSE m

\* Counting keeps the counters natural, and the largest id only grows.
LEMMA CountedType ==
  ASSUME NEW s \in Stats, NEW p \in Int
  PROVE  /\ Counted(s, p) \in Stats
         /\ Counted(s, p).PacketID >= s.PacketID /\ Counted(s, p).PacketID >= p
<1>1. CASE p <= 0
  BY <1>1 DEF Counted, Stats
<1>2. CASE p > 0
  <2> DEFINE a == IF p > s.PacketID THEN p ELSE s.PacketID
             b == s.cntError + (IF p > s.PacketID + 1 THEN p - s.PacketID - 1 ELSE 0)
             c == s.cntOutofOrder + (IF p < s.PacketID + 1 THEN 1 ELSE 0)
  <2>1. a \in Nat /\ b \in Nat /\ c \in Nat /\ a >= s.PacketID /\ a >= p
    BY <1>2 DEF Stats
  <2>2. Counted(s, p) = [PacketID |-> a, cntError |-> b, cntOutofOrder |-> c]
    BY <1>2 DEF Counted
  <2> HIDE DEF a, b, c
  <2> QED BY <2>1, <2>2 DEF Stats
<1> QED BY <1>1, <1>2

\* The last report has natural figures and the largest id.
LEMMA FinalType ==
  ASSUME NEW s \in Stats
  PROVE  Final(s) \in Report /\ Final(s).datagrams = s.PacketID
<1> DEFINE l == IF s.cntError > s.cntOutofOrder THEN s.cntError - s.cntOutofOrder ELSE s.cntError
<1>1. l \in Nat /\ s.PacketID \in Nat /\ s.cntOutofOrder \in Nat
  BY DEF Stats
<1>2. Final(s) = [datagrams |-> s.PacketID, lost |-> l, outOfOrder |-> s.cntOutofOrder]
  BY DEF Final
<1> HIDE DEF l
<1> QED BY <1>1, <1>2 DEF Report

\* Numbers in the id field are integers.
LEMMA IdType ==
  /\ \A n \in Nat : Id(n) \in Int
  /\ \A m \in Int : Negated(m) \in Int /\ Read(m) \in Int
BY UdpStreamAssumption DEF Id, Negated, Read

(***************************************************************************)
(* Type correctness.                                                       *)
(***************************************************************************)
LEMMA InitStreamType == StreamInit => StreamTypeOK
<1> SUFFICES ASSUME StreamInit PROVE StreamTypeOK
  OBVIOUS
<1>1. Tries \in Nat /\ 0 \in 0..Tries
  BY UdpStreamAssumption
<1>2. NoReport \in [datagrams : Int, lost : Nat, outOfOrder : Nat] /\ NoStats \in Stats
  BY DEF NoReport, NoStats, Stats
<1>3. twice \in BOOLEAN /\ failedRead \in BOOLEAN
  BY Zenon DEF StreamInit
<1> QED BY <1>1, <1>2, <1>3 DEF StreamInit, StreamTypeOK, Stats

\* A datagram that is reported keeps the types.
LEMMA ReportFacts ==
  ASSUME StreamTypeOK, NEW m \in Int, ReportId(m)
  PROVE  /\ Read(m) \in Int
         /\ stats \in Stats /\ stats' = Counted(stats, Read(m)) /\ stats' \in Stats
         /\ got' = got \cup (IF Read(m) > 0 THEN {Read(m)} ELSE {})
         /\ got' \subseteq Nat \ {0}
         /\ twice' = (twice \/ Read(m) \in got) /\ twice' \in BOOLEAN
<1>1. stats \in Stats /\ got \subseteq Nat \ {0}
  BY DEF StreamTypeOK, Stats
<1>2. Read(m) \in Int
  BY IdType
<1>3. /\ stats' = Counted(stats, Read(m))
      /\ got' = got \cup (IF Read(m) > 0 THEN {Read(m)} ELSE {})
      /\ twice' = (twice \/ Read(m) \in got)
  BY DEF ReportId, Read
<1>4. got' \subseteq Nat \ {0}
  <2>1. CASE Read(m) > 0
    <3>1. got' = got \cup {Read(m)} /\ Read(m) \in Nat \ {0}
      BY <1>2, <1>3, <2>1
    <3> QED BY <1>1, <3>1, Zenon
  <2>2. CASE ~(Read(m) > 0)
    BY <1>1, <1>3, <2>2
  <2> QED BY <2>1, <2>2
<1>5. twice' \in BOOLEAN
  BY <1>3, Zenon
<1> QED BY <1>1, <1>2, <1>3, <1>4, <1>5, CountedType

\* Every step that reports a datagram, and what the buffer holds.
LEMMA RecvReports ==
  ASSUME StreamTypeOK, (\E m \in toServer : Recv(m)) \/ RecvFails
  PROVE  \E m \in Int : ReportId(m)
<1>1. ASSUME NEW m \in toServer, Recv(m)
      PROVE  \E n \in Int : ReportId(n)
  BY <1>1 DEF Recv, StreamTypeOK
<1>2. CASE RecvFails
  <2>1. PICK m \in (IF reads = 0 THEN Ids ELSE {mBuf}) : ReportId(m)
    BY <1>2 DEF RecvFails
  <2>2. Ids \subseteq Int
    BY UdpStreamAssumption DEF Ids
  <2>3. m \in Int
    BY <2>1, <2>2 DEF StreamTypeOK
  <2> QED BY <2>1, <2>3
<1> QED BY <1>1, <1>2

LEMMA StepStreamType == StreamTypeOK /\ [StreamNext]_streamVars => StreamTypeOK'
<1> SUFFICES ASSUME StreamTypeOK, [StreamNext]_streamVars PROVE StreamTypeOK'
  OBVIOUS
<1> USE DEF StreamTypeOK, clientVars, serverVars
<1>0. Tries \in Nat
  BY UdpStreamAssumption
<1>1. CASE SendData
  <2>1. Id(packetID) \in Int
    BY IdType
  <2>2. toServer' \subseteq Int
    <3>1. toServer' = toServer \cup {Id(packetID)} /\ toServer \subseteq Int
      BY <1>1 DEF SendData
    <3> QED BY <2>1, <3>1, Zenon
  <2> QED BY <1>1, <2>2 DEF SendData
<1>2. CASE ReportSent
  BY <1>2 DEF ReportSent
<1>3. CASE CloseStream
  BY <1>3 DEF CloseStream
<1>4. CASE ReadCounter
  BY <1>4, IdType DEF ReadCounter
<1>5. CASE WriteFin
  <2>1. Negated(finID) \in Int
    BY IdType
  <2>2. finCount' \in 0..Tries
    BY <1>0, <1>5 DEF WriteFin
  <2> QED BY <1>5, <2>1, <2>2 DEF WriteFin
<1>6. CASE AwaitAck
  <2>1. relayed' \in [datagrams : Int, lost : Nat, outOfOrder : Nat]
    <3>1. Report \subseteq [datagrams : Int, lost : Nat, outOfOrder : Nat]
      BY DEF Report
    <3> QED BY <1>6, <3>1 DEF AwaitAck, Report
  <2>2. client' \in {"fin", "end"}
    BY <1>6 DEF AwaitAck
  <2> QED BY <1>6, <2>1, <2>2 DEF AwaitAck
<1>7. CASE EndStream
  BY <1>7 DEF EndStream
<1>8. ASSUME NEW m \in toServer, AcceptDatagram(m)
      PROVE  StreamTypeOK'
  BY <1>8 DEF AcceptDatagram
<1>9. ASSUME NEW m \in toServer, Recv(m)
      PROVE  StreamTypeOK'
  <2>1. m \in Int /\ ReportId(m)
    BY <1>9 DEF Recv
  <2>2. stats' \in Stats /\ got' \subseteq Nat \ {0} /\ twice' \in BOOLEAN
    BY <2>1, ReportFacts
  <2>3. /\ server' \in {"recv", "ack"} /\ reads' \in Nat /\ mBuf' \in Int
        /\ UNCHANGED <<clientVars, toServer, toClient, failedRead, ackCount, servers>>
    BY <1>9, <2>1 DEF Recv
  <2> QED BY <2>2, <2>3 DEF Stats
<1>14. CASE RecvFails
  <2>1. PICK m \in Int : ReportId(m)
    BY <1>14, RecvReports
  <2>2. stats' \in Stats /\ got' \subseteq Nat \ {0} /\ twice' \in BOOLEAN
    BY <2>1, ReportFacts
  <2>3. /\ server' = "ack" /\ mBuf' = 0 /\ failedRead' = TRUE
        /\ UNCHANGED <<clientVars, toServer, toClient, reads, ackCount, servers>>
    BY <1>14 DEF RecvFails
  <2> QED BY <2>2, <2>3 DEF Stats
<1>10. CASE WriteAck
  <2>1. Final(stats) \in Report
    BY FinalType DEF Stats
  <2>2. ackCount' \in 0..Tries
    BY <1>0, <1>10 DEF WriteAck
  <2> QED BY <1>10, <2>1, <2>2 DEF WriteAck, Report
<1>11. CASE AwaitAgain
  <2>1. server' \in {"ack", "ended"}
    BY <1>11 DEF AwaitAgain
  <2> QED BY <1>11, <2>1 DEF AwaitAgain
<1>12. CASE ServerEnd
  <2>1. NoStats \in Stats
    BY DEF NoStats, Stats
  <2>2. twice' \in BOOLEAN
    BY <1>12, Zenon DEF ServerEnd
  <2>3. ackCount' \in 0..Tries
    BY <1>0, <1>12 DEF ServerEnd
  <2> QED BY <1>12, <2>1, <2>2, <2>3 DEF ServerEnd, Stats
<1>13. CASE UNCHANGED streamVars
  BY <1>13 DEF streamVars
<1> QED BY <1>1, <1>2, <1>3, <1>4, <1>5, <1>6, <1>7, <1>8, <1>9, <1>10, <1>11, <1>12,
           <1>13, <1>14 DEF StreamNext, ClientNext

(***************************************************************************)
(* The loss count.                                                         *)
(***************************************************************************)
Missing(P, g) == (1..P) \ g

\* The ids a server reported are at most the largest one it counted, and the gaps it
\* counted, less the late datagrams, are the ids that are missing.
LossInv ==
  /\ got \subseteq 1..stats.PacketID
  /\ ~twice => stats.cntError - stats.cntOutofOrder = Cardinality(Missing(stats.PacketID, got))

\* A datagram beyond the largest id adds the gap before it to the missing ones.
LEMMA GapMissing ==
  ASSUME NEW P \in Nat, NEW g, g \subseteq 1..P, NEW p \in Nat, p > P
  PROVE  /\ Cardinality(Missing(P, g)) \in Nat
         /\ Cardinality(Missing(p, g \cup {p})) = Cardinality(Missing(P, g)) + (p - P - 1)
<1> DEFINE gap == (P + 1)..(p - 1)
<1>1. Missing(p, g \cup {p}) = Missing(P, g) \cup gap /\ Missing(P, g) \cap gap = {}
  BY DEF Missing
<1>2. IsFiniteSet(1..P) /\ IsFiniteSet(gap) /\ Cardinality(gap) = p - P - 1
  <2>1. P + 1 \in Int /\ p - 1 \in Int /\ 1 \in Int
    OBVIOUS
  <2>2. /\ IsFiniteSet(gap)
        /\ Cardinality(gap) = IF P + 1 > p - 1 THEN 0 ELSE (p - 1) - (P + 1) + 1
    BY <2>1, FS_Interval
  <2>3. IsFiniteSet(1..P)
    BY <2>1, FS_Interval
  <2> QED BY <2>2, <2>3
<1>3. IsFiniteSet(Missing(P, g))
  BY <1>2, FS_Subset DEF Missing
<1> HIDE DEF gap
<1>4. Cardinality(Missing(P, g)) \in Nat /\ Cardinality(gap) \in Nat
  BY <1>2, <1>3, FS_CardinalityType
<1>5. Cardinality(Missing(P, g) \cup gap) =
        Cardinality(Missing(P, g)) + Cardinality(gap) - Cardinality(Missing(P, g) \cap gap)
  BY <1>2, <1>3, FS_Union
<1>6. Cardinality({}) = 0
  BY FS_EmptySet
<1>7. Cardinality(Missing(P, g) \cup gap) = Cardinality(Missing(P, g)) + Cardinality(gap)
  <2>1. Cardinality(Missing(P, g) \cap gap) = 0
    BY <1>1, <1>6, Zenon
  <2> QED BY <1>4, <1>5, <2>1
<1> QED BY <1>1, <1>2, <1>4, <1>7

\* A late datagram is one missing id less.
LEMMA LateMissing ==
  ASSUME NEW P \in Nat, NEW g, g \subseteq 1..P, NEW p \in 1..P, p \notin g
  PROVE  /\ Cardinality(Missing(P, g)) \in Nat
         /\ Cardinality(Missing(P, g \cup {p})) = Cardinality(Missing(P, g)) - 1
<1>1. Missing(P, g \cup {p}) = Missing(P, g) \ {p} /\ p \in Missing(P, g)
  BY DEF Missing
<1>2. IsFiniteSet(1..P)
  BY FS_Interval
<1>3. IsFiniteSet(Missing(P, g))
  BY <1>2, FS_Subset DEF Missing
<1> QED BY <1>1, <1>3, FS_RemoveElement, FS_CardinalityType

LEMMA StepLoss ==
  ASSUME StreamTypeOK, LossInv, [StreamNext]_streamVars
  PROVE  LossInv'
<1>1. CASE UNCHANGED <<stats, got, twice>>
  BY <1>1 DEF LossInv
<1>2. ASSUME NEW m \in Int, ReportId(m)
      PROVE  LossInv'
  <2> DEFINE p == Read(m)
             P == stats.PacketID
  <2>1. /\ p \in Int /\ stats \in Stats /\ stats' = Counted(stats, p) /\ stats' \in Stats
        /\ got' = got \cup (IF p > 0 THEN {p} ELSE {})
        /\ twice' = (twice \/ p \in got)
    BY <1>2, ReportFacts
  <2> HIDE DEF p
  <2>2. CASE p <= 0
    <3>0. ~(p > 0)
      BY <2>1, <2>2
    <3>1. stats' = stats /\ got' = got /\ (twice => twice')
      BY <2>1, <2>2, <3>0 DEF Counted
    <3> QED BY <3>1 DEF LossInv
  <2>3. CASE p > 0
    <3>1. p \in Nat /\ P \in Nat /\ stats.cntError \in Nat /\ stats.cntOutofOrder \in Nat
      BY <2>1, <2>3 DEF Stats
    <3>2. /\ stats'.PacketID = IF p > P THEN p ELSE P
          /\ stats'.cntError = stats.cntError + (IF p > P + 1 THEN p - P - 1 ELSE 0)
          /\ stats'.cntOutofOrder = stats.cntOutofOrder + (IF p < P + 1 THEN 1 ELSE 0)
      BY <2>1, <2>3 DEF Counted
    <3>3. got' = got \cup {p} /\ got \subseteq 1..P
      BY <2>1, <2>3 DEF LossInv
    <3>4. got' \subseteq 1..stats'.PacketID
      <4>1. \A x \in got' : x \in 1..P \/ x = p
        BY <3>3
      <4> HIDE DEF P
      <4>2. \A x \in 1..P : x \in 1..(IF p > P THEN p ELSE P)
        BY <3>1
      <4>3. p \in 1..(IF p > P THEN p ELSE P)
        BY <2>3, <3>1
      <4> QED BY <3>2, <4>1, <4>2, <4>3
    <3>5. ASSUME ~twice'
          PROVE  stats'.cntError - stats'.cntOutofOrder
                   = Cardinality(Missing(stats'.PacketID, got'))
      <4>1. ~twice /\ p \notin got
        BY <2>1, <3>5
      <4>2. stats.cntError - stats.cntOutofOrder = Cardinality(Missing(P, got))
        BY <4>1 DEF LossInv
      <4> HIDE DEF P
      <4>3. CASE p > P
        <5>1. /\ Cardinality(Missing(P, got)) \in Nat
              /\ Cardinality(Missing(p, got \cup {p})) = Cardinality(Missing(P, got)) + (p - P - 1)
          BY <3>1, <3>3, <4>3, GapMissing
        <5> QED BY <3>1, <3>2, <3>3, <4>2, <4>3, <5>1
      <4>4. CASE p <= P
        <5>1. p \in 1..P
          BY <2>3, <3>1, <4>4
        <5>2. /\ Cardinality(Missing(P, got)) \in Nat
              /\ Cardinality(Missing(P, got \cup {p})) = Cardinality(Missing(P, got)) - 1
          BY <3>1, <3>3, <4>1, <5>1, LateMissing
        <5> QED BY <3>1, <3>2, <3>3, <4>2, <4>4, <5>2
      <4> QED BY <3>1, <4>3, <4>4
    <3> QED BY <3>4, <3>5 DEF LossInv
  <2> QED BY <2>1, <2>2, <2>3
<1>3. CASE ServerEnd
  <2>1. stats' = NoStats /\ got' = {}
    BY <1>3 DEF ServerEnd
  <2>2. Cardinality((1..0) \ {}) = 0
    <3>1. (1..0) \ {} = {}
      OBVIOUS
    <3> QED BY <3>1, FS_EmptySet
  <2> QED BY <2>1, <2>2 DEF LossInv, Missing, NoStats
<1>4. \/ UNCHANGED <<stats, got, twice>>
      \/ (\E m \in toServer : Recv(m)) \/ RecvFails
      \/ ServerEnd
  BY DEF StreamNext, ClientNext, SendData, ReportSent, CloseStream, ReadCounter, WriteFin,
         AwaitAck, EndStream, AcceptDatagram, WriteAck, AwaitAgain, streamVars, serverVars
<1> QED BY <1>1, <1>2, <1>3, <1>4, RecvReports

\* What the last report says of it: the late datagrams come off the missed ones, but
\* not when they are as many.
LEMMA LossReported ==
  ASSUME StreamTypeOK, LossInv
  PROVE  LossCounted
<1> DEFINE missing == (1..stats.PacketID) \ got
<1> SUFFICES ASSUME ~twice
             PROVE  Final(stats).lost = IF missing # {} THEN Cardinality(missing)
                                                       ELSE stats.cntOutofOrder
  BY DEF LossCounted
<1>1. stats.PacketID \in Nat /\ stats.cntError \in Nat /\ stats.cntOutofOrder \in Nat
  BY DEF StreamTypeOK
<1>2. stats.cntError - stats.cntOutofOrder = Cardinality(missing)
  BY DEF LossInv, Missing
<1>3. IsFiniteSet(missing)
  <2>1. 1 \in Int /\ stats.PacketID \in Int
    BY <1>1
  <2>2. IsFiniteSet(1..stats.PacketID)
    BY <2>1, FS_Interval
  <2> QED BY <2>2, FS_Subset
<1> HIDE DEF missing
<1>4. Cardinality(missing) \in Nat /\ (Cardinality(missing) = 0 <=> missing = {})
  BY <1>3, FS_CardinalityType, FS_EmptySet
<1> QED BY <1>1, <1>2, <1>4 DEF Final

(***************************************************************************)
(* The handshake.                                                          *)
(***************************************************************************)
Answering == {"ack", "wait", "ended"}
Sending == {"send", "close"}

\* Before the client reads its counter there is no FIN, no server that answers and
\* no answer; afterwards every FIN, every server that answers and every answer
\* counts at least the client's packets.
FinInv ==
  /\ cntDatagrams <= packetID + 1
  /\ client \in Sending =>
       /\ \A m \in toServer : m >= 0
       /\ server \notin Answering /\ toClient = {} /\ relayed = NoReport
  /\ client \notin Sending =>
       /\ finID < IdLimit /\ finID >= -IdLimit
       /\ \A m \in toServer : m < 0 => Read(m) >= finID
       /\ server \in Answering => stats.PacketID >= finID
       /\ \A a \in toClient : a.datagrams >= finID
       /\ relayed # NoReport => relayed.datagrams >= finID

HandshakeInv == packetID <= IdLimit /\ ~failedRead => FinInv

LEMMA StepHandshake ==
  ASSUME StreamTypeOK, HandshakeInv, [StreamNext]_streamVars
  PROVE  HandshakeInv'
<1> SUFFICES ASSUME packetID' <= IdLimit, ~failedRead' PROVE FinInv'
  BY DEF HandshakeInv
<1>a. ~failedRead /\ ~RecvFails
  BY DEF StreamNext, ClientNext, SendData, ReportSent, CloseStream, ReadCounter, WriteFin,
         AwaitAck, EndStream, AcceptDatagram, Recv, RecvFails, WriteAck, AwaitAgain, ServerEnd,
         streamVars, serverVars
<1>0. IdLimit \in Nat \ {0} /\ packetID \in Nat /\ cntDatagrams \in Nat /\ finID \in Int
  BY UdpStreamAssumption DEF StreamTypeOK
<1>1. CASE SendData
  <2>1. packetID' = packetID + 1 /\ client = "send" /\ toServer' = toServer \cup {Id(packetID)}
        /\ UNCHANGED <<client, cntDatagrams, finID, relayed, toClient, server, stats>>
    BY <1>1 DEF SendData, serverVars
  <2>2. FinInv /\ Id(packetID) = packetID
    BY <1>0, <1>a, <2>1 DEF HandshakeInv, Id
  <2> QED BY <1>0, <2>1, <2>2 DEF FinInv, Sending
<1>2. packetID' = packetID => FinInv
  BY <1>a DEF HandshakeInv
<1>3. CASE ReportSent
  <2>1. UNCHANGED <<client, packetID, finID, relayed, toServer, toClient, server, stats>>
        /\ cntDatagrams' = cntDatagrams + 1
        /\ cntDatagrams < packetID + (IF client = "send" THEN 0 ELSE 1)
    BY <1>3 DEF ReportSent, serverVars
  <2> QED BY <1>0, <1>2, <2>1 DEF FinInv
<1>4. CASE CloseStream
  <2>1. client = "send" /\ client' = "close"
        /\ UNCHANGED <<packetID, cntDatagrams, finID, relayed, toServer, toClient, server, stats>>
    BY <1>4 DEF CloseStream, serverVars
  <2> QED BY <1>2, <2>1 DEF FinInv, Sending
<1>5. CASE ReadCounter
  <2>1. client = "close" /\ client' = "fin" /\ finID' = Id(cntDatagrams)
        /\ UNCHANGED <<packetID, cntDatagrams, relayed, toServer, toClient, server, stats>>
    BY <1>5 DEF ReadCounter, serverVars
  <2>2. FinInv
    BY <1>2, <2>1
  <2>3. cntDatagrams <= IdLimit + 1
    BY <1>0, <2>1, <2>2 DEF FinInv
  <2>4. finID' < IdLimit /\ finID' >= -IdLimit
    BY <1>0, <2>1, <2>3 DEF Id
  <2>5. \A m \in toServer : ~(m < 0)
    BY <2>1, <2>2 DEF FinInv, Sending, StreamTypeOK
  <2> QED BY <2>1, <2>2, <2>4, <2>5 DEF FinInv, Sending
<1>6. CASE WriteFin
  <2>1. client = "fin" /\ client' = "await" /\ toServer' = toServer \cup {Negated(finID)}
        /\ UNCHANGED <<packetID, cntDatagrams, finID, relayed, toClient, server, stats>>
    BY <1>6 DEF WriteFin, serverVars
  <2>2. FinInv /\ finID < IdLimit /\ finID >= -IdLimit
    BY <1>2, <2>1 DEF FinInv, Sending
  <2>3. Negated(finID) < 0 => Read(Negated(finID)) >= finID
    BY <1>0, <2>2 DEF Negated, Read
  <2> QED BY <2>1, <2>2, <2>3 DEF FinInv, Sending
<1>7. CASE AwaitAck
  <2>1. client = "await" /\ client' \in {"fin", "end"}
        /\ (relayed' = relayed \/ relayed' \in toClient)
        /\ UNCHANGED <<packetID, cntDatagrams, finID, toServer, toClient, server, stats>>
    BY <1>7 DEF AwaitAck, serverVars
  <2> QED BY <1>2, <2>1 DEF FinInv, Sending
<1>8. CASE EndStream
  <2>1. client = "end" /\ client' = "done"
        /\ UNCHANGED <<packetID, cntDatagrams, finID, relayed, toServer, toClient, server, stats>>
    BY <1>8 DEF EndStream, serverVars
  <2> QED BY <1>2, <2>1 DEF FinInv, Sending
<1>9. ASSUME NEW m \in toServer, AcceptDatagram(m)
      PROVE  FinInv'
  <2>1. server' = "recv"
        /\ UNCHANGED <<client, packetID, cntDatagrams, finID, relayed, toServer, toClient, stats>>
    BY <1>9 DEF AcceptDatagram, clientVars
  <2> QED BY <1>2, <2>1 DEF FinInv, Answering
<1>10. ASSUME NEW m \in toServer, Recv(m)
       PROVE  FinInv'
  <2>1. server = "recv" /\ server' = (IF m < 0 THEN "ack" ELSE "recv")
        /\ UNCHANGED <<client, packetID, cntDatagrams, finID, relayed, toServer, toClient>>
    BY <1>10 DEF Recv, clientVars
  <2>2. FinInv /\ m \in Int /\ ReportId(m)
    BY <1>2, <1>10, <2>1 DEF Recv, StreamTypeOK
  <2>3. CASE m < 0
    <3>1. client \notin Sending
      BY <2>2, <2>3 DEF FinInv
    <3>2. Read(m) >= finID
      BY <2>2, <2>3, <3>1 DEF FinInv
    <3>3. /\ stats' = Counted(stats, Read(m)) /\ stats \in Stats
          /\ Read(m) \in Int /\ stats' \in Stats
      BY <2>2, ReportFacts
    <3>4. stats'.PacketID >= Read(m) /\ stats'.PacketID \in Nat
      BY <3>3, CountedType DEF Stats
    <3>5. stats'.PacketID >= finID
      BY <1>0, <3>2, <3>3, <3>4
    <3> QED BY <2>1, <2>2, <3>1, <3>5 DEF FinInv
  <2>4. CASE ~(m < 0)
    BY <2>1, <2>2, <2>4 DEF FinInv, Answering
  <2> QED BY <2>3, <2>4
<1>11. CASE WriteAck
  <2>1. server = "ack" /\ server' = "wait" /\ toClient' = toClient \cup {Final(stats)}
        /\ UNCHANGED <<client, packetID, cntDatagrams, finID, relayed, toServer, stats>>
    BY <1>11 DEF WriteAck, clientVars
  <2>2. FinInv /\ client \notin Sending /\ stats.PacketID >= finID
    BY <1>2, <2>1 DEF FinInv, Answering
  <2>3. Final(stats).datagrams = stats.PacketID
    BY FinalType DEF StreamTypeOK, Stats
  <2> QED BY <2>1, <2>2, <2>3 DEF FinInv, Answering
<1>12. CASE AwaitAgain
  <2>1. server = "wait" /\ server' \in {"ack", "ended"}
        /\ UNCHANGED <<client, packetID, cntDatagrams, finID, relayed, toServer, toClient, stats>>
    BY <1>12 DEF AwaitAgain, clientVars
  <2> QED BY <1>2, <2>1 DEF FinInv, Answering
<1>13. CASE ServerEnd
  <2>1. server' = "none"
        /\ UNCHANGED <<client, packetID, cntDatagrams, finID, relayed, toServer, toClient>>
    BY <1>13 DEF ServerEnd, clientVars
  <2> QED BY <1>2, <2>1 DEF FinInv, Answering
<1>14. CASE UNCHANGED streamVars
  BY <1>2, <1>14 DEF FinInv, streamVars, clientVars, serverVars
<1> QED BY <1>a, <1>1, <1>3, <1>4, <1>5, <1>6, <1>7, <1>8, <1>9, <1>10, <1>11, <1>12,
           <1>13, <1>14 DEF StreamNext, ClientNext

(***************************************************************************)
(* Theorems.                                                               *)
(***************************************************************************)
\* Type correctness of the UDP test: the counters of reporter_handle_packet and the
\* figures that write_UDP_AckFIN sends stay natural numbers, in every order of arrival.
THEOREM StreamTypeCorrect == StreamSpec => []StreamTypeOK
<1>1. StreamInit => StreamTypeOK
  BY InitStreamType
<1>2. StreamTypeOK /\ [StreamNext]_streamVars => StreamTypeOK'
  BY StepStreamType
<1> QED BY <1>1, <1>2, PTL DEF StreamSpec

\* Before a datagram nothing was received, nothing is missing and no FIN is on the way.
LEMMA InitLoss == StreamInit => LossInv
<1> SUFFICES ASSUME StreamInit PROVE LossInv
  OBVIOUS
<1>1. stats = NoStats /\ got = {}
  BY DEF StreamInit
<1>2. (1..0) \ {} = {} /\ Cardinality({}) = 0
  BY FS_EmptySet
<1> QED BY <1>1, <1>2 DEF LossInv, Missing, NoStats

LEMMA InitHandshake == StreamInit => HandshakeInv
BY DEF StreamInit, HandshakeInv, FinInv, Sending, Answering

LEMMA StreamFacts ==
  /\ StreamTypeOK /\ LossInv => LossCounted
  /\ HandshakeInv => RelayedFinal
BY LossReported DEF HandshakeInv, FinInv, RelayedFinal, Sending, Answering

\* The lost datagrams that reporter_condprintstats prints and write_UDP_AckFIN relays
\* are the ids that are missing, in every order of arrival in which none comes twice
\* and for every server of the Listener; but when none is missing, each datagram that
\* came late is reported as lost.
THEOREM StreamLossCounted == StreamSpec => []LossCounted
<1> DEFINE I == StreamTypeOK /\ LossInv
<1>1. StreamInit => I
  BY InitStreamType, InitLoss
<1>2. I /\ [StreamNext]_streamVars => I'
  BY StepStreamType, StepLoss
<1>3. I => LossCounted
  BY StreamFacts
<1> QED BY <1>1, <1>2, <1>3, PTL DEF StreamSpec

\* The FIN handshake (write_UDP_FIN, write_UDP_AckFIN) ends a test once and with its
\* last figures, whatever the network loses, repeats or reorders and however many
\* servers answer, as long as the ids fit into the field and no read of a server fails.
THEOREM StreamRelayedFinal == StreamSpec => []RelayedFinal
<1> DEFINE I == StreamTypeOK /\ HandshakeInv
<1>1. StreamInit => I
  BY InitStreamType, InitHandshake
<1>2. I /\ [StreamNext]_streamVars => I'
  BY StepStreamType, StepHandshake
<1>3. I => RelayedFinal
  BY StreamFacts
<1> QED BY <1>1, <1>2, <1>3, PTL DEF StreamSpec
=============================================================================
