----------------------------- MODULE UdpStream -----------------------------
(***************************************************************************)
(* One UDP test of iperf between a client and a Listener with its servers: *)
(* the numbered datagrams of Client::Run, the terminating datagram (FIN)   *)
(* that write_UDP_FIN repeats until it is acknowledged, the server's       *)
(* write_UDP_AckFIN, which carries the statistics back, and the loss       *)
(* counting of reporter_handle_packet.                                     *)
(*                                                                         *)
(* The network loses, duplicates, delays and reorders: what was sent stays *)
(* in transit and may arrive any number of times, or never.  A datagram is *)
(* the number in its id field.  The agents' reports are the queues of      *)
(* PacketQueue: the server's statistics are read after GetReport has       *)
(* waited for all packets, while the client reads the counter of its       *)
(* reporter at whatever value it has.                                      *)
(***************************************************************************)
EXTENDS Integers, FiniteSets

CONSTANTS
  IdLimit,      \* 2^31: the id field is a signed 32-bit number
  Tries,        \* 10: how often write_UDP_FIN and write_UDP_AckFIN send
  MaxData,      \* bound: datagrams before the FIN
  MaxReads,     \* bound: datagrams a server reads
  MaxServers    \* bound: servers the Listener starts

ASSUME UdpStreamAssumption ==
  /\ IdLimit \in Nat \ {0} /\ Tries \in Nat \ {0} /\ MaxData \in Nat \ {0}
  /\ MaxReads \in Nat /\ MaxServers \in Nat

VARIABLES
  client,       \* "send", "close", "fin", "await", "end" or "done"
  packetID,     \* datagrams sent
  cntDatagrams, \* what the client's reporter has counted
  finID,        \* the id of the FIN, negated
  finCount,        \* FINs sent
  relayed,      \* the server's report, as the client received it
  toServer, toClient,   \* in transit to the Listener's host, and back
  server,       \* "none", "recv", "ack", "wait" or "ended"
  mBuf,         \* the id field in the server's buffer, while it reads
  stats,        \* the reporter's counters for the server
  got,          \* history: the ids the server reported, and whether one came twice
  twice,
  failedRead,   \* history: a read of some server failed
  reads, ackCount,
  servers       \* servers started

clientVars == <<client, packetID, cntDatagrams, finID, finCount, relayed>>
serverVars == <<server, mBuf, stats, got, twice, failedRead, reads, ackCount, servers>>
streamVars == <<clientVars, toServer, toClient, serverVars>>

NoReport == [datagrams |-> -1, lost |-> 0, outOfOrder |-> 0]
NoStats == [PacketID |-> 0, cntError |-> 0, cntOutofOrder |-> 0]

\* A number in the id field, and its negation.
Id(n) == IF n < IdLimit THEN n ELSE n - 2 * IdLimit
Negated(m) == IF m = -IdLimit THEN m ELSE -m
Ids == (-IdLimit)..(IdLimit - 1)

StreamInit ==
  /\ client = "send" /\ packetID = 0 /\ cntDatagrams = 0 /\ finID = 0 /\ finCount = 0
  /\ relayed = NoReport
  /\ toServer = {} /\ toClient = {}
  /\ server = "none" /\ mBuf = 0 /\ failedRead = FALSE
  /\ stats = NoStats /\ got = {} /\ twice = FALSE
  /\ reads = 0 /\ ackCount = 0 /\ servers = 0

(***************************************************************************)
(* The client.                                                             *)
(***************************************************************************)
\* The loop of Client::Run: a datagram is written and reported.
SendData ==
  /\ client = "send" /\ packetID < MaxData
  /\ toServer' = toServer \cup {Id(packetID)}
  /\ packetID' = packetID + 1
  /\ UNCHANGED <<client, cntDatagrams, finID, finCount, relayed, toClient, serverVars>>

\* The client's reporter handles a packet, the closing one too.
ReportSent ==
  /\ cntDatagrams < packetID + (IF client = "send" THEN 0 ELSE 1)
  /\ cntDatagrams' = cntDatagrams + 1
  /\ UNCHANGED <<client, packetID, finID, finCount, relayed, toServer, toClient, serverVars>>

\* The time is over: CloseReport puts the closing packet into the ring ...
CloseStream ==
  /\ client = "send" /\ packetID > 0
  /\ client' = "close"
  /\ UNCHANGED <<packetID, cntDatagrams, finID, finCount, relayed, toServer, toClient, serverVars>>

\* ... and then sets packetID to the reporter's counter, without a lock.
ReadCounter ==
  /\ client = "close"
  /\ finID' = Id(cntDatagrams)
  /\ client' = "fin"
  /\ UNCHANGED <<packetID, cntDatagrams, finCount, relayed, toServer, toClient, serverVars>>

WriteFin ==
  /\ client = "fin" /\ finCount < Tries
  /\ toServer' = toServer \cup {Negated(finID)}
  /\ finCount' = finCount + 1
  /\ client' = "await"
  /\ UNCHANGED <<packetID, cntDatagrams, finID, relayed, toClient, serverVars>>

\* select: a timeout, an acknowledgement, or a refused connection.
AwaitAck ==
  /\ client = "await"
  /\ \/ client' = (IF finCount < Tries THEN "fin" ELSE "end") /\ UNCHANGED relayed
     \/ \E a \in toClient : relayed' = a /\ client' = "end"
     \/ client' = "end" /\ UNCHANGED relayed
  /\ UNCHANGED <<packetID, cntDatagrams, finID, finCount, toServer, toClient, serverVars>>

\* EndReport waits until the closing packet is handled.
EndStream ==
  /\ client = "end" /\ cntDatagrams = packetID + 1
  /\ client' = "done"
  /\ UNCHANGED <<packetID, cntDatagrams, finID, finCount, relayed, toServer, toClient, serverVars>>

ClientNext == CloseStream \/ ReadCounter \/ WriteFin \/ AwaitAck \/ EndStream

(***************************************************************************)
(* The Listener and its server.                                            *)
(***************************************************************************)
\* Accept: a datagram of an unknown peer that is no FIN starts a server, and is
\* itself not counted.  A server that is not "none" owns the connected socket.
AcceptDatagram(m) ==
  /\ server = "none" /\ m \in toServer /\ m >= 0
  /\ servers < MaxServers
  /\ servers' = servers + 1
  /\ server' = "recv"
  /\ UNCHANGED <<clientVars, toServer, toClient, mBuf, stats, got, twice, failedRead, reads, ackCount>>

\* Mutant: the datagram that arrived counts as lost too.
CountedGap(s, p) ==
  IF p <= 0 THEN s
  ELSE [PacketID |-> IF p > s.PacketID THEN p ELSE s.PacketID,
        cntError |-> s.cntError + (IF p > s.PacketID + 1 THEN p - s.PacketID ELSE 0),
        cntOutofOrder |-> s.cntOutofOrder + (IF p < s.PacketID + 1 THEN 1 ELSE 0)]

\* reporter_handle_packet: the packet p is counted.  Neither a packet without an
\* id nor a closing one is.
Counted(s, p) ==
  IF p <= 0 THEN s
  ELSE [PacketID |-> IF p > s.PacketID THEN p ELSE s.PacketID,
        cntError |-> s.cntError + (IF p > s.PacketID + 1 THEN p - s.PacketID - 1 ELSE 0),
        cntOutofOrder |-> s.cntOutofOrder + (IF p < s.PacketID + 1 THEN 1 ELSE 0)]

\* ReportPacket of the datagram whose id field is m; a negative one is negated.
ReportId(m) ==
  LET p == IF m < 0 THEN Negated(m) ELSE m
  IN /\ stats' = Counted(stats, p)
     /\ got' = got \cup (IF p > 0 THEN {p} ELSE {})
     /\ twice' = (twice \/ p \in got)

\* Mutant: the id 0 of a first datagram is taken for a negative one.
RecvZeroEnds(m) ==
  /\ server = "recv" /\ m \in toServer /\ reads < MaxReads
  /\ reads' = reads + 1 /\ mBuf' = IF m < 0 THEN 0 ELSE m
  /\ ReportId(m)
  /\ server' = IF m <= 0 THEN "ack" ELSE "recv"
  /\ UNCHANGED <<clientVars, toServer, toClient, failedRead, ackCount, servers>>

\* The loop of Server::Run: a datagram is read and reported; a FIN is the last.
Recv(m) ==
  /\ server = "recv" /\ m \in toServer /\ reads < MaxReads
  /\ reads' = reads + 1 /\ mBuf' = IF m < 0 THEN 0 ELSE m
  /\ ReportId(m)
  /\ server' = IF m < 0 THEN "ack" ELSE "recv"
  /\ UNCHANGED <<clientVars, toServer, toClient, failedRead, ackCount, servers>>

\* recv fails or returns no data: what the buffer holds is reported once more, the
\* last datagram or, before the first one, whatever new char[] returned, and the
\* loop ends as on a FIN.  Bounds: it befalls the last server, and at most its first
\* MaxReads - 1 reads.
RecvFails ==
  /\ server = "recv" /\ servers = MaxServers /\ reads + 1 < MaxReads
  /\ \E m \in (IF reads = 0 THEN Ids ELSE {mBuf}) : ReportId(m)
  /\ server' = "ack" /\ failedRead' = TRUE /\ mBuf' = 0
  /\ UNCHANGED <<clientVars, toServer, toClient, reads, ackCount, servers>>

\* reporter_condprintstats for the last report: out-of-order datagrams are taken
\* off the lost ones only when there are fewer of them.
Final(s) ==
  [datagrams  |-> s.PacketID,
   lost       |-> IF s.cntError > s.cntOutofOrder THEN s.cntError - s.cntOutofOrder ELSE s.cntError,
   outOfOrder |-> s.cntOutofOrder]

\* write_UDP_AckFIN: GetReport, and the report is sent.
WriteAck ==
  /\ server = "ack" /\ ackCount < Tries
  /\ toClient' = toClient \cup {Final(stats)}
  /\ ackCount' = ackCount + 1
  /\ server' = "wait"
  /\ UNCHANGED <<clientVars, toServer, mBuf, stats, got, twice, failedRead, reads, servers>>

\* Mutant: only a timeout ends the server.
AwaitAgainForever ==
  /\ server = "wait"
  /\ \/ server' = "ended" /\ toServer = {}
     \/ toServer # {} /\ server' = (IF ackCount < Tries THEN "ack" ELSE "wait")
  /\ UNCHANGED <<clientVars, toServer, toClient, mBuf, stats, got, twice, failedRead, reads, ackCount, servers>>

\* select: on a timeout the server ends; whatever arrives is taken for a FIN that
\* came again.
AwaitAgain ==
  /\ server = "wait"
  /\ \/ server' = "ended"
     \/ toServer # {} /\ server' = (IF ackCount < Tries THEN "ack" ELSE "ended")
  /\ UNCHANGED <<clientVars, toServer, toClient, mBuf, stats, got, twice, failedRead, reads, ackCount, servers>>

\* The entry in clients is deleted, the report freed and the socket closed; from
\* now on datagrams of the peer reach the Listener again.
ServerEnd ==
  /\ server = "ended"
  /\ server' = "none"
  /\ mBuf' = 0 /\ stats' = NoStats /\ got' = {} /\ twice' = FALSE
  /\ reads' = 0 /\ ackCount' = 0
  /\ UNCHANGED <<clientVars, toServer, toClient, failedRead, servers>>

StreamNext ==
  \/ SendData \/ ReportSent \/ ClientNext
  \/ \E m \in toServer : AcceptDatagram(m) \/ Recv(m)
  \/ RecvFails \/ WriteAck \/ AwaitAgain \/ ServerEnd

\* Both programs run; nothing makes a datagram arrive.
StreamSpec ==
  /\ StreamInit /\ [][StreamNext]_streamVars
  /\ WF_streamVars(ReportSent) /\ WF_streamVars(ClientNext)
  /\ WF_streamVars(WriteAck \/ AwaitAgain \/ ServerEnd)

(***************************************************************************)
(* Properties.                                                             *)
(***************************************************************************)
\* Type invariant.
StreamTypeOK ==
  /\ client \in {"send", "close", "fin", "await", "end", "done"}
  /\ packetID \in Nat /\ cntDatagrams \in Nat /\ finID \in Int /\ finCount \in 0..Tries
  /\ relayed \in [datagrams : Int, lost : Nat, outOfOrder : Nat]
  /\ toServer \subseteq Int
  /\ toClient \subseteq [datagrams : Nat, lost : Nat, outOfOrder : Nat]
  /\ server \in {"none", "recv", "ack", "wait", "ended"}
  /\ stats \in [PacketID : Nat, cntError : Nat, cntOutofOrder : Nat]
  /\ mBuf \in Int /\ failedRead \in BOOLEAN
  /\ got \subseteq Nat \ {0} /\ twice \in BOOLEAN
  /\ reads \in Nat /\ ackCount \in 0..Tries /\ servers \in Nat

\* The lost datagrams that a server reports and relays, in every order of arrival
\* in which no id is reported twice: as many as there are ids missing -- but when
\* none is missing, as many as came late, because the late ones are taken off only
\* when there are fewer of them than were missed at first.
LossCounted ==
  LET missing == (1..stats.PacketID) \ got
  IN ~twice => Final(stats).lost = IF missing # {} THEN Cardinality(missing)
                                                   ELSE stats.cntOutofOrder

\* The handshake ends a test once and with its last figures: a server answers only
\* when the client has ended its test, and the report the client relays counts the
\* FIN, whichever server sent it -- unless the ids of the test ran out, or a server
\* gave up because its read failed, which makes it answer at any time.
RelayedFinal ==
  packetID <= IdLimit /\ ~failedRead =>
    /\ server \in {"ack", "wait", "ended"} => client \notin {"send", "close"}
    /\ relayed # NoReport => relayed.datagrams >= finID

\* A test ends on both sides: the client, whatever the network does to its FINs and
\* to the answers, and a server that has read a FIN, though every datagram makes it
\* answer again.
StreamEnds ==
  /\ (client = "close") ~> (client = "done")
  /\ (server = "ack") ~> (server = "none")
=============================================================================
