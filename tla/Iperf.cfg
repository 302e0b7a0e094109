SPECIFICATION IperfSpec
CONSTANTS
  N = 4
  StoresInOrder = TRUE
  MaxPackets = 9
  IdLimit = 3
  Tries = 2
  MaxData = 3
  MaxReads = 3
  MaxServers = 2
  Tests <- CommandLines
  MaxConns = 1
  MaxAsked = 1
  MaxSignals = 1
INVARIANTS
  IperfTypeOK
  NoOverwrite
  FreedEnded
  LossCounted
  RelayedFinal
  CountExact
  JoinWaits
  TradeoffServed
PROPERTIES
  QueueOrder
  ReportEnds
  StreamEnds
  MainReturns
CHECK_DEADLOCK FALSE
