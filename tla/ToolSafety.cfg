SPECIFICATION ToolSpec
CONSTANTS
  Parts = {"control", "boot", "rotation"}
  MaxRunnables = 3
  RemoteKeys <- TcpdumpKey
  ForceOrder <- ModemTcpdump
  Modem = "modem"
  Tcpdump = "tcpdump"
  UserBuild = TRUE
  Reminder = TRUE
  Levels = {"close", "ok"}
  MaxTasks = 1
  MaxDeaths = 0
  LogCats <- MainKernel
  FlagOrder <- MainKernelOrder
  MaxToggles = 2
  MaxMoves = 0
  RotateNums = {1, 2, 4}
  MayShrink = TRUE
  EchoFails = TRUE
  MaxGen = 7
  MaxCrash = 2
INVARIANTS
  NoLogLost
  OnOnlyIfWanted
  RemovesOnlyWait
  LostToAnother
  Bounded
CHECK_DEADLOCK FALSE
