SPECIFICATION ToolFairSpec
CONSTANTS
  Parts = {"logger", "mtp", "boot", "rotation"}
  MaxRunnables = 3
  RemoteKeys <- TcpdumpKey
  ForceOrder <- ModemTcpdump
  Modem = "modem"
  Tcpdump = "tcpdump"
  UserBuild = TRUE
  Reminder = TRUE
  Levels = {"ok"}
  MaxTasks = 0
  MaxDeaths = 0
  LogCats <- MainCat
  FlagOrder <- MainKey
  MaxToggles = 0
  MaxMoves = 1
  RotateNums = {3, 4, 6}
  MayShrink = FALSE
  EchoFails = FALSE
  MaxGen = 14
  MaxCrash = 2
INVARIANTS
  ToolTypeOK
  LoggersMatch
  KeepsNewest
PROPERTIES
  ClosedEnds
  MtpFollows
  RootFollowed
  ImplementsBoundedLog
CHECK_DEADLOCK FALSE
