SPECIFICATION LogsSpec
CONSTANTS
  RemoteKeys <- TcpdumpKey
  ForceOrder <- ModemTcpdump
  Modem = "modem"
  Tcpdump = "tcpdump"
  UserBuild = TRUE
  Reminder = TRUE
  Levels = {"close", "low", "ok"}
  MaxTasks = 0
  MaxDeaths = 1
  NumDevices = 2
  MergeOptions <- Options
  MaxEntries = 3
  MaxClears = 1
  MaxBytes = 5
INVARIANTS
  LogsTypeOK
  PrintsInOrder
  KmsgLosesLittle
PROPERTIES
  DiskLowCloses
  AllPrinted
CHECK_DEADLOCK FALSE
