SPECIFICATION Spec
CONSTANTS
  Actions = {"start", "i2c", "other"}
  AutoPcm = FALSE
  I2cDelay <- OneDelayed
  MaxTime = 2
  Faults = TRUE
  MaxStart = 2
  MaxText = 1
INVARIANTS
  PortOwned
  Watched
CHECK_DEADLOCK FALSE
