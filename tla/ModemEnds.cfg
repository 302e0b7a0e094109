SPECIFICATION FairSpec
CONSTANTS
  Actions = {"check", "i2c"}
  AutoPcm = TRUE
  I2cDelay <- DelayedThenNot
  MaxTime = 2
  Faults = FALSE
  MaxStart = 1
  MaxText = 6
INVARIANTS
  TypeOK
PROPERTIES
  SessionEnds
CHECK_DEADLOCK FALSE
