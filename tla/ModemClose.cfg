SPECIFICATION Spec
CONSTANTS
  Actions = {"start"}
  AutoPcm = FALSE
  I2cDelay <- OneDelayed
  MaxTime = 2
  Faults = FALSE
  MaxStart = 2
  MaxText = 1
PROPERTIES
  NormalClose
CHECK_DEADLOCK FALSE
