SPECIFICATION Spec
CONSTANTS
  Actions = {"i2c"}
  AutoPcm = FALSE
  I2cDelay <- TwoDelayed
  MaxTime = 2
  Faults = FALSE
  MaxStart = 1
  MaxText = 2
PROPERTIES
  DelayedCheckIsOwn
CHECK_DEADLOCK FALSE
