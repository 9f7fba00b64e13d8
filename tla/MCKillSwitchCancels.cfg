SPECIFICATION Spec
CONSTANTS
  MaxAttempts = 2
  MaxWrites = 2
  MaxRedeliveries = 0
  MaxClears = 0
  MaxExpiries = 0
CHECK_DEADLOCK FALSE
PROPERTIES
  KillSwitchCancels
