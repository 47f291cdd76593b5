CONSTANTS
  Rails <- Engines
  MaxPauses = 1
SPECIFICATION Spec
PROPERTIES
  PauseWaits
CHECK_DEADLOCK FALSE
