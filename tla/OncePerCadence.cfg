CONSTANTS
  Loop = {"k"}
  Mount = {1}
  Editor = {"e"}
  Cadence <- EveryOther
  Halt <- Twice
  Gated = {"k"}
  Threshold = 1
  FailLimit = 2
  HardCap = 3
  Edits = {"freeze"}
  MaxEdits = 1
  MaxTime = 5
SPECIFICATION Spec
PROPERTIES
  OncePerCadence
CHECK_DEADLOCK FALSE
