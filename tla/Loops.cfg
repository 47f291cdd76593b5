CONSTANTS
  Loop = {"k"}
  Mount = {1, 2}
  Editor = {"e"}
  Cadence <- EveryInterval
  Halt <- Twice
  Gated = {"k"}
  Threshold = 1
  FailLimit = 2
  HardCap = 3
  Edits <- AllEdits
  MaxEdits = 2
  MaxTime = 5
SPECIFICATION FairSpec
INVARIANTS
  Counted
  Bounded
  LastWordKept
  LateFires
PROPERTIES
  Spaced
  DueFires
CHECK_DEADLOCK FALSE
