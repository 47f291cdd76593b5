CONSTANTS
  Rails <- Engines
  MaxPauses = 2
SPECIFICATION FairSpec
INVARIANTS
  ReviewKeepsWorktree
  NoWorktreeLeak
  EarlyStopHonoured
  OutcomeTrue
PROPERTIES
  OneProcess
  QuietDiscard
  SilenceEnds
  EarlyStopEnds
CHECK_DEADLOCK FALSE
