CONSTANTS
  Node = {"e", "c", "j", "l", "p", "t"}
  Spare = {"v1"}
  Kind <- KindsKind
  Edge0 <- KindsEdges
  Branches <- NoBranches
  Critical = {"e", "c", "j", "l", "p", "t"}
  MaxAttempts <- KindsMax
  Explicit = {"c"}
  Schema = {}
  Width <- KindsWidth
  Predicate = {"p"}
  FirstSuccess = {}
  Word = {}
  Cost = {0}
  Limit <- MCNoLimit
  MaxReplans = 1
  MaxParallel = 0
  Diagnosis <- Infrastructure
  HasSignal = TRUE
  MaxResumes = 0
SPECIFICATION FairSpec
INVARIANTS
  ContestDoneDelivered
  NoStrayMission
  DoneMeansComplete
PROPERTIES
  Terminates
CHECK_DEADLOCK FALSE
