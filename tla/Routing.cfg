CONSTANTS
  Node = {"a", "r", "x", "y", "k", "f", "i"}
  Spare = {"v1"}
  Kind <- RouteKind
  Edge0 <- RouteEdges
  Branches <- RouteTo
  Critical = {"a", "r", "x", "y", "k", "i"}
  MaxAttempts <- RouteMax
  Explicit = {}
  Schema = {}
  Width <- RouteWidth
  Predicate = {}
  FirstSuccess = {}
  Word = {"w", "u"}
  Cost = {1}
  Limit <- MCNoLimit
  MaxReplans = 1
  MaxParallel = 0
  Diagnosis <- Infrastructure
  HasSignal = FALSE
  MaxResumes = 0
SPECIFICATION Spec
INVARIANTS
  ConditionsHonoured
  OneBranchTaken
CHECK_DEADLOCK FALSE
