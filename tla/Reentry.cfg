CONSTANTS
  Node = {"a", "b", "c"}
  Spare = {"v1"}
  Kind <- ChainKind
  Edge0 <- ChainEdges
  Branches <- NoBranches
  Critical = {"a", "b", "c"}
  MaxAttempts <- ChainMax
  Explicit = {"c"}
  Schema = {}
  Width <- ChainWidth
  Predicate = {}
  FirstSuccess = {}
  Word = {}
  Cost = {1}
  Limit <- MCNoLimit
  MaxReplans = 1
  MaxParallel = 1
  Diagnosis <- TestFailure
  HasSignal = FALSE
  MaxResumes = 1
SPECIFICATION Spec
INVARIANTS
  DepsDone
  BoundaryQuiet
  NoEmptyWorktree
PROPERTIES
  RequestsObeyed
  RunsAsDag
CHECK_DEADLOCK FALSE
