CONSTANTS
  Node = {"a", "b", "c", "d"}
  Spare = {"v1", "v2"}
  Kind <- DiamondKind
  Edge0 <- DiamondEdges
  Branches <- NoBranches
  Critical = {"a", "c", "d"}
  MaxAttempts <- DiamondMax
  Explicit = {}
  Schema = {"c"}
  Width <- DiamondWidth
  Predicate = {}
  FirstSuccess = {}
  Word = {}
  Cost = {1}
  Limit = 4
  MaxReplans = 2
  MaxParallel = 0
  Diagnosis <- AllDiagnoses
  HasSignal = FALSE
  MaxResumes = 0
SPECIFICATION Spec
INVARIANTS
  TypeOK
  PatchedDepsDone
  Acyclic
  RetriesBounded
PROPERTIES
  WaveWithinBudget
CHECK_DEADLOCK FALSE
