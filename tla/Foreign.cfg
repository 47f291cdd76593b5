CONSTANTS
  Job <- Mixed
  Id <- Mixed
  Pool = {"cli", "byok"}
  IdOf <- MixedId
  PoolOf <- MixedPool
  Prio <- MixedPrio
  Own = {"a", "c"}
  Cloud = {}
  Checked = {}
  Metered = {}
  PoolCap <- MixedCap
  GlobalCap = 2
  Remote = {}
  Walled = {}
  MaxWorse = 0
SPECIFICATION Spec
INVARIANTS
  HeldWhileRunning
CHECK_DEADLOCK FALSE
