CONSTANTS
  Job <- Mixed
  Id <- Mixed
  Pool = {"cli", "byok"}
  IdOf <- MixedId
  PoolOf <- MixedPool
  Prio <- MixedPrio
  Own = {"a", "c"}
  Cloud = {"c"}
  Checked = {"c"}
  Metered = {"a"}
  PoolCap <- MixedCap
  GlobalCap = 1
  Remote = {"m"}
  Walled = {"a"}
  MaxWorse = 1
SPECIFICATION FairSpec
PROPERTIES
  QueuedLaunch
CHECK_DEADLOCK FALSE
