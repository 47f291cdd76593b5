CONSTANTS
  Job <- Fleet
  Id <- Fleet
  Pool = {"cli", "byok"}
  IdOf <- FleetId
  PoolOf <- FleetPool
  Prio <- FleetPrio
  Own = {"a", "b", "c", "f"}
  Cloud = {"f"}
  Checked = {"c"}
  Metered = {"b"}
  PoolCap <- FleetCap
  GlobalCap = 2
  Remote = {}
  Walled = {"a"}
  MaxWorse = 1
SPECIFICATION Spec
INVARIANTS
  SlotsAccounted
  PoolCapKept
  GlobalCapKept
  ActiveHonest
PROPERTIES
  NoOvertaking
CHECK_DEADLOCK FALSE
