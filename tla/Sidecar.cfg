CONSTANTS
  App = {a1, a2}
  Call = {k1, k2, k3}
  Brain = {b1, b2}
  Sidecar = {c1, c2}
  None = None
  MaxFaults = 1
SPECIFICATION Spec
SYMMETRY Symmetric
INVARIANTS
  OneSidecarPerApp
  SpawnExclusive
  RecordFindsIt
  ExitKills
CHECK_DEADLOCK FALSE
