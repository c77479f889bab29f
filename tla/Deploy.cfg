CONSTANTS
  Ids = {i1}
  Apps = {a1, a2, a3}
  Callers = {c1, c2}
  Ops = {"Spawn", "Stop", "Deploy"}
  CrashLoopThreshold = 1
  HealthCheckFailureThreshold = 2
  HealthEnabled = FALSE
  CanKill = TRUE
  StartMayFail = FALSE
  RouterMayFail = FALSE
  SerialReset = TRUE
  MaxFaults = 1
  MaxRestarts = 0
  MaxResets = 0
  NULL = NULL
SPECIFICATION Spec
CHECK_DEADLOCK FALSE
SYMMETRY Symm
INVARIANTS NoOrphan
PROPERTIES SwapRenamesOwnV2
