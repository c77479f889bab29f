CONSTANTS
  Ids = {i1}
  Apps = {a1, a2}
  Callers = {c1, c2}
  Ops = {"Spawn", "Stop", "Restart", "Reset"}
  CrashLoopThreshold = 1
  HealthCheckFailureThreshold = 2
  HealthEnabled = FALSE
  CanKill = TRUE
  StartMayFail = FALSE
  RouterMayFail = FALSE
  SerialReset = TRUE
  MaxFaults = 4
  MaxRestarts = 2
  MaxResets = 2
  NULL = NULL
SPECIFICATION Spec
CHECK_DEADLOCK FALSE
SYMMETRY Symm
INVARIANTS RegisteredIsSupervised NoDoubleClose StopWaitsForSomeone
PROPERTIES StartAfterReap PromiseSpec
