CONSTANTS
  Ids = {i1}
  Apps = {a1}
  Callers = {c1, c2}
  Ops = {"Spawn", "Reset"}
  CrashLoopThreshold = 0
  HealthCheckFailureThreshold = 2
  HealthEnabled = FALSE
  CanKill = TRUE
  StartMayFail = FALSE
  RouterMayFail = FALSE
  SerialReset = FALSE
  MaxFaults = 3
  MaxRestarts = 0
  MaxResets = 3
  NULL = NULL
SPECIFICATION Spec
CHECK_DEADLOCK FALSE
INVARIANT NoDoubleClose
