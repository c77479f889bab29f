CONSTANTS
  Ids = {i1}
  Apps = {a1}
  Callers = {c1, c2}
  Ops = {"Spawn", "Stop"}
  CrashLoopThreshold = 1
  HealthCheckFailureThreshold = 2
  HealthEnabled = FALSE
  CanKill = FALSE
  StartMayFail = TRUE
  RouterMayFail = FALSE
  SerialReset = TRUE
  MaxFaults = 2
  MaxRestarts = 0
  MaxResets = 0
  NULL = NULL
SPECIFICATION FairSpec
CHECK_DEADLOCK FALSE
PROPERTIES CallsReturn
