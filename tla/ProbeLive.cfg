CONSTANTS
  Ids = {i1}
  Apps = {a1}
  Callers = {c1}
  Ops = {"Spawn", "Stop", "Reset"}
  CrashLoopThreshold = 1
  HealthCheckFailureThreshold = 2
  HealthEnabled = TRUE
  CanKill = TRUE
  StartMayFail = FALSE
  RouterMayFail = FALSE
  SerialReset = TRUE
  MaxFaults = 3
  MaxRestarts = 0
  MaxResets = 1
  NULL = NULL
SPECIFICATION FairSpec
CHECK_DEADLOCK FALSE
PROPERTIES ProbeEnds CrashIsHandled
