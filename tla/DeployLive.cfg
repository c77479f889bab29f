CONSTANTS
  Ids = {i1}
  Apps = {a1, a2}
  Callers = {c1, c2}
  Ops = {"Spawn", "Stop", "Deploy"}
  CrashLoopThreshold = 1
  HealthCheckFailureThreshold = 2
  HealthEnabled = FALSE
  CanKill = TRUE
  StartMayFail = FALSE
  RouterMayFail = TRUE
  SerialReset = TRUE
  MaxFaults = 2
  MaxRestarts = 0
  MaxResets = 0
  NULL = NULL
SPECIFICATION FairSpec
CHECK_DEADLOCK FALSE
INVARIANTS IsolationOutlivesProcess
PROPERTIES CallsReturn
