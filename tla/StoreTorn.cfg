CONSTANTS
  Failures = {"torn"}
  Legacy = FALSE
  MaxWrites = 2
  MaxFailures = 0
  MaxCrashes = 1
SPECIFICATION FairSpec
CHECK_DEADLOCK FALSE
PROPERTIES BootRecovers
