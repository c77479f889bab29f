CONSTANTS
  Failures = {"pending", "write", "replay"}
  Legacy = FALSE
  MaxWrites = 4
  MaxFailures = 2
  MaxCrashes = 3
SPECIFICATION Spec
CHECK_DEADLOCK FALSE
INVARIANTS Durable RejectedStaysOut CacheMatchesDisk
PROPERTIES PromiseSpec
