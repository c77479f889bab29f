CONSTANTS
  Failures = {"pending", "write", "dirsync", "readback", "rot", "commit", "rollback", "replay", "unsynced", "torn"}
  Legacy = TRUE
  MaxWrites = 6
  MaxFailures = 2
  MaxCrashes = 2
SPECIFICATION FairSpec
CHECK_DEADLOCK FALSE
INVARIANTS DiskNotBehind
PROPERTIES ReadableBootRecovers BootDecides
