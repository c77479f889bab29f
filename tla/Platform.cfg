CONSTANTS
  UidApps = {a, b}
  AppUIDBase = 2
  PinnedUids = {2}
  MaxHostUid = 3
  UidFaults = 1
  UidCrashes = 1
  NetIds = {i, j}
  NetApps = {x, y, z}
  Broadcast = 4
  NetFaults = 2
  NetCrashes = 1
  NoHolder = NoHolder
  VolIds = {v}
  VolDirs = {d, e}
  VolTargets = {t}
  VolApps = {a}
  VolCallers = {c1, c2}
  MaxInode = 2
  VolFaults = 1
  VolModes = {FALSE}
  Nobody = Nobody
  AuditMax = 2
  AuditKeep = 2
  AuditRecords = 8
  AuditFaults = 2
  AuditCrashes = 2
  LogMax = 1
  LogKeep = 1
  LogTail = 1
  LogLines = 3
  LogRestarts = 1
  LogFaults = 1
  Failures = {"pending", "write", "dirsync", "commit", "replay"}
  Legacy = FALSE
  MaxWrites = 2
  MaxFailures = 1
  MaxCrashes = 1
  BackupKeep = 1
  BackupMax = 2
  Releases = {1, 2}
  UpgradeRuns = 3
  UpgradeFaults = 3
  CondGets = {g1, g2}
  CondStatuses = {"running", "starting"}
  ProgressingTimeout = 1
  CondClock = 2
  CondReads = 3
  CondStops = 1
  Publishers = {p1, p2}
  OfTheApp = {p1}
  Watchers = {w1}
  EventBuffer = 1
  EventMax = 3
  ApiRequests = {1, 2}
  ApiVersions = 2
  ApiDeaths = 1
  CgApps = {a}
  CgAsked = {0, 1}
  CgDefault = 2
  CgFaults = 1
  CgBoots = 2
  NoCgroup = NoCgroup
  CtlUsers = {u, w}
  CtlConfigs = {1, 2}
  CtlLosses = 2
  Invocations = {i1, i2, i3}
  Databases = {"mysql"}
  Caches = {"", "memcached"}
  VmFaults = 1
SPECIFICATION PlatformSpec
INVARIANTS
  PlatformTypeOK
  
  NetworkKept
  
  
  ReferencedIsRegistered
  
  LinesOnceInOrder
  
  ConditionsFollowObservations
  EventsReachOpenStreams
  RequestsAreAudited
  
  CommandsTellTruth
  SandboxReady
PROPERTY UpgradeAllOrNothing
CHECK_DEADLOCK FALSE
