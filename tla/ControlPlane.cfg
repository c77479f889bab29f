CONSTANTS
  Ids = {i1}
  Vols = {}
  Configs = {1, 2}
  Clients = {c1, c2}
  MaxUid = 8
  MaxRv = 12
  MaxFlushFails = 1
  MaxRequests = 3
  MaxCrashes = 1
  MaxFaults = 1
SPECIFICATION Spec
SYMMETRY Symm
INVARIANTS LedgersOrdered RollbackPointers AckedHolds MatchHolds
PROPERTIES VersionNamesContent
