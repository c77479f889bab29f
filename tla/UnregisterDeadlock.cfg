CONSTANTS
  VolIds = {v}
  VolDirs = {d}
  VolTargets = {t}
  VolApps = {a}
  VolCallers = {c1, c2}
  MaxInode = 1
  VolFaults = 0
  VolModes = {FALSE, TRUE}
  Nobody = Nobody
SPECIFICATION VolumesFairSpec
PROPERTY UnregisterAnswers
CHECK_DEADLOCK FALSE
