\* The cleanup task on an empty volume.
SPECIFICATION Spec
CONSTANTS
  Port <- PortsAndSpecial
  TopClockId = 9
  TopPort = 9
  CacheSize = 2
  PageSize = 1
  Value = {v1, v2}
  Policy = {none}
  Unsecured = none
  NewClock <- ShortSecrets
  Lifetime = 1
  MaxTime = 3
  None = None
INVARIANT CleanupTaskRuns
