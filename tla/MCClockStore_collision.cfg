\* The list of recent clocks with two rows in one slot.
SPECIFICATION Spec
CONSTANTS
  Port <- ThreePorts
  TopClockId = 9
  TopPort = 9
  CacheSize = 2
  PageSize = 3
  Value = {v1}
  Policy = {none}
  Unsecured = none
  NewClock <- ShortSecrets
  Lifetime = 0
  MaxTime = 1
  None = None
INVARIANT RecentClocksShown
