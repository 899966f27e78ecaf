\* Three ports, two of which share a slot; lists of up to three clocks.
SPECIFICATION FairSpec
CONSTANTS
  Port <- ThreePorts
  TopClockId = 9
  TopPort = 9
  CacheSize = 2
  PageSize = 3
  Value = {v1}
  Policy = {none}
  Unsecured = none
  NewClock <- ShortSecrets
  Lifetime = 0
  MaxTime = 1
  None = None
INVARIANT RecentExceptCollisions
PROPERTIES
  ExpiredDeleted
  ServerComesUp
