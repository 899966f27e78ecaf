\* Two ports, the slot of one in front of that of the other, and a special one;
\* lists of up to two clocks; offsets of two bits, on a host that has been up
\* for a while and may start again.
SPECIFICATION PortTimeSpec
CONSTANTS
  Port <- PortsAndSpecial
  TopClockId = 9
  TopPort = 9
  CacheSize = 2
  PageSize = 2
  Value <- Offsets
  Policy = {none, plain}
  Unsecured = none
  NewClock <- FullOrSecured
  Lifetime = 1
  MaxTime = 2
  None = None
  Modulus = 4
  Start = {1}
  Uptime = {3}
INVARIANTS
  PortTimeTypeOK
  CacheCoherent
  PromiseKept
  TimeExact
PROPERTY IsClockTable
