\* Ternary numbers below 16, and buffers about as long as the texts; at most two
\* allocations fail.
SPECIFICATION Spec
CONSTANTS
  Values <- MCValues
  Others <- Texts
  Rooms = {2, 3, 9, 12, 16, 60}
  Memory <- Behind
  MaxFailed = 2
  Digits <- ThreeDigits
  Letter <- EscapedLetter
  Range64 = 16
INVARIANTS
  MemoryReturned
  FitsExactly
  RoundTrip
  PrefixRefused
\* A text is converted and that is the end of it.
CHECK_DEADLOCK FALSE
