\* The offset of the clock is no multiple of a second; no float rounds.
SPECIFICATION Spec
CONSTANTS
  Syncs = 3
  ClockPolicies = {"plain"}
  Skew <- Behind
  Offset <- Before
  Second = 2
  HalfRange = 4
  Precision = 8
  Spacings = {1}
  MaxTime = 3
  None = None
INVARIANT ClockTimeShown
CHECK_DEADLOCK FALSE
