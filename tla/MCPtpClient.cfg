\* Two synchronisations over a bad network and over a perfect one; a clock that
\* does not ask for authentication, so that both requests for its description
\* succeed, and one with the policy the client tries second.
SPECIFICATION ReliableSpec
CONSTANTS
  Syncs = 2
  ClockPolicies = {"none", "plain"}
  Skew <- Behind
  Offset <- Before
  Second = 2
  HalfRange = 4
  Precision = 2
  Spacings = {1, 2, 4}
  MaxTime = 3
  None = None
INVARIANTS
  SyncAccuracy
  TimeShown
PROPERTIES
  OwnAnswers
  ClientEnds
  ReliableSucceeds
CHECK_DEADLOCK FALSE
