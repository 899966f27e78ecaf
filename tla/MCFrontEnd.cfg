\* A year of 8 days of 2 seconds, from the middle of it to its end; one clock
\* that is days behind and one that is days ahead; a list of the 1 newest.
SPECIFICATION Spec
CONSTANTS
  Clock = {c1, c2}
  Start = {4, 15}
  Today = {8}
  MonthStart <- ThreeMonths
  DaySeconds = 2
  Length = 1
  MaxFetches = 3
  MaxTime = 16
  None = None
SYMMETRY Clocks
INVARIANTS
  InspectFresh
  ListCatchesUp
  RowsAccurate
\* Users stop, and pages are closed.
CHECK_DEADLOCK FALSE
