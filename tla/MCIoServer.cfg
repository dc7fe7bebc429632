\* A utilisation whose quotients are rounded, and two inherited periods.
SPECIFICATION Spec
CONSTANTS
  Unum = 2
  Uden = 5
  Periods = {4, 7}
  Late = 1
  Skew = 1
  MaxTime = 18
INVARIANTS
  TypeOK
  BudgetOrReplenishment
  IdleIsReset
  ReplenishedWithinPeriod
  BandwidthBound
\* The clock stops at its horizon.
CHECK_DEADLOCK FALSE
