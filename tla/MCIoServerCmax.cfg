SPECIFICATION Spec
CONSTANTS
  Unum = 2
  Uden = 5
  Periods = {4, 7}
  Late = 0
  Skew = 0
  MaxTime = 18
INVARIANT BudgetWithinCmax
\* The clock stops at its horizon.
CHECK_DEADLOCK FALSE
