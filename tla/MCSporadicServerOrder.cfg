\* Timeslices overrun by up to 2.
SPECIFICATION UnobservedSpec
CONSTANTS
  MAX_REPL = 3
  C = 5
  T = 6
  Lateness = {2}
  MaxTime = 18
INVARIANT Ordered
\* The clock stops at its horizon.
CHECK_DEADLOCK FALSE
