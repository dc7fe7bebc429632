\* Punctual timers, and timers and clock readings that are up to 1 late.
SPECIFICATION Spec
CONSTANTS
  MAX_REPL = 3
  C = 4
  T = 8
  Lateness = {0, 1}
  MaxTime = 13
INVARIANTS
  TypeOK
  BudgetConserved
  NoUnderflow
  OrderedIfPunctual
  ReplenishedWithinPeriod
  
\* The clock stops at its horizon.
CHECK_DEADLOCK FALSE
