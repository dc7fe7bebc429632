\* Three tasks on a semaphore and on a ring of two slots, a log buffer of four.
SPECIFICATION MCSpec
CONSTANTS
  t1 = t1
  t2 = t2
  t3 = t3
  a = a
  b = b
  Tasks <- MCTasks
  Elements <- MCElements
  Refused = Refused
  num_elts = 2
  MaxUnits = 3
  InitUnits = 1
  Amounts = {1, 2}
  LOGGER_BUF_SIZE = 4
INVARIANTS
  TypesOK
  NoLostWakeup
  SleepsOnlyIfNeeded
PROPERTIES
  AreFifo
  NobodyStuck
CHECK_DEADLOCK FALSE
