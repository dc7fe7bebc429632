SPECIFICATION FairSpec
CONSTANTS
  t1 = t1
  t2 = t2
  t3 = t3
  Tasks <- MCTasks
  MaxUnits = 2
  InitUnits = 1
  Amounts = {1, 2}
PROPERTY TimedWaitReturns
