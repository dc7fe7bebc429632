SPECIFICATION FairSpec
CONSTANTS
  sh = sh
  t2 = t2
  t3 = t3
  bh = bh
  Nil = Nil
  Task <- MCTask
  MaxTasks = 4
  Bh = {bh}
  Shell = sh
  Vcpu = {0}
  InitCpu <- MCInitCpu
  Durations = {1, 2}
INVARIANTS
  TypeOK
  NoTaskLost
PROPERTIES
  SleepsLongEnough
  LinksAreQueues
  EventuallyRuns
