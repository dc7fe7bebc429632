SPECIFICATION Spec
CONSTANTS
  p0 = p0
  p1 = p1
  t1 = t1
  t2 = t2
  t3 = t3
  Task = {t1, t2, t3}
  Pcpu = {p0, p1}
  Boot = p0
  Shell = t1
  NumVcpus = 3
  MainVcpu = {0, 1}
  home <- MCHome
  Period = {1, 2}
  InitT <- MCInitT
  NoTask = NoTask
  Idle = Idle
  NoVcpu = NoVcpu
  Unbound = Unbound
INVARIANTS
  TypeOK
  RunningIsCurrent
  RunnableIsQueued
  CurrentRunsItsTask
  NoTaskRunsTwice
  OneRunqueue
  OnlyLiveTasks
PROPERTY Preservation
SYMMETRY MCSymmetry
