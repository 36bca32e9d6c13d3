SPECIFICATION FairSpec
CONSTANTS
  t1 = t1
  t2 = t2
  t3 = t3
  Task = {t1, t2}
  Prio <- Mixed
  Stopper = {s1, s2}
  IsPriority = TRUE
  Targets = {1}
  MaxReloads = 0
  MaxWorkers = 1
  MinRank <- Least
  None = None
PROPERTIES DispatchOrder KeepsContract CallersReturn AcceptedFinish
CHECK_DEADLOCK FALSE
