SPECIFICATION BusySpec
CONSTANTS
  t1 = t1
  t2 = t2
  t3 = t3
  Task = {t1, t2, t3}
  Prio <- Equal
  Stopper = {}
  IsPriority = FALSE
  Targets = {1}
  MaxReloads = 0
  MaxWorkers = 1
  MinRank <- Least
  None = None
PROPERTIES CancelledIsPromoted
CHECK_DEADLOCK FALSE
