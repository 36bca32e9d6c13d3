SPECIFICATION Spec
CONSTANTS
  t1 = t1
  t2 = t2
  t3 = t3
  Task = {t1, t2, t3}
  Prio <- Equal
  Stopper = {}
  IsPriority = FALSE
  Targets = {1, 2}
  MaxReloads = 1
  MaxWorkers = 2
  MinRank <- Least
  None = None
INVARIANTS BusyIsExact
PROPERTIES DispatchWithinTarget
SYMMETRY Tasks
CHECK_DEADLOCK FALSE
