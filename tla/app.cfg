SPECIFICATION FairSpec
CONSTANTS
  source = source
  pool = pool
  parallel = parallel
  sink = sink
  Caller = {c0, c1}
  Starter = c0
  Work = {w1, w2}
  Job = {source, pool, parallel, sink}
  Kind <- Kinds
  Phases <- ToSinks
  None = None
INVARIANTS JobAlone QuietBeforeSinks OkMeansReleased
PROPERTIES StopsReturn
CHECK_DEADLOCK FALSE
