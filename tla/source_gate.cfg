SPECIFICATION FairSpec
CONSTANTS
  Request = {r1, r2}
  Result = {}
  Id = {i1}
  Kinds = {"kafka"}
  Limit = 1
  Recursive = {}
  None = None
PROPERTIES StoppedGateEmpties
CHECK_DEADLOCK FALSE
