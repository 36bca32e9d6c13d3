SPECIFICATION Spec
CONSTANTS
  Request = {r1, r2}
  Result = {q1, q2}
  Id = {i1}
  Kinds <- AllKinds
  Limit = 1
  Recursive <- GrpcKinds
  None = None
INVARIANTS CallbacksDrained EndedOnce PendingExact NoWaitCycle
SYMMETRY Calls
CHECK_DEADLOCK FALSE
