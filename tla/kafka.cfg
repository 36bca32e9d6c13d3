SPECIFICATION FairSpec
CONSTANTS
  Partition = {p1}
  Cooperative = FALSE
  LaneCap = 1
  MaxRebalances = 3
  MaxMessages = 3
INVARIANTS StoredInOwnAssignment LoopEndsForCause StoppedIsQuiet
PROPERTIES EndsAreSeen
CHECK_DEADLOCK FALSE
