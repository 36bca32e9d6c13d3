SPECIFICATION FairSpec
CONSTANTS
  c1 = c1
  c2 = c2
  k1 = k1
  Call = {c1, c2}
  Key = {k1}
  KeyOf <- OneKey
  Deadline <- FirstHasDeadline
  Side <- TwoSides
  Configs <- Timed
  MaxReloads = 1
  MaxTime = 2
  MaxEntries = 4
PROPERTIES CallsReturn TimedGroupProcessed
CHECK_DEADLOCK FALSE
