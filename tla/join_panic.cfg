SPECIFICATION Spec
CONSTANTS
  c1 = c1
  c2 = c2
  k1 = k1
  Call = {c1, c2}
  Key = {k1}
  KeyOf <- OneKey
  Deadline <- FirstHasDeadline
  Side <- TwoSides
  Configs <- Zero
  MaxReloads = 0
  MaxTime = 3
  MaxEntries = 3
INVARIANTS PositiveTtlHasDeadline
CHECK_DEADLOCK FALSE
