SPECIFICATION FairSpec
CONSTANTS
  direct = direct
  plain = plain
  short = short
  out = out
  Msg = {direct, plain, short, out}
  Stopper = {s1}
  Duration <- Durations
  Deadline <- Deadlines
  Huge = 9
  MaxTime = 4
PROPERTIES NeverEarly KeepsContract AdmittedFinish
CHECK_DEADLOCK FALSE
