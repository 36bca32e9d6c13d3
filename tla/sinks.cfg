SPECIFICATION SinksSpec
CONSTANTS
  None = None
  Caller = {p1, p2}
  MaxCells = 2
  MaxStops = 2
INVARIANTS SessionExclusive BodyClosed SinkStopDrains CollectorOwned
PROPERTIES SinkCallsReturn
CHECK_DEADLOCK FALSE
