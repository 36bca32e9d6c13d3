SPECIFICATION RuntimeSpec
CONSTANTS
  a = a
  c1 = c1
  c2 = c2
  c3 = c3
  j1 = j1
  None = None
  Key = {k1, k2}
  Value = {v1}
  Shard = {a, b}
  ShardOf <- OneShard
  MinCapacity = 1
  ShrinkFactor = 1
  Stopper = {s1}
  Shapes <- GraphShapes
  Semantics = {"call", "asyncCall", "parallel", "pool", "nopool"}
  MaxTasks = 5
  MaxInputs = 1
  JoinCall = {c1, c2, c3}
  JoinKey <- JoinKeys
  KeyOf <- JoinKeyOf
  Deadline <- NoDeadline
  Side <- OneSide
  Configs <- JoinConfigs
  MaxReloads = 1
  MaxTime = 2
  MaxEntries = 2
  Job = {j1, j2}
  Interval <- CronInterval
  Calendar <- CronCalendar
  Policies <- CronPolicies
  CronStop = {h1, h2}
  MaxTicks = 2
  MaxActs = 3
  NoJob = NoJob
  Defaults <- BaseConfig
  Environment <- Variables
  Files <- OverrideFiles
  Reloader = {"watch"}
  MaxWrites = 3
  Absent = Absent
  Radix = 6
  SizeBytes = 2
  WideBytes = 2
  Type = {"int", "event"}
  Known = {"int"}
  Getter = {1, 2, 3}
  TypeOf <- GetterType
  NoSerde = NoSerde
  Endpoint = {e1, e2}
  Starter = 0
  SourceStop = {1, 2}
  NoCall = NoCall
  Request = {1, 2}
  MaxStarts = 2
INVARIANTS Conserved DrainedGraph ActivationsApart PublishedExact
INVARIANTS WireExact OneSerde SourceStopDrains
PROPERTIES IsOneMap CompletedOnce LiveGroupKept JoinsCurrentGroup
PROPERTIES CronStopDrains
SYMMETRY Calls
CHECK_DEADLOCK FALSE
