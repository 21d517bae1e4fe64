CONSTANTS
  Timer = {"a", "b"}
  Intervals = {0, 2}
  Capacity = 1
  Burst = 2
  Least = 2
  MaxTick = 5
  StreamUnits = 5
  L2Units = 3
  QueueLimit = 2
  SeekTargets = {2}
  MaxStale = 2
  MaxOps = 5
  UnitSamples = 2
  Units = 3
  Labels = {1, 3, 4}
  L1Units = 3
  MaxPlays = 3
  MaxLabelTick = 9
  Formats = {"pcm16", "float", "mono"}
  Invalid = {"mono"}
  Unsupported = {}
  Volumes = {0, 50999, 200000}
  Pans = {0, 100000}
  Recreates = FALSE
  Voice = {"a", "b"}
  Wide = {"b"}
  Length = 3
  Chunks = {2, 4}
  MaxBuffers = 2
  MaxSent = 6
SPECIFICATION PartsSpec
INVARIANTS
  PartsTypeOK
  LabelsKept
  DeviceAgrees
  PositionExact
  LocksSuffice
  TimersAgree
PROPERTIES
  StreamSpec
  EndsWhole
CHECK_DEADLOCK FALSE
