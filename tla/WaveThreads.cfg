CONSTANTS
  StreamUnits = 5
  Looping = FALSE
  L2Units = 3
  QueueLimit = 2
  SeekTargets = {2}
  Underruns = TRUE
  MaxStale = 2
  MaxOps = 5
SPECIFICATION FairSpec
INVARIANTS
  TypeOK
  RingConsistent
  NeverReadsWritingUnit
  StoppedIsSilent
  QueueBounded
PROPERTIES
  PlayedSoundEnds
CHECK_DEADLOCK FALSE
