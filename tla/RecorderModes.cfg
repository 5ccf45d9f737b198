SPECIFICATION RecorderFairSpec
CONSTANTS
  RingFrames = 2
  RingBytes = 3
  MaxBytes = 1
  Skip = 1
  MaxMic = 5
  MaxEncoders = 2
  Faults <- MCFaults
  Stalls = FALSE
  QueueFrames = 2
  CardFails = TRUE
INVARIANTS
  ResourcesOwned
  RecordingWhole
  SnapshotFresh
PROPERTIES
  StopEnds
CHECK_DEADLOCK FALSE
