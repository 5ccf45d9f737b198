SPECIFICATION FairSpec
CONSTANTS
  RingFrames = 3
  RingBytes = 5
  MaxBytes = 2
  Skip = 1
  MaxMic = 5
  MaxEncoders = 3
  Faults <- MCFaults
  Stalls = TRUE
INVARIANTS
  EncoderOnce
  SnapshotWhole
PROPERTIES
  CallsEnd
CHECK_DEADLOCK FALSE
