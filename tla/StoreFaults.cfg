SPECIFICATION Spec
CONSTANTS
  Times <- MCTimes
  MaxAttempt = 1
  PagePackets = 2
  MinPage = 1
  FrameGranule = 3
  EncoderSkip = 1
  Headers <- FreshHeader
  MaxHistory = 1
  MaxFrames = 4
  MaxCrashes = 1
  Faults <- AllFaults
INVARIANTS
  FinalParses
PROPERTIES
  FinalsNeverChange
  ArchiveSpec
CHECK_DEADLOCK FALSE
