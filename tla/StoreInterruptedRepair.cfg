SPECIFICATION Spec
CONSTANTS
  Times <- MCTimes
  MaxAttempt = 0
  PagePackets = 2
  MinPage = 1
  FrameGranule = 3
  EncoderSkip = 1
  Headers <- BothHeaders
  MaxHistory = 3
  MaxFrames = 6
  MaxCrashes = 2
  Faults <- NoFaults
INVARIANTS
  BootRepairsCheckpointed
CHECK_DEADLOCK FALSE
