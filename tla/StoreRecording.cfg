SPECIFICATION FairSpec
CONSTANTS
  Times <- MCTimes
  MaxAttempt = 0
  PagePackets = 2
  MinPage = 1
  FrameGranule = 3
  EncoderSkip = 1
  Headers <- BothHeaders
  MaxHistory = 3
  MaxFrames = 6
  MaxCrashes = 3
  Faults <- DurabilityFaults
INVARIANTS
  SecuredSurvives
  FinishNotRefused
PROPERTIES
  StoreEnds
CHECK_DEADLOCK FALSE
