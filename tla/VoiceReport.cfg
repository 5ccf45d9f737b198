SPECIFICATION Spec
CONSTANTS
  MaxEpoch = 1
  MaxFrames = 2
  Length <- Shorter
  MaxTurns = 2
  MaxUp = 1
  Credit = 2
  RingSize = 2
  DmaBlocks = 2
  MaxStreams = 4
  MaxRetired = 4
PROPERTIES
  ReportsHonest
CHECK_DEADLOCK FALSE
