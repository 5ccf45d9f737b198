SPECIFICATION FairSpec
CONSTANTS
  MaxEpoch = 2
  MaxFrames = 2
  Length <- Shorter
  MaxTurns = 2
  MaxUp = 1
  Credit = 1
  RingSize = 1
  DmaBlocks = 2
  MaxStreams = 2
  MaxRetired = 1
INVARIANTS
  
  AudioAccounted
PROPERTIES
  LedgerSpec
  AnswersEnd
CHECK_DEADLOCK FALSE
