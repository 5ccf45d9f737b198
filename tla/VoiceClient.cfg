SPECIFICATION FairSpec
CONSTANTS
  MaxSessions = 2
  MaxChunks = 2
  MicFrames = 1
  MaxUp = 2
INVARIANTS
  SessionReleased
  EndExplained
PROPERTIES
  HandshakeAccepted
  SessionEnds
CHECK_DEADLOCK FALSE
