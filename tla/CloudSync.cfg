SPECIFICATION FairSpec
CONSTANTS
  N = 2
  Drives = {d1, d2}
  TooLong <- MCTooLong
  Ranges = 2
  MaxFailures = 1
  MaxTries = 1
  MaxSyncs = 2
  MaxEdits = 2
  MaxCrashes = 1
  None = None
  Unreadable = Unreadable
INVARIANTS
  ReceiptHonest
  RangeExpected
PROPERTIES
  SuccessIsComplete
  UploadedOnce
  NeverOverwritten
  SyncEnds
CHECK_DEADLOCK FALSE
