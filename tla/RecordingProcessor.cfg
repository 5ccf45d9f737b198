SPECIFICATION FairSpec
CONSTANTS
  MaxRequests = 2
  Recordings = {r1, r2}
  MaxEdits = 2
  MaxRestarts = 1
  None = None
  User = User
INVARIANTS
  ResourcesHeld
  AnswersTrue
PROPERTIES
  SidecarsKept
  RequestsEnd
CHECK_DEADLOCK FALSE
