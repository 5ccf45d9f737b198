SPECIFICATION Spec
CONSTANTS
  Drives = {d1, d2}
  Contents = {pending, done}
  Half = 4
  MaxCrashes = 3
  Faults <- MCFaults
PROPERTIES
  DriveKept
  ReceiptSpec
CHECK_DEADLOCK FALSE
