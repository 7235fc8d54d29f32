\* The client that leads a refresh may leave.
SPECIFICATION ConnectionSpec
CONSTANTS
  TokenCallers = {a, b}
  Forced = {b}
  Flows = {}
  NoOne = NoOne
  MaxSerial = 3
  MaxGeneration = 0
INVARIANT RotatedPairIsKept
CHECK_DEADLOCK FALSE
