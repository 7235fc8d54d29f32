\* bodyread.go:29-32 says a slow but progressing upload is never cut off.
SPECIFICATION Spec
CONSTANTS
  Requests = {r1, r2, r3}
  MaxConcurrent = 2
  Deadline = 2
INVARIANT ProgressIsNotCutOff
CHECK_DEADLOCK FALSE
