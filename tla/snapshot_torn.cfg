\* database.go:491-493 says a snapshot is proved a usable restore point before
\* it is trusted; an empty one is trusted.
SPECIFICATION DatabaseSpec
CONSTANTS
  Logs = {l1, l2}
  Counted = {l1}
  Guessed = {l2}
  Old = {l1}
  Tried = {l1}
  LogsMigration = 1
  Tenancy = 2
  Split = 3
  Newest = 3
INVARIANT RollbackIsVerified
CHECK_DEADLOCK FALSE
