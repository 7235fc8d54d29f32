\* The gate, the Activity writer, the outbox, the feed and three
\* callers, no request among them, that share refreshes, one at a time.
SPECIFICATION BackgroundSpec
CONSTANTS
  r1 = r1
  r2 = r2
  k1 = k1
  Requests = {r1, r2, r3}
  MaxConcurrent = 2
  Deadline = 2
  LogRows = {r1, r2}
  Scopes = {k1}
  Covers <- MCCovers
  Readers = {}
  QueueSize = 1
  BatchSize = 1
  NoCaller = NoCaller
  Messages = {m1, m2}
  Tokened = {m1}
  MaxAttempts = 2
  BatchLimit = 2
  MaxCopies = 2
  MaxLostWrites = 1
  NoSend = NoSend
  Feeds = {r1}
  BufferSize = 1
  DeltaSize = 1
  KeepDone = 1
  MaxBreaks = 1
  Nil = Nil
  TokenCallers = {c1, c2, c3}
  Forced = {c2, c3}
  Flows = {}
  NoOne = NoOne
  MaxSerial = 2
  MaxGeneration = 0
INVARIANTS ActivityHolds RefreshHolds
PROPERTIES GateSound Settled FlushReturns OutboxImplementsDelivery QueuedMailSettles PageSettles Returns
CHECK_DEADLOCK FALSE
