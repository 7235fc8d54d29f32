\* A comment falls due between the two lines of an event.
SPECIFICATION KeepaliveSpec
CONSTANTS
  Parts = 2
  MaxFrames = 2
  MaxFirings = 2
INVARIANT CommentsBetweenEvents
CHECK_DEADLOCK FALSE
