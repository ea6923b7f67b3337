\* Two cameras, one removable, one that may hang; sources are added at any time.
SPECIFICATION AdvFairSpec
CONSTANTS
  a = a
  b = b
  Camera = {a, b}
  Record <- Records
  QueueSize = 2
  BatchLimit = 2
  MaxFrames <- Frames
  HotAdd = {b}
  Removable = {a}
  Hanging = {b}
  Backend = "vaapi"
  LateJoin = TRUE
INVARIANTS
  IndexOwner
  OwnBatch
  HeldOnce
  RunFlushes
PROPERTIES
  StopHeard
CHECK_DEADLOCK FALSE
