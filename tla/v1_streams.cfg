SPECIFICATION FairSpec
CONSTANTS
  a = a
  b = b
  Worker = {a, b}
  SourceOf <- OwnSource
  Linear = {a}
  Removable = {a}
  MaxFrames <- OnlyA
  Capacity = 1
  JoinTimesOut = TRUE
INVARIANTS
  FdAccounted
  OneGhost
PROPERTIES
  HandedOnce
  NoStreamBlocks
CHECK_DEADLOCK FALSE
