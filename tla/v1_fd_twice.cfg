SPECIFICATION Spec
CONSTANTS
  a = a
  b = b
  Worker = {a, b}
  SourceOf <- OwnSource
  Linear = {a}
  Removable = {a}
  MaxFrames <- OnlyA
  Capacity = 1
  JoinTimesOut = FALSE
CHECK_DEADLOCK FALSE
INVARIANT FdOnce
