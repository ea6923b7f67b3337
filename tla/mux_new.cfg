\* New policy, priority algorithm, throttled: two groups, up to two frames of a
\* source; live sources that drop their oldest frame when a pad is full, and one of
\* them comes and goes; the mux is stopped and started.
SPECIFICATION Spec
CONSTANTS
  a = a
  b = b
  c = c
  Source <- TwoSources
  IndexOf <- OwnIndex
  InitialPads = {a}
  Removable = {b}
  MayStop = TRUE
  MaxFrames = 3
  Policy = "new"
  LiveSource = TRUE
  BlockWhenFull = FALSE
  BatchSize = 2
  Timeout = 2
  QueueDepth = 2
  MaxSameLegacy = 2
  MaxSameNew = 2
  Adaptive = FALSE
  RoundRobin = FALSE
  Priority <- LastIsLower
  MaxPerBatch = 2
  MinGap = 1
  Lossless = FALSE
INVARIANTS
  NoFrameLost
  FreshestKept
PROPERTIES
  SlotsUsed
CHECK_DEADLOCK FALSE
