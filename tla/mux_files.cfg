\* File sources under the new policy with round robin and one slot in a batch,
\* producers block on a full pad.  The pad of b is removed and that of c takes its
\* index.
SPECIFICATION Spec
CONSTANTS
  a = a
  b = b
  c = c
  Source <- ThreeSources
  IndexOf <- SharedIndex
  InitialPads <- TwoSources
  Removable = {b}
  MayStop = FALSE
  MaxFrames = 2
  Policy = "new"
  LiveSource = FALSE
  BlockWhenFull = TRUE
  BatchSize = 1
  Timeout = 0
  QueueDepth = 1
  MaxSameLegacy = 2
  MaxSameNew = 1
  Adaptive = FALSE
  RoundRobin = TRUE
  Priority <- SamePriority
  MaxPerBatch = 1
  MinGap = 0
  Lossless = FALSE
INVARIANTS
  OneOwner
PROPERTIES
  TakesTurns
CHECK_DEADLOCK FALSE
