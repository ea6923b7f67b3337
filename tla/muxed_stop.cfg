\* Two live sources through the mux to the sink, stopped at any time.
SPECIFICATION MuxedFairSpec
CONSTANTS
  a = a
  b = b
  Source <- TwoSources
  IndexOf <- OwnIndex
  InitialPads <- TwoSources
  Removable = {}
  MayStop = TRUE
  MaxFrames = 2
  Policy = "legacy"
  LiveSource = TRUE
  BlockWhenFull = TRUE
  BatchSize = 2
  Timeout = 0
  QueueDepth = 1
  MaxSameLegacy = 2
  MaxSameNew = 1
  Adaptive = TRUE
  RoundRobin = TRUE
  Priority <- SamePriority
  MaxPerBatch = 1
  MinGap = 0
  SlowJoin = TRUE
  Lossless = FALSE
INVARIANTS
  CanvasThere
  DoneMeansAll
PROPERTIES
  ChannelSpec
  DoneComes
  BlockedReturns
  StopEnds
CHECK_DEADLOCK FALSE
