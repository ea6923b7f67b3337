\* Two cameras through four stages, the programs from the cache two processes share.
SPECIFICATION Spec
CONSTANTS
  pipeline = pipeline
  stream = stream
  Proc <- TwoProcesses
  Model <- Files
  Custom = {"plates.onnx"}
  Program <- Programs
  ModelOf <- FileOf
  Int8 <- OnlyQuantized
  Uncached = {}
  Plan <- Plans
  Calibration = 2
  MaxFaults = 1
  Me = pipeline
  Source <- Cameras
  Stage <- Cascade
  PlateAt = 2
  OcrAt = 3
  EmbeddingAt = 4
  Class = {"vehicle", "person", "plate"}
  Finds <- Scenes
  FramesOf <- OneFrame
INVARIANTS
  BestEffort
  OwnPixels
  EvidenceWhole
CHECK_DEADLOCK FALSE
