\* A file and a camera that may be started again, whose reporter stops it on sink
\* errors.
SPECIFICATION FairSpec
CONSTANTS
  file = file
  camera = camera
  Stream = {file, camera}
  ListPos <- FileFirst
  Live = {camera}
  Abortable = {camera}
  SelfStopping = {camera}
  BatchSize = 1
  MaxRetries = 1
  MayReset = TRUE
  StopOnFailure = TRUE
  SlowJoin = {}
  MaxStarts <- CameraAgain
  MaxFrames <- Frames
INVARIANTS SinkOpen AbortHeard EndedStates
PROPERTIES ReportSpec StopEnds
