\* Two connections of up to three pictures, batches of two, one picture held back
\* by the codec and one frame by the encoder; the join may time out.
SPECIFICATION Spec
CONSTANTS
  Backends = {"vaapi", "rocdecode"}
  CodecDelay = 1
  ReadTimeout = 2
  MaxPackets = 3
  EncoderDelay = 1
  BatchSize = 2
  MaxTries = 2
  SlowJoin = TRUE
INVARIANTS
  EofComplete
  VideoComplete
PROPERTIES
  ReadReturns
CHECK_DEADLOCK FALSE
