\* The four trackers, four tracks, seven frames.
SPECIFICATION Spec
CONSTANTS
  Kinds <- AllKinds
  MaxId = 4
  MaxFrame = 7
  MaxAge = 2
  MinHits = 3
INVARIANTS
  OneObject
PROPERTIES
  LifeSpec
CHECK_DEADLOCK FALSE
