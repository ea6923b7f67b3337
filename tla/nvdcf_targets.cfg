\* Two slots, four targets.
SPECIFICATION Spec
CONSTANTS
  s1 = s1
  s2 = s2
  Slot = {s1, s2}
  MaxId = 4
  ProbationAge = 2
  MaxShadow = 2
  EarlyTermination = 2
  MaxVisualOnly = 2
INVARIANTS
  SlotOwner
  FilterOwn
  UnseenBound
PROPERTIES
  LifeSpec
CHECK_DEADLOCK FALSE
