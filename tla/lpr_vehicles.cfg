\* Two cameras whose vehicles may look alike, two starts of the process.
SPECIFICATION LprSpec
CONSTANTS
  a = a
  b = b
  Camera = {a, b}
  Left = {b}
  TrackId = {1}
  x = x
  y = y
  p = p
  q = q
  v1 = v1
  v2 = v2
  Look = {x, y}
  Plate = {p, q}
  VehicleId = {v1, v2}
  MinReads = 2
  ToAverage = 1
  MaxFrames <- FramesOf
  MaxBoots = 2
INVARIANTS
  LooksAlike
  SavedKept
PROPERTIES
  PlateEarned
SYMMETRY DataSymmetry
CHECK_DEADLOCK FALSE
