CONSTANTS
  a = a
  b = b
  c = c
  NoImage = NoImage
  Images <- MCImages
  Signed <- MCSigned
  HighWater <- MCHighWater
  ImageLen <- MCImageLen
  HeaderAt = 1
  Capacity = 6
  Word = 2
  MaxFrame = 3
SPECIFICATION Spec
INVARIANT InstalledIsDrawn
CHECK_DEADLOCK FALSE
