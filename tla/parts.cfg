SPECIFICATION Spec
CONSTANTS
  Depth = 1
  Call <- SmallLayouts
INVARIANTS TypeOK PartsMeetInPlace
PROPERTY AllComplete

\* The operators stop when the image is done; that they stop only then is AllComplete.
CHECK_DEADLOCK FALSE
