SPECIFICATION Spec
CONSTANTS
  Depth = 1
  Call <- TwoParts
INVARIANT PartsMeetWithoutSeam
CHECK_DEADLOCK FALSE
