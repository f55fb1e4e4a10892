SPECIFICATION Spec
CONSTANTS
  MaxWidth = 5
  MaxHeight = 5
  Call <- SmallCalls
INVARIANTS TypeOK OutputIsFilteredImage ConsumesImage
CHECK_DEADLOCK FALSE
