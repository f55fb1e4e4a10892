SPECIFICATION Spec
CONSTANTS
  Width = 8
  Height = 8
  Stride = 8
  Region <- Whole
  BlockDim = 4
  PPT = 4
  WarpSize = 2
  MaxCalls = 1
INVARIANT ReturnsReduction
CHECK_DEADLOCK FALSE
