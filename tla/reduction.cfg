SPECIFICATION Spec
CONSTANTS
  Width = 7
  Height = 4
  Stride = 9
  Region <- Parts
  BlockDim = 2
  PPT = 2
  WarpSize = 2
  MaxCalls = 2
INVARIANTS TypeOK ScheduleIndependent ResultIsReduction LastSeesAll CounterReset
CHECK_DEADLOCK FALSE
