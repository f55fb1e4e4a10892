SPECIFICATION DeclaredSpec
CONSTANTS
  Image = {i1, i2, i3}
  BoundaryCondition = {}
  Accessor <- OneAccessorPerImage
  IterationSpace <- OneIterationSpacePerImage
  Kernel = {k1, k2, k3}
  Ctor <- CtorOutOfPlace
  MaxAccs = 2
  MaxRuns = 3
SYMMETRY Names
INVARIANTS ScheduleTypeOK PointToPoint ProducerPrintedFirst ArgumentsFollowProgram
CHECK_DEADLOCK FALSE
