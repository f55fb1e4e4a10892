SPECIFICATION DeclaredSpec
CONSTANTS
  Image = {i1, i2, i3}
  BoundaryCondition = {}
  Accessor <- OneAccessorPerImage
  IterationSpace <- OneIterationSpacePerImage
  i1 = i1
  i2 = i2
  k1 = k1
  k2 = k2
  Kernel = {k1, k2}
  Ctor <- CtorAny
  MaxAccs = 2
  MaxRuns = 3
  Width = 2
  Height = 3
  GroupDelay <- OneLocal
  Depth = 4
INVARIANTS ResultIsSequential RegionNeverBlocks
PROPERTY RegionCompletes
CHECK_DEADLOCK FALSE
