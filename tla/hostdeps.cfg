SPECIFICATION Spec
CONSTANTS
  Image = {i1, i2}
  BoundaryCondition = {b1}
  Accessor = {a1, a2}
  IterationSpace = {s1, s2}
  Kernel = {k1, k2}
  Ctor <- CtorUpTo2
  MaxAccs = 2
  MaxRuns = 3
SYMMETRY Names
INVARIANTS TypeOK ReadsLatestWrite OneInputPerImage
PROPERTIES NeverRewired HostSpec
CHECK_DEADLOCK FALSE
