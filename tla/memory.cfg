SPECIFICATION Spec
CONSTANTS
  A = A
  B = B
  P = P
  Q = Q
  acc = acc
  ImageNames = {A, B}
  PyramidNames = {P, Q}
  AccessorNames = {acc}
  Sizes <- MCSizes
  Depths <- MCDepths
  Regions <- MCRegions
  HostArrays = {1}
  MaxLoop = 2
  MaxStatements = 4
  MaxCalls = 4
  Targets <- MCTargets
SYMMETRY Renaming
INVARIANTS
  MemoryTypeOK
  HostBlocksCounted
  ReleasedOnce
  LevelsFollowTheCalls
PROPERTY
  StatementsFollowDSL
CHECK_DEADLOCK FALSE
