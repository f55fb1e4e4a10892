SPECIFICATION KernelsSpec
CONSTANTS
  Mask = {"m1", "m2", "m3"}
  MaskSize <- OddSizes
  KernelDef <- LibraryKernels
  MaxKernels = 2
  Programs <- MCPrograms
  Targets <- MCTargets
  WarpSize = 32
  MaxThreads = 128
  DefaultThreads <- MCDefaultThreads
  TileWidth = 32
  MaxShared = 1600
  Occupancies = {1, 2}
  MaxUnused = 1
  MaxExecutions = 2
INVARIANTS
  OwnBorder
  WindowIsOwnMasks
  KernelArgsTypeOK
  LaunchMatchesKernel
  ConfigurationFits
  MasksAreWritten
CHECK_DEADLOCK FALSE
