SPECIFICATION Spec
CONSTANTS
  Discs <- MCDiscs
  MapLines <- MCMapLines
  Hidden <- MCHidden
  Leftovers <- MCLeftovers
  Wanted <- MCWanted
  LoaderModules <- MCLoaderModules
  Kernels <- MCKernels
  KernelAddr = 1
  InitrdAddr = 4
  SearchLimit = 3
  SearchCount = 4
  Heaps <- MCHeaps
  Signs <- MCSigns
INVARIANTS
  LinkedBeforeRun
  PointersLive
  GivesBack
  HandedOver
PROPERTIES
  BootEnds
CHECK_DEADLOCK FALSE
