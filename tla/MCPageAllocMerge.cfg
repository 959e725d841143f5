CONSTANTS
  NPages = 4
  MaxOrder = 3
  Size <- FourSize
  Word = 256
  Regions <- FourRegions
  AllocOrders = {0, 1}
SPECIFICATION Spec
INVARIANT NoBlockInUseMerged
CHECK_DEADLOCK FALSE
