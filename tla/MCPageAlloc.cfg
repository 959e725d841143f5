CONSTANTS
  NPages = 8
  MaxOrder = 4
  Size <- MCSize
  Word = 256
  Regions <- MCRegions
  AllocOrders = {0, 1, 2}
SPECIFICATION FairSpec
INVARIANTS
  NoOverlap
  FreeCountExact
  BlocksComplete
  NullOnlyWhenNoRun
PROPERTIES
  KeepsPromise
  FreesEnd
CHECK_DEADLOCK FALSE
