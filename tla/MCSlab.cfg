CONSTANTS
  Slabs = {p1, p2, p3, p4}
  Info <- MCInfo
  PageShift = 4
  Bits = 7
  Pow2 <- MCPow2
  CacheSize = 3
  NodeSize = 6
  NameSize = 8
  Requests = {0, 8, 9, 17, 33, 65}
  MaxSlabs = 2
SPECIFICATION Spec
SYMMETRY Symmetry
INVARIANTS
  SlabsSound
  ObjectHasOneOwner
  NoneSpare
CHECK_DEADLOCK FALSE
