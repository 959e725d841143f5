CONSTANTS
  PageSize = 2
  Start = 2
  Limit = 16
  Tables <- MCTables
  Reserves <- MCReserves
  MaxReserves = 3
  AllocSizes = {1, 2, 3}
  MaxAllocs = 3
  MaxRegions = 8
SPECIFICATION FairSpec
INVARIANTS
  RegionsSound
  PagesAccounted
PROPERTIES
  RemovalsEnd
CHECK_DEADLOCK FALSE
