SPECIFICATION IdeSpec
CONSTANTS
  Units <- MCUnits
  Sector = 2
  Block = 4
  Aux = 2
  MaxBlocks = 2
  MaxReads = 2
INVARIANTS
  SizesFromDevice
  ProbesLeaveDisk
PROPERTIES
  KeepsDisk
  DriverReturns
CHECK_DEADLOCK FALSE
