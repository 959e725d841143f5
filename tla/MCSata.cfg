SPECIFICATION Spec
CONSTANTS
  Machines <- MCMachines
  NumBuses = 3
  NumSlots = 2
  NumFuncs = 2
  NumPorts = 2
  NumCmds = 2
  MaxReads = 2
INVARIANTS
  AllFoundOnce
  TablesSafe
  RegisteredLive
PROPERTIES
  KeepsDisk
  DriverReturns
CHECK_DEADLOCK FALSE
