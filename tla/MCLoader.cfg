CONSTANTS
  MaxEntries = 3
  Timeout = 4
  TicksPerSec = 2
  LogoX = 14
  ControlX = 16
  Up = Up
  Down = Down
  Enter = Enter
  Other = Other
  NoKey = NoKey
  Configs <- MCConfigs
SPECIFICATION FairSpec
INVARIANTS
  ParsedAsWritten
  BootsChosen
  DrawsInPlace
PROPERTIES
  LoaderEnds
CHECK_DEADLOCK FALSE
