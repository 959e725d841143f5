SPECIFICATION FilesSpec
CONSTANTS
  Disks <- MCDisks
  Cdevs <- MCCdevs
  FsOrder <- MCFsOrder
  Paths <- MCPaths
  PrefixOf <- MCPrefixes
  PerSector = 4
  MaxOpens = 2
  BlockSize = 2
  Direct = 1
  PerBlock = 3
  DiskBlocks = 8
  Width = 81
  Sizes <- MCSizes
  Seeks <- MCSeeks
  Offsets <- MCOffsets
INVARIANTS
  LookupAgrees
  TreeSound
  ReadsInPlace
  ReadAnswersTrue
PROPERTIES
  CallsEnd
CHECK_DEADLOCK FALSE
