SPECIFICATION FatSpec
CONSTANTS
  NClusters = 3
  FatEntries = 2
  ClusterSectors = 2
  SectorUnits = 2
  LineUnits = 2
  Volumes <- MCVolumes
  NoEntry = NoEntry
  NoFile = NoFile
  MaxLines = 3
  MaxFaults = 2
  MaxCrashes = 1
INVARIANTS
  FatTypeOK
  LinksAllocated
  FreeCountCovers
PROPERTIES
  FileIsLog
  EveryWriteEnds
