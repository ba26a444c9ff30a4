SPECIFICATION SdSpec
CONSTANTS
  NBlocks = 4
  BlockSize = 2
  MaxCount = 3
  MaxPolls = 2
  MaxWrites = 2
  MaxFaults = 2
  MaxResets = 1
INVARIANTS
  SdTypeOK
  ReadsTrue
  WritesStored
