SPECIFICATION StoreSpec
CONSTANTS
  NoFile = NoFile
  MaxTransitions = 2
  ClockMod = 2
  Regimes <- MCRegimes
  MaxCaptures = 2
  MaxSeconds = 3
INVARIANTS
  StoreTypeOK
  LoadFindsLatest
  LoadedFromOneCapture
  LoadedIsPrefix
PROPERTIES
  StoreIsLog
  FileOnlyGrows
