SPECIFICATION Station1FairSpec
CONSTANTS
  NoFile = NoFile
  MaxTransitions = 2
  ClockMod = 1
  MaxClock = 1
  Orders <- MCOrders
  Regimes <- MCRegimes
  MaxCaptures = 2
  MaxSeconds = 2
INVARIANTS
  Station1TypeOK
  SavedOnce
PROPERTIES
  RecordStableInUse
  CompleteIsHandled
