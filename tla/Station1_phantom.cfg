SPECIFICATION Station1Spec
CONSTANTS
  NoFile = NoFile
  MaxTransitions = 2
  ClockMod = 2
  MaxClock = 0
  Orders <- MCOrders
  Regimes <- MCReliable
  MaxCaptures = 2
  MaxSeconds = 2
INVARIANT
  SavesOnlyCaptures
