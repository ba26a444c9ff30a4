SPECIFICATION ReplayFairSpec
CONSTANTS
  ClockMod = 4
  NumTimes = 2
  InitialDelay = 1
  MaxElapsed = 5
  Captures <- MCCaptures
INVARIANTS
  ReplayTypeOK
  IdleIsLow
PROPERTIES
  NotEarlyUnlessWrapped
  ReplayEnds
