SPECIFICATION CaptureFairSpec
CONSTANTS
  MaxTransitions = 4
  ClockMod = 3
  MaxClock = 4
  Orders <- MCOrders
INVARIANTS
  CaptureTypeOK
  OneSeam
  CompleteIsBalanced
  IntervalsExact
PROPERTIES
  CaptureEnds
