SPECIFICATION Station2Spec
CONSTANTS
  ClockMod = 8
  Modulus = 8
  MaxEdges = 4
  MinEdges = 2
  PerSecond = 6
  Glitch = 0
  StandardBauds <- MCBauds
  Fallback = 3
  Tolerance <- MCTolerance
  Debounce = 2
  SleepTicks = 4
  BootTicks = 2
  MaxClock = 9
  Wirings <- MCWirings
PROPERTY
  ButtonsWork
CHECK_DEADLOCK FALSE
