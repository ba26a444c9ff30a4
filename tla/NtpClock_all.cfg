SPECIFICATION ClockFairSpec
CONSTANTS
  PerSecond = 3
  ClockMod = 8
  SyncTimeout = 4
  MaxSleep = 2
  MaxConnect = 9
  MaxDelay = 2
  MaxUptime = 30
  BootTimes <- MCBootTimes
INVARIANTS
  ClockTypeOK
  TimestampAccurate
  WaitBounded
PROPERTIES
  BootEnds
