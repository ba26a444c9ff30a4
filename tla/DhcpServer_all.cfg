SPECIFICATION DhcpSpec
CONSTANTS
  Devices = {d1, d2}
  NoMac = NoMac
  NoIp = NoIp
  MaxIp = 2
  LeaseTime = 2
  TickMod = 8
  Grain = 2
  MaxStale = 1
  FirstTicks <- MCFirstTicks
  MaxTicks = 10
SYMMETRY MCSymmetry
INVARIANTS
  DhcpTypeOK
  NoTwoHolders
  ExpiryExact
PROPERTIES
  OffersAreFree
