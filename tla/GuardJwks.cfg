CONSTANTS
  k1 = k1
  c1 = c1
  c2 = c2
  Callers = {c1, c2}
  NoCaller = NoCaller
  NoToken = NoToken
  NoReturn = NoReturn
  NoPin = NoPin
  Kids <- MCKids
  Pins <- MCPins
  Ttl = 1
  Grace = 2
  ArmTimeout = 1
  MaxTime = 3
SPECIFICATION FairSpec
INVARIANT TypeOK
PROPERTY RevocationWindow
PROPERTY RotationIsSeamless
PROPERTY CacheNeverRegresses
PROPERTY EveryCallReturns
