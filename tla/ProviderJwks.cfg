CONSTANTS
  k1 = k1
  k2 = k2
  c1 = c1
  c2 = c2
  Callers = {c1, c2}
  NoCaller = NoCaller
  NoToken = NoToken
  NoReturn = NoReturn
  Kids <- MCKids
  Sets <- MCSets
  Ttl = 2
  Throttle = 1
  HttpTimeout = 1
  MaxTime = 3
SPECIFICATION Spec
INVARIANT TypeOK
PROPERTY WithdrawnKeysExpire
PROPERTY NewKeysArePickedUp
SYMMETRY MCSymmetry
