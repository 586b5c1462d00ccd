CONSTANTS
  i1 = i1
  i2 = i2
  d1 = d1
  w = w
  x = x
  aud = aud
  n = n
  h = h
  iss = iss
  other = other
  acr = acr
  k1 = k1
  k2 = k2
  s1 = s1
  s2 = s2
  Words <- MCWords
  Ids <- MCIds
  Devices <- MCDevices
  Commands <- MCCommands
  Contexts <- MCContexts
  Issuer = iss
  Acr = acr
  Kids <- MCKids
  Secrets <- MCSecrets
  NoSecret = NoSecret
  NoRequest = NoRequest
  Forgeries <- MCForgeries
  MaxTtl = 1
  MaxTime = 1
SPECIFICATION Spec
INVARIANT TypeOK
INVARIANT OneUse
INVARIANT CompletedAsMinted
INVARIANT InFlightSurvives
SYMMETRY MCSymmetry
