CONSTANTS
  Tokens <- MCTokens
  NoToken = NoToken
  Malformed = Malformed
  NoAuthority = NoAuthority
  Deadline = 2
SPECIFICATION Spec
INVARIANT TypeOK
INVARIANT UpgradeAccounted
INVARIANT AdmittedNotSignedOut
PROPERTY ImplementsRace
