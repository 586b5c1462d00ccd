CONSTANTS
  exchange = exchange
  userinfo = userinfo
  mirror = mirror
  SharedAuth = SharedAuth
  Supabase = Supabase
  NoAuthority = NoAuthority
  Arms <- MCArms
  Authority <- MCAuthority
  AuthorityOf <- MCAuthorityOf
  Claimed <- MCClaimed
  Deadline = 2
SPECIFICATION Spec
INVARIANT TypeOK
PROPERTY ImplementsDecision
