CONSTANTS
  k1 = k1
  Me = Me
  other = other
  Others = {other}
  OtherTokens <- MCOtherTokens
  NoCaller = NoCaller
  NoToken = NoToken
  NoReturn = NoReturn
  NoPin = NoPin
  NoAuthority = NoAuthority
  Kids <- MCKids
  Pins <- MCPins
  Ttl = 1
  Grace = 2
  ArmTimeout = 1
  MaxTime = 1
  Deadline = 1
  Exchange = Exchange
  Userinfo = Userinfo
  SharedAuth = SharedAuth
  Supabase = Supabase
SPECIFICATION Spec
INVARIANT UndecidedIsNotLoggedOut
