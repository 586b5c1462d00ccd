----------------------------- MODULE MCAuthRace -----------------------------
(* AuthRace with three arms, two of which belong to the same authority:    *)
(* race_many accepts any list of arms, race() is the case of two.          *)
EXTENDS AuthRace

CONSTANTS exchange, userinfo, mirror, SharedAuth, Supabase

MCArms      == {exchange, userinfo, mirror}
MCAuthority == {SharedAuth, Supabase}
MCAuthorityOf ==
  [a \in MCArms |-> IF a = userinfo THEN Supabase ELSE SharedAuth]
(* Every arm's identity claims to come from shared-auth.                   *)
MCClaimed == [a \in MCArms |-> SharedAuth]
=============================================================================
