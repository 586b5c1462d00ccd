---------------------------- MODULE MCSessionGuard ---------------------------
(* SessionGuard with tokens of both issuers and projects, of owners whom a *)
(* role, an e-mail or nothing admits, and one of a machine with a role.    *)
EXTENDS SessionGuard

Of(issuer, project, grant, machine) ==
  [issuer |-> issuer, project |-> project, grant |-> grant,
   machine |-> machine]

MCTokens ==
  {Of("ours", "ours", "role", FALSE), Of("ours", "other", "role", FALSE),
   Of("provider", "ours", "role", FALSE), Of("provider", "ours", "email", FALSE),
   Of("provider", "ours", "none", FALSE), Of("provider", "other", "role", FALSE),
   Of("provider", "ours", "role", TRUE)}
=============================================================================
