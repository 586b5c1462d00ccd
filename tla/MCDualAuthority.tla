---------------------------- MODULE MCDualAuthority ----------------------------
(* DualAuthority with a server for customers, one for admins, and one      *)
(* whose topology is malformed; a caller with one account, whose tenant,   *)
(* user, plane, audience or status may differ at a provider.               *)
EXTENDS DualAuthority

CONSTANTS org, web, ops, u1, u2, t1, t2, s1

Fleet(role, audience) ==
  [github_org |-> org, supabase_org |-> org, neon_org |-> org, schema |-> "fine",
   placement |-> "dedicated-org", role |-> role, audience |-> audience]

MCTopologies ==
  {Fleet("ApiServer", web), Fleet("AdminWebServer", ops),
   [Fleet("WebServer", web) EXCEPT !.neon_org = "malformed"]}

Member ==
  [subject |-> s1, user |-> u1, tenant |-> t1, audience |-> web, plane |-> "customer-auth",
   status |-> "Active"]

MCAccounts ==
  {Member,
   [Member EXCEPT !.status = "Revoked"],
   [Member EXCEPT !.user = u2],
   [Member EXCEPT !.tenant = t2],
   [Member EXCEPT !.audience = ops, !.plane = "admin-auth"],
   [Member EXCEPT !.user = Blank]}
=============================================================================
