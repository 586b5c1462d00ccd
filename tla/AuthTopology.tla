------------------------------ MODULE AuthTopology ------------------------------
(***************************************************************************)
(* auth_topology.rs: which organizations, schema, plane and audience a     *)
(* server authenticates for, and how a proof of Supabase and a proof of    *)
(* Neon are reconciled against that.                                       *)
(*                                                                         *)
(* Names are values that are compared; beside the well-formed ones there   *)
(* is one "malformed" and one "too long" (validate_slug: 100 characters,   *)
(* validate_provider_schema: 63), and Blank is an empty or white string.   *)
(***************************************************************************)
EXTENDS Naturals, Sequences

CONSTANTS
  Orgs,       \* well-formed organization slugs
  Audiences,
  Users,      \* canonical user ids
  Tenants,
  Subjects,   \* provider-native subjects
  Blank

ASSUME BlankAssumption == Blank \notin Audiences \cup Users \cup Tenants \cup Subjects

AuthProvider == {"Supabase", "Neon"}
ServerRole   == {"WebServer", "ApiServer", "AdminWebServer", "AdminApiServer"}
IsAdmin(role) == role \in {"AdminWebServer", "AdminApiServer"}

(* auth_data_plane.                                                        *)
DataPlane(role) == IF IsAdmin(role) THEN "admin-auth" ELSE "customer-auth"

Slug == Orgs \cup {"malformed", "too long"}

Topology ==
  [github_org : Slug, supabase_org : Slug, neon_org : Slug,
   schema : {"fine", "malformed", "too long"},
   placement : {"shared-org-schema", "dedicated-org"},
   role : ServerRole, audience : Audiences \cup {Blank}]

ProviderProof ==
  [provider : AuthProvider, subject : Subjects \cup {Blank}, user : Users \cup {Blank},
   tenant : Tenants \cup {Blank}, audience : Audiences \cup {Blank},
   plane : {"customer-auth", "admin-auth"}, status : {"Active", "Revoked"}]

Success(v) == [ok |-> TRUE, value |-> v]
Fail(e)    == [ok |-> FALSE, error |-> e]

-----------------------------------------------------------------------------
(* validate_slug, validate_provider_schema.                                *)
SlugError(name)   == CASE name = "too long"  -> "OrganizationSlugTooLong"
                       [] name = "malformed" -> "InvalidSlug"
                       [] OTHER              -> "none"
SchemaError(name) == CASE name = "too long"  -> "ProviderSchemaTooLong"
                       [] name = "malformed" -> "InvalidProviderSchema"
                       [] OTHER              -> "none"

(* AuthTopology::validate: what is wrong with a topology, in the order it  *)
(* is looked at.                                                           *)
TopologyError(t) ==
  IF SlugError(t.github_org) # "none" THEN SlugError(t.github_org)
  ELSE IF SlugError(t.supabase_org) # "none" THEN SlugError(t.supabase_org)
  ELSE IF SchemaError(t.schema) # "none" THEN SchemaError(t.schema)
  ELSE IF SlugError(t.neon_org) # "none" THEN SlugError(t.neon_org)
  ELSE IF t.placement # "dedicated-org" THEN "SharedSupabaseOrganizationForbidden"
  ELSE IF t.supabase_org # t.github_org THEN "SupabaseOrganizationMismatch"
  ELSE IF t.neon_org # t.github_org THEN "NeonOrganizationMismatch"
  ELSE IF t.audience = Blank THEN "EmptyAudience"
  ELSE "none"

(* Mutant: an identity may be blank.                                       *)
ProofErrorButForBlanks(t, proof) ==
  IF proof.status = "Revoked" THEN <<"RevokedProviderProof", proof.provider>>
  ELSE IF proof.tenant = Blank THEN <<"EmptyTenant", proof.provider>>
  ELSE IF proof.audience # t.audience THEN <<"AudienceMismatch", proof.provider>>
  ELSE IF proof.plane # DataPlane(t.role) THEN <<"DataPlaneMismatch", proof.provider>>
  ELSE <<"none">>

(* validate_proof.                                                         *)
ProofError(t, proof) ==
  IF proof.status = "Revoked" THEN <<"RevokedProviderProof", proof.provider>>
  ELSE IF Blank \in {proof.subject, proof.user} THEN <<"EmptyIdentityField", proof.provider>>
  ELSE IF proof.tenant = Blank THEN <<"EmptyTenant", proof.provider>>
  ELSE IF proof.audience # t.audience THEN <<"AudienceMismatch", proof.provider>>
  ELSE IF proof.plane # DataPlane(t.role) THEN <<"DataPlaneMismatch", proof.provider>>
  ELSE <<"none">>

(* The last step of verify_dual_provider_proofs, on one proof of each.     *)
Reconcile(t, supabase, neon) ==
  IF ProofError(t, supabase) # <<"none">> THEN Fail(ProofError(t, supabase))
  ELSE IF ProofError(t, neon) # <<"none">> THEN Fail(ProofError(t, neon))
  ELSE IF supabase.user # neon.user THEN Fail(<<"CanonicalIdentityMismatch">>)
  ELSE IF supabase.tenant # neon.tenant THEN Fail(<<"TenantMismatch">>)
  ELSE Success([user |-> supabase.user, tenant |-> supabase.tenant,
                audience |-> t.audience, plane |-> DataPlane(t.role),
                supabase |-> supabase.subject, neon |-> neon.subject])

Of(s, p) == {i \in DOMAIN s : s[i].provider = p}

(* verify_dual_provider_proofs, on any list of proofs.                     *)
VerifyDualProviderProofs(t, proofs) ==
  IF TopologyError(t) # "none" THEN Fail(<<"InvalidTopology", TopologyError(t)>>)
  ELSE IF \E p \in AuthProvider : \E i, j \in Of(proofs, p) : i # j
    THEN Fail(<<"DuplicateProviderProof">>)
  ELSE IF Of(proofs, "Supabase") = {} THEN Fail(<<"MissingProviderProof", "Supabase">>)
  ELSE IF Of(proofs, "Neon") = {} THEN Fail(<<"MissingProviderProof", "Neon">>)
  ELSE Reconcile(t, proofs[CHOOSE i \in Of(proofs, "Supabase") : TRUE],
                    proofs[CHOOSE i \in Of(proofs, "Neon") : TRUE])
=============================================================================
