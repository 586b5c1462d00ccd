----------------------------- MODULE MCProofRound -----------------------------
(* ProofRound with two users, roots and revisions.  Each provider offers   *)
(* its proofs: Supabase and Neon customer proofs that agree or disagree,   *)
(* Shared Auth grants; Neon's backend may pass off a proof of Supabase.    *)
EXTENDS ProofRound, TLC

CONSTANTS u1, u2, r, root1, root2, rev1, rev2

Good(p) ==
  [provider |-> p, user |-> u1, realm |-> r, class |-> "CustomerIdentity", assurance |-> 2,
   root |-> root1, revision |-> rev1, complete |-> TRUE, verified_at |-> 0, expires_at |-> 2]

Other(p) == [Good(p) EXCEPT !.root = root2]

MCOffers ==
  [p \in Providers |->
     CASE p = "SharedAuth" ->
            {[Good(p) EXCEPT !.class = "SubsystemGrant"],
             [Good(p) EXCEPT !.class = "PrivilegedAdministration", !.assurance = 1],
             [Good(p) EXCEPT !.assurance = 1]}
       [] p = "Supabase" ->
            {Good(p), [Good(p) EXCEPT !.expires_at = 1], [Good(p) EXCEPT !.verified_at = 1]}
       [] OTHER ->
            {Other(p), Good(p), Other("Supabase"), [Other(p) EXCEPT !.assurance = 1],
             [Other(p) EXCEPT !.user = u2], [Other(p) EXCEPT !.revision = rev2]}]

MCPolicies ==
  {[mode |-> "optimistic", required |-> {"Supabase", "NeonAuth"}, pending |-> 1, floor |-> 1],
   [mode |-> "optimistic", required |-> {"SharedAuth", "Supabase", "NeonAuth"},
    pending |-> 1, floor |-> 2]}
    \cup {[mode |-> "pair", providers |-> <<"Supabase", q>>, floor |-> 1] :
            q \in {"Supabase", "NeonAuth"}}
    \cup {[mode |-> c, provider |-> "SharedAuth", floor |-> 2] :
            c \in {"SubsystemGrant", "PrivilegedAdministration"}}

MCBackends == {Full, VerificationOnly}
=============================================================================
