------------------------------ MODULE ProofPolicy ------------------------------
(***************************************************************************)
(* proof_policy.rs: the verdicts of the providers on one session are       *)
(* arbitrated under the proof policy of the route.  Arbitrate is a pure    *)
(* function of the policy, the slice of verdicts and the time; this module *)
(* translates it, ProofRound feeds it.                                     *)
(*                                                                         *)
(* Whether a field of a proof is blank is one flag, "complete".  The sum   *)
(* that reconcile_by saturates (u64) is a sum of naturals here.            *)
(***************************************************************************)
EXTENDS Naturals, Sequences

CONSTANTS
  Users,       \* shared user ids
  Realms,
  Roots,       \* ids of root proofs: two assertions of one root are not independent
  Revisions,   \* revisions of the policy a proof was issued under
  MaxLevel,    \* bound: assurance is 0 .. MaxLevel, a u8 in the code
  MaxTime      \* bound: the clock shows 0 .. MaxTime

ASSUME ProofAssumption == MaxLevel \in Nat /\ MaxTime \in Nat

Providers == {"SharedAuth", "Supabase", "NeonAuth"}
Classes   == {"CustomerIdentity", "SubsystemGrant", "PrivilegedAdministration"}
Time      == 0 .. MaxTime
Levels    == 0 .. MaxLevel

VerifiedProof ==
  [provider : Providers, user : Users, realm : Realms, class : Classes,
   assurance : Levels, root : Roots, revision : Revisions, complete : BOOLEAN,
   verified_at : Nat, expires_at : Nat]

Negative == {"invalid", "revoked", "conflict"}

Verified(proof) == [kind |-> "verified", provider |-> proof.provider, proof |-> proof]
Bare(k, p)      == [kind |-> k, provider |-> p]

Verdict ==
  {v \in [kind : {"verified"}, provider : Providers, proof : VerifiedProof] :
     v.provider = v.proof.provider}
    \cup [kind : Negative \cup {"unavailable"}, provider : Providers]

ProofPolicies ==
  [mode : {"optimistic"}, required : SUBSET Providers, pending : Nat, floor : Levels]
    \cup [mode : {"pair"}, providers : Providers \X Providers, floor : Levels]
    \cup [mode : {"SubsystemGrant", "PrivilegedAdministration"},
          provider : Providers, floor : Levels]

AcceptedIdentity ==
  [user : Users, realm : Realms, revision : Revisions, assurance : Levels]

Accepted(i)            == [kind |-> "accepted", identity |-> i]
Provisional(i, t, ps)  == [kind |-> "provisional", identity |-> i,
                           reconcile_by |-> t, pending |-> ps]
Rejected(why)          == [kind |-> "rejected", reason |-> why]
Degraded(ps)           == [kind |-> "degraded", unavailable |-> ps]

RejectionReason ==
  {"InvalidProof", "RevokedProof", "ProviderConflict", "CanonicalIdentityConflict",
   "PolicyRevisionConflict", "StaleProof", "InsufficientAssurance",
   "NonIndependentProofs", "WrongProofClass", "InvalidPolicy"}

ArbitrationDecision ==
  [kind : {"accepted"}, identity : AcceptedIdentity]
    \cup [kind : {"provisional"}, identity : AcceptedIdentity,
          reconcile_by : Nat, pending : SUBSET Providers]
    \cup [kind : {"rejected"}, reason : RejectionReason]
    \cup [kind : {"degraded"}, unavailable : SUBSET Providers]

-----------------------------------------------------------------------------
Duplicated(s) == \E i, j \in DOMAIN s : i < j /\ s[i].provider = s[j].provider
Has(s, k)     == \E i \in DOMAIN s : s[i].kind = k

VerifiedAt(s) == {i \in DOMAIN s : s[i].kind = "verified"}
Proofs(s)     == {s[i].proof : i \in VerifiedAt(s)}

(* The first of the verdicts at I, in the order of arrival.                *)
First(s, I) == s[CHOOSE i \in I : \A j \in I : i <= j].proof

(* Mutant: the time a proof runs out at is left to who issued it.          *)
StaleButForExpiry(proof, now) == ~proof.complete \/ proof.verified_at > now

Stale(proof, now) ==
  \/ ~proof.complete
  \/ proof.verified_at > now
  \/ proof.expires_at <= now

(* by_provider.get(provider) is None or Unavailable.                       *)
Missing(s, p) ==
  \A i \in DOMAIN s : s[i].provider = p => s[i].kind = "unavailable"

(* degraded.                                                               *)
DegradedFor(required, s) == Degraded({p \in required : Missing(s, p)})

(* Mutant: the strongest proof rates the identity.                         *)
GreatestAssurance(proofs) ==
  CHOOSE a \in {p.assurance : p \in proofs} : \A p \in proofs : a >= p.assurance

LeastAssurance(proofs) ==
  CHOOSE a \in {p.assurance : p \in proofs} : \A p \in proofs : a <= p.assurance

(* Mutant: the assurance of the first proof is taken for all.              *)
FirstAssurance(first, proofs) ==
  [user |-> first.user, realm |-> first.realm, revision |-> first.revision,
   assurance |-> first.assurance]

(* Mutant: two proofs add up.                                              *)
AddedAssurance(first, proofs) ==
  [user |-> first.user, realm |-> first.realm, revision |-> first.revision,
   assurance |-> first.assurance + LeastAssurance(proofs)]

(* accepted_identity: the first proof names it, the weakest rates it.      *)
IdentityOf(first, proofs) ==
  [user |-> first.user, realm |-> first.realm, revision |-> first.revision,
   assurance |-> LeastAssurance(proofs)]

Meets(proof, class, floor) == proof.class = class /\ proof.assurance >= floor

(* optimistic: one eligible proof admits for a while, as long as all other *)
(* required providers have not answered or are down.  A proof of a         *)
(* provider that is not required is never eligible.                        *)
Optimistic(policy, s, now) ==
  LET eligible == {i \in VerifiedAt(s) :
                     /\ Meets(s[i].proof, "CustomerIdentity", policy.floor)
                     /\ s[i].provider \in policy.required}
      pending  == policy.required \ {s[i].provider : i \in eligible}
      identity == IdentityOf(First(s, eligible), {s[i].proof : i \in eligible})
  IN
  IF policy.required = {} \/ policy.pending = 0 THEN Rejected("InvalidPolicy")
  ELSE IF eligible = {}
    THEN IF \E p \in Proofs(s) : p.assurance < policy.floor
           THEN Rejected("InsufficientAssurance")
         ELSE IF \E p \in Proofs(s) : p.class # "CustomerIdentity"
           THEN Rejected("WrongProofClass")
         ELSE DegradedFor(policy.required, s)
  ELSE IF pending = {} THEN Accepted(identity)
  ELSE IF \A p \in pending : Missing(s, p)
    THEN Provisional(identity, now + policy.pending, pending)
  ELSE DegradedFor(policy.required, s)

ProofOf(s, p) == First(s, {i \in VerifiedAt(s) : s[i].provider = p})

(* strict_pair.  Its arm for other verdicts is dead: Arbitrate refuses     *)
(* every negative verdict first.                                           *)
StrictPair(policy, s) ==
  LET one  == policy.providers[1]
      two  == policy.providers[2]
      pair == {ProofOf(s, one), ProofOf(s, two)}
  IN
  IF one = two THEN Rejected("InvalidPolicy")
  ELSE IF Missing(s, one) \/ Missing(s, two) THEN DegradedFor({one, two}, s)
  ELSE IF \E p \in pair : p.class # "CustomerIdentity" THEN Rejected("WrongProofClass")
  ELSE IF \E p \in pair : p.assurance < policy.floor THEN Rejected("InsufficientAssurance")
  ELSE IF ProofOf(s, one).root = ProofOf(s, two).root THEN Rejected("NonIndependentProofs")
  ELSE Accepted(IdentityOf(ProofOf(s, one), pair))

(* explicit_class: the classes of the two policies that name one provider. *)
ExplicitClass(policy, s) ==
  LET proof == ProofOf(s, policy.provider) IN
  IF Missing(s, policy.provider) THEN DegradedFor({policy.provider}, s)
  ELSE IF proof.class # policy.mode THEN Rejected("WrongProofClass")
  ELSE IF proof.assurance < policy.floor THEN Rejected("InsufficientAssurance")
  ELSE Accepted(IdentityOf(proof, {proof}))

(* arbitrate: what is wrong with any verdict comes before what is right    *)
(* with another, in the order of the code's returns.                       *)
Arbitrate(policy, s, now) ==
  LET proofs == Proofs(s)
      first  == First(s, VerifiedAt(s))
  IN
  IF Duplicated(s) THEN Rejected("ProviderConflict")
  ELSE IF Has(s, "revoked") THEN Rejected("RevokedProof")
  ELSE IF Has(s, "conflict") THEN Rejected("ProviderConflict")
  ELSE IF Has(s, "invalid") THEN Rejected("InvalidProof")
  ELSE IF \E p \in proofs : Stale(p, now) THEN Rejected("StaleProof")
  ELSE IF \E p \in proofs : p.user # first.user \/ p.realm # first.realm
    THEN Rejected("CanonicalIdentityConflict")
  ELSE IF \E p \in proofs : p.revision # first.revision
    THEN Rejected("PolicyRevisionConflict")
  ELSE CASE policy.mode = "optimistic" -> Optimistic(policy, s, now)
         [] policy.mode = "pair"       -> StrictPair(policy, s)
         [] OTHER                      -> ExplicitClass(policy, s)
=============================================================================
