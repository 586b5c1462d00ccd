------------------------------- MODULE ProofRound -------------------------------
(***************************************************************************)
(* One round of proofs on a session: a route gates its adapters            *)
(* (provider_adapter.rs), asks the providers in any order and any way,     *)
(* more than once perhaps, and arbitrates the verdicts it has              *)
(* (proof_policy.rs) whenever it likes.  Sessions end and proofs run out   *)
(* meanwhile.                                                              *)
(*                                                                         *)
(* The backends and the route are not in the repository: a backend answers *)
(* a proof of any label, or an error; the route takes an error as the      *)
(* verdict of the same name and nothing from a missing proof.              *)
(***************************************************************************)
EXTENDS ProviderAdapter, FiniteSets

CONSTANTS
  Policies,    \* the policies a route may have
  Offers,      \* for each provider, the proofs its backend may answer, as it labels them
  Backends,    \* the sets of operations a backend may implement
  Required,    \* the operations the route gates its adapters on
  MaxVerdicts, \* bound: the number of verdicts in a round
  MaxRepeats,  \* bound: as many verdicts, when one provider has been asked twice
  MaxRevoked   \* bound: the number of sessions revoked in a round

ASSUME RoundAssumption ==
  /\ Policies \subseteq ProofPolicies
  /\ Offers \in [Providers -> SUBSET VerifiedProof]
  /\ Required \subseteq Full
  /\ {MaxVerdicts, MaxRepeats, MaxRevoked} \subseteq Nat /\ MaxRepeats <= MaxVerdicts

VARIABLES
  policy,        \* of the route
  capabilities,  \* of the backend of each provider
  phase,         \* "gate", "open" or "refused"
  ended,         \* the providers whose session has been revoked
  verdicts,      \* the verdicts so far, in the order of arrival
  decision,      \* the last decision
  now,
  vouched        \* history: <<p, proof>> when the backend of p answered proof

vars == <<policy, capabilities, phase, ended, verdicts, decision, now, vouched>>

NoDecision == [kind |-> "none"]

TypeOK ==
  /\ policy \in Policies
  /\ capabilities \in [Providers -> Backends]
  /\ phase \in {"gate", "open", "refused"}
  /\ ended \in SUBSET Providers
  /\ verdicts \in Seq(Verdict) /\ Len(verdicts) <= MaxVerdicts
  /\ decision \in ArbitrationDecision \cup {NoDecision}
  /\ now \in Time
  /\ vouched \in SUBSET (Providers \X VerifiedProof)

Init ==
  /\ policy \in Policies
  /\ capabilities \in [Providers -> Backends]
  /\ phase = "gate"
  /\ ended = {} /\ verdicts = <<>> /\ decision = NoDecision /\ now = 0 /\ vouched = {}

-----------------------------------------------------------------------------
(* The route checks all of its adapters and does without none of them.     *)
Gate ==
  /\ phase = "gate"
  /\ phase' = IF \A p \in Providers : ValidateAdapterContract(capabilities[p], Required).ok
              THEN "open" ELSE "refused"
  /\ UNCHANGED <<policy, capabilities, ended, verdicts, decision, now, vouched>>

Asking(p, operation) ==
  /\ phase = "open"
  /\ operation \in capabilities[p]
  /\ Len(verdicts) < IF \E i \in DOMAIN verdicts : verdicts[i].provider = p
                      THEN MaxRepeats ELSE MaxVerdicts
  /\ ~Duplicated(verdicts)

(* What the backend of p may answer: its session may be good or not, and   *)
(* it is never good after it was revoked.                                  *)
ProofAnswers(p, operation) ==
  {Err(c, operation) : c \in {"Unavailable", "Revoked", "Invalid", "Conflict"}}
    \cup {Ok(proof) : proof \in IF p \in ended THEN {} ELSE Offers[p]}

InspectionAnswers(p) ==
  {Err(c, "InspectSession") : c \in {"Unavailable", "Invalid", "Conflict"}}
    \cup {Ok([state |-> IF p \in ended THEN "Revoked" ELSE "Active", proof |-> o]) :
            o \in {{}} \cup {{proof} : proof \in Offers[p]}}

VerdictOnError(p, class) ==
  CASE class = "Unavailable" -> Bare("unavailable", p)
    [] class = "Revoked"     -> Bare("revoked", p)
    [] class = "Conflict"    -> Bare("conflict", p)
    [] OTHER                 -> Bare("invalid", p)

Collect(verdict) ==
  /\ verdicts' = Append(verdicts, verdict)
  /\ UNCHANGED <<policy, capabilities, phase, ended, decision, now>>

CollectProof(p, operation) ==
  /\ Asking(p, operation)
  /\ \E answer \in ProofAnswers(p, operation) :
       LET result == AdaptProof(p, operation, answer) IN
       /\ Collect(IF result.ok THEN Verified(result.value)
                  ELSE VerdictOnError(p, result.class))
       /\ vouched' = IF answer.ok THEN vouched \cup {<<p, answer.value>>} ELSE vouched

VerifyProof(p) == CollectProof(p, "VerifyProof")
Exchange(p)    == CollectProof(p, "Exchange")

(* An active session without a proof is no verdict.                        *)
InspectSession(p) ==
  /\ Asking(p, "InspectSession")
  /\ \E answer \in InspectionAnswers(p) :
       LET result == AdaptInspection(p, answer) IN
       /\ IF ~result.ok THEN Collect(VerdictOnError(p, result.class))
          ELSE IF result.value.state = "Revoked" THEN Collect(Bare("revoked", p))
          ELSE /\ result.value.proof # {}
               /\ Collect(Verified(CHOOSE proof \in result.value.proof : TRUE))
       /\ vouched' = IF answer.ok THEN vouched \cup {<<p, x>> : x \in answer.value.proof}
                     ELSE vouched

(* revoke, when it succeeds.                                               *)
Revoke(p) ==
  /\ phase = "open"
  /\ "Revoke" \in capabilities[p]
  /\ p \notin ended /\ Cardinality(ended) < MaxRevoked
  /\ ended' = ended \cup {p}
  /\ UNCHANGED <<policy, capabilities, phase, verdicts, decision, now, vouched>>

Decide ==
  /\ phase = "open"
  /\ decision' = Arbitrate(policy, verdicts, now)
  /\ UNCHANGED <<policy, capabilities, phase, ended, verdicts, now, vouched>>

Tick ==
  /\ now < MaxTime
  /\ now' = now + 1
  /\ UNCHANGED <<policy, capabilities, phase, ended, verdicts, decision, vouched>>

Next ==
  \/ Gate \/ Decide \/ Tick
  \/ \E p \in Providers :
       VerifyProof(p) \/ Exchange(p) \/ InspectSession(p) \/ Revoke(p)

Spec == Init /\ [][Next]_vars

-----------------------------------------------------------------------------
Admits(d) == d.kind \in {"accepted", "provisional"}

Reorderings(s) ==
  {[i \in DOMAIN s |-> s[f[i]]] : f \in
     {f \in [DOMAIN s -> DOMAIN s] : \A i, j \in DOMAIN s : f[i] = f[j] => i = j}}

(* "Arrival order is absent from the input model, so the same set of       *)
(* results is deterministic" (arbitrate): in whatever order the verdicts   *)
(* of a round had come in, the decision would be the same.                 *)
OrderIndependent ==
  \A s \in Reorderings(verdicts) :
    Arbitrate(policy, s, now) = Arbitrate(policy, verdicts, now)

(* A session is admitted on proofs that the backends of the providers they *)
(* name have answered, and a strict pair on two backends, two roots and    *)
(* one user: no backend can stand in for another (the typed adapters).     *)
VouchedByOwnBackend ==
  Admits(decision) =>
    LET counted == {v \in vouched : v[1] = v[2].provider
                                    /\ v[2].user = decision.identity.user} IN
    /\ counted # {}
    /\ policy.mode = "pair" =>
         \E v, w \in counted : v[1] = policy.providers[1] /\ w[1] = policy.providers[2]
                               /\ v[2].root # w[2].root

Contradicted(s, t) ==
  \/ \E i, j \in DOMAIN s : i # j /\ s[i].provider = s[j].provider
  \/ \E i \in DOMAIN s : s[i].kind \in Negative
  \/ \E i \in VerifiedAt(s) : s[i].proof.expires_at <= t
  \/ \E i, j \in VerifiedAt(s) : s[i].proof.user # s[j].proof.user

(* "Revocation, rejection, provider conflict, stale proof, or canonical    *)
(* identity disagreement always dominates a prior success" (arbitrate):    *)
(* once the round has seen one, no later decision of it admits, whatever   *)
(* arrives after it.                                                       *)
NegativeIsFinal == [][Contradicted(verdicts, now) => decision' = decision \/ ~Admits(decision')]_vars

(* As a round goes on its admission only narrows: it stays with the same   *)
(* user, realm and revision, its assurance never rises, and what was       *)
(* accepted does not fall back to provisional.                             *)
AdmissionOnlyNarrows ==
  [][Admits(decision) /\ Admits(decision') =>
       /\ decision'.identity.user = decision.identity.user
       /\ decision'.identity.realm = decision.identity.realm
       /\ decision'.identity.revision = decision.identity.revision
       /\ decision'.identity.assurance <= decision.identity.assurance
       /\ decision.kind = "accepted" => decision'.kind = "accepted"]_vars

=============================================================================
