---------------------------- MODULE ProofRoundProofs ----------------------------
(***************************************************************************)
(* Proofs about ProofRound, for any providers' proofs, policies and bounds.*)
(*                                                                         *)
(* All that an admission depends on is the set of verdicts it counts, and  *)
(* that set only grows while a round goes on; the inductive invariant says *)
(* that a decision was made on a prefix of the verdicts, at an earlier     *)
(* time, and that every verified verdict is of a backend's own provider.   *)
(***************************************************************************)
EXTENDS ProofRound, FiniteSetTheorems, TLAPS

(* The verdicts that name and rate the identity an admission is of.        *)
Counted(pol, s) ==
  {i \in VerifiedAt(s) :
     \/ /\ pol.mode = "optimistic" /\ s[i].provider \in pol.required
        /\ Meets(s[i].proof, "CustomerIdentity", pol.floor)
     \/ pol.mode = "pair" /\ s[i].provider \in {pol.providers[1], pol.providers[2]}
     \/ /\ pol.mode \in {"SubsystemGrant", "PrivilegedAdministration"}
        /\ s[i].provider = pol.provider}

Earlier(s, k) == [i \in 1 .. k |-> s[i]]

IInv ==
  /\ TypeOK
  /\ \A i \in VerifiedAt(verdicts) : <<verdicts[i].provider, verdicts[i].proof>> \in vouched
  /\ decision # NoDecision =>
       \E k \in 0 .. Len(verdicts), t \in 0 .. now :
         decision = Arbitrate(policy, Earlier(verdicts, k), t)

-----------------------------------------------------------------------------
(* A set of natural numbers that is not empty has a least element.         *)
Less == {ss \in Nat \X Nat : ss[1] < ss[2]}

LEMMA LessWellFounded == IsWellFoundedOn(Less, Nat)
BY NatLessThanWellFounded, Zenon DEF OpToRel, Less

LEMMA Smallest ==
  ASSUME NEW T \in SUBSET Nat, T # {}
  PROVE  \E m \in T : \A n \in T : m <= n
<1>1. PICK m \in T : \A n \in T : ~(<<n, m>> \in Less)
  BY LessWellFounded, WFMin, Zenon
<1>2. \A n \in T : ~(n < m)
  BY <1>1 DEF Less
<1> QED
  BY <1>2

(* The choices of the arbitration exist: the first of some verdicts, and   *)
(* the least assurance of some proofs.                                     *)
LEMMA FirstAmong ==
  ASSUME NEW s \in Seq(Verdict), NEW I \in SUBSET DOMAIN s, I # {}
  PROVE  \E i \in I : First(s, I) = s[i].proof
<1>1. I \in SUBSET Nat
  OBVIOUS
<1>2. \E i \in I : \A j \in I : i <= j
  BY <1>1, Smallest
<1> DEFINE least == CHOOSE i \in I : \A j \in I : i <= j
<1>3. least \in I
  BY <1>2
<1> QED
  BY <1>3 DEF First

LEMMA LeastAmong ==
  ASSUME NEW proofs \in SUBSET VerifiedProof, proofs # {}
  PROVE  /\ LeastAssurance(proofs) \in Levels
         /\ \A p \in proofs : LeastAssurance(proofs) <= p.assurance
         /\ \E p \in proofs : LeastAssurance(proofs) = p.assurance
<1> DEFINE A == {p.assurance : p \in proofs}
<1>1. A \in SUBSET Levels /\ A # {}
  BY DEF VerifiedProof
<1>2. A \in SUBSET Nat
  BY <1>1, ProofAssumption DEF Levels
<1>3. PICK a \in A : \A b \in A : a <= b
  BY <1>1, <1>2, Smallest
<1>4. \E b \in A : \A p \in proofs : b <= p.assurance
  BY <1>3
<1>5. /\ LeastAssurance(proofs) \in A
      /\ \A p \in proofs : LeastAssurance(proofs) <= p.assurance
  BY <1>4 DEF LeastAssurance
<1> QED
  BY <1>1, <1>5

-----------------------------------------------------------------------------
(* What is wrong with a round comes first: nothing is admitted, or         *)
(* degraded, against a negative verdict, a stale proof or a disagreement.  *)
LEMMA NothingWrong ==
  ASSUME NEW pol, NEW s \in Seq(Verdict), NEW t, Arbitrate(pol, s, t).kind # "rejected"
  PROVE  /\ \A i, j \in DOMAIN s : s[i].provider = s[j].provider => i = j
         /\ \A i \in DOMAIN s : s[i].kind \notin Negative
         /\ \A i \in VerifiedAt(s) : ~Stale(s[i].proof, t)
         /\ \A i, j \in VerifiedAt(s) : /\ s[i].proof.user = s[j].proof.user
                                        /\ s[i].proof.realm = s[j].proof.realm
                                        /\ s[i].proof.revision = s[j].proof.revision
<1>1. \A why : Rejected(why).kind = "rejected"
  BY DEF Rejected
<1>2. /\ ~Duplicated(s)
      /\ ~Has(s, "revoked") /\ ~Has(s, "conflict") /\ ~Has(s, "invalid")
      /\ \A p \in Proofs(s) : /\ ~Stale(p, t)
                              /\ p.user = First(s, VerifiedAt(s)).user
                              /\ p.realm = First(s, VerifiedAt(s)).realm
                              /\ p.revision = First(s, VerifiedAt(s)).revision
  BY <1>1 DEF Arbitrate
<1>3. \A i, j \in DOMAIN s : s[i].provider = s[j].provider => i = j
  <2>1. \A i, j \in DOMAIN s : i < j \/ j < i \/ i = j
    OBVIOUS
  <2> QED
    BY <1>2, <2>1 DEF Duplicated
<1>4. \A i \in DOMAIN s : s[i].kind \notin Negative
  BY <1>2 DEF Has, Negative
<1> QED
  BY <1>2, <1>3, <1>4 DEF Proofs

(* Then the policy alone decides.                                          *)
LEMMA PolicyDecides ==
  ASSUME NEW pol, NEW s, NEW t, Arbitrate(pol, s, t).kind # "rejected"
  PROVE  Arbitrate(pol, s, t) =
           CASE pol.mode = "optimistic" -> Optimistic(pol, s, t)
             [] pol.mode = "pair"       -> StrictPair(pol, s)
             [] OTHER                   -> ExplicitClass(pol, s)
<1>1. \A why : Rejected(why).kind = "rejected"
  BY DEF Rejected
<1> QED
  BY <1>1 DEF Arbitrate

LEMMA VerdictTyped ==
  ASSUME NEW v \in Verdict
  PROVE  /\ v.kind \in Negative \cup {"verified", "unavailable"} /\ v.provider \in Providers
         /\ v.kind = "verified" => v.proof \in VerifiedProof /\ v.proof.provider = v.provider
BY DEF Verdict, Negative

(* The verdict of a provider that has given a good one.                    *)
LEMMA TheProof ==
  ASSUME NEW s \in Seq(Verdict), NEW p, ~Missing(s, p),
         \A i, j \in DOMAIN s : s[i].provider = s[j].provider => i = j,
         \A i \in DOMAIN s : s[i].kind \notin Negative
  PROVE  \E i \in VerifiedAt(s) : /\ s[i].provider = p /\ ProofOf(s, p) = s[i].proof
                                  /\ s[i].proof \in VerifiedProof
<1>1. PICK i \in DOMAIN s : s[i].provider = p /\ s[i].kind # "unavailable"
  BY DEF Missing
<1>2. s[i] \in Verdict
  OBVIOUS
<1>3. i \in VerifiedAt(s) /\ s[i].proof \in VerifiedProof
  BY <1>1, <1>2, VerdictTyped DEF VerifiedAt
<1>4. {j \in VerifiedAt(s) : s[j].provider = p} = {i}
  BY <1>1, <1>3 DEF VerifiedAt
<1>5. {i} \in SUBSET DOMAIN s /\ {i} # {}
  OBVIOUS
<1>6. First(s, {i}) = s[i].proof
  BY <1>5, FirstAmong
<1> QED
  BY <1>1, <1>3, <1>4, <1>6 DEF ProofOf

-----------------------------------------------------------------------------
(* What an admission is of: the verdicts it counts name one identity, the  *)
(* weakest of them rates it, and a pair is of both providers and of two    *)
(* roots.                                                                  *)
Shaped(pol, s, d) ==
  /\ \E i \in Counted(pol, s) :
       d.identity = IdentityOf(s[i].proof, {s[j].proof : j \in Counted(pol, s)})
  /\ (d.kind = "accepted") <=>
       (pol.mode = "optimistic" => pol.required \subseteq {s[i].provider : i \in Counted(pol, s)})
  /\ pol.mode = "pair" =>
       \E i, j \in Counted(pol, s) : /\ s[i].provider = pol.providers[1]
                                     /\ s[j].provider = pol.providers[2]
                                     /\ s[i].proof.root # s[j].proof.root

LEMMA OptimisticShape ==
  ASSUME NEW pol, pol.mode = "optimistic", NEW s \in Seq(Verdict), NEW t,
         Admits(Optimistic(pol, s, t))
  PROVE  /\ Shaped(pol, s, Optimistic(pol, s, t)) /\ Counted(pol, s) # {}
         /\ \/ /\ Optimistic(pol, s, t).kind = "accepted"
               /\ \E i : Optimistic(pol, s, t) = Accepted(i)
            \/ \E i : Optimistic(pol, s, t) =
                 Provisional(i, t + pol.pending,
                             pol.required \ {s[j].provider : j \in Counted(pol, s)})
<1> DEFINE eligible == {i \in VerifiedAt(s) :
                          /\ Meets(s[i].proof, "CustomerIdentity", pol.floor)
                          /\ s[i].provider \in pol.required}
           pending  == pol.required \ {s[i].provider : i \in eligible}
           identity == IdentityOf(First(s, eligible), {s[i].proof : i \in eligible})
           d        == Optimistic(pol, s, t)
<1>1. eligible = Counted(pol, s) /\ eligible \in SUBSET DOMAIN s
  BY DEF Counted, VerifiedAt
<1>2. /\ \A why : ~Admits(Rejected(why))
      /\ \A ps : ~Admits(Degraded(ps))
  BY DEF Admits, Rejected, Degraded
<1>3. /\ eligible # {}
      /\ \/ pending = {} /\ d = Accepted(identity)
         \/ pending # {} /\ d = Provisional(identity, t + pol.pending, pending)
  BY <1>2 DEF Optimistic, DegradedFor
<1>4. PICK i \in eligible : First(s, eligible) = s[i].proof
  BY <1>1, <1>3, FirstAmong
<1> HIDE DEF eligible
<1>5. d.identity = IdentityOf(s[i].proof, {s[j].proof : j \in eligible})
  BY <1>3, <1>4 DEF Accepted, Provisional
<1>6. d.kind = "accepted" <=> pending = {}
  BY <1>3 DEF Accepted, Provisional
<1>7. pending = {} <=> pol.required \subseteq {s[j].provider : j \in eligible}
  OBVIOUS
<1>8. d = Accepted(identity) \/ d = Provisional(identity, t + pol.pending, pending)
  BY <1>3
<1>9. d = Accepted(identity) => d.kind = "accepted"
  BY DEF Accepted
<1> HIDE DEF d, identity
<1>10. Shaped(pol, s, d)
  BY <1>1, <1>4, <1>5, <1>6, <1>7 DEF Shaped
<1>11. \/ d.kind = "accepted" /\ \E k : d = Accepted(k)
       \/ \E k : d = Provisional(k, t + pol.pending, pending)
  BY <1>8, <1>9
<1> QED
  BY <1>1, <1>3, <1>10, <1>11 DEF d

LEMMA PairShape ==
  ASSUME NEW pol, pol.mode = "pair", NEW s \in Seq(Verdict),
         \A i, j \in DOMAIN s : s[i].provider = s[j].provider => i = j,
         \A i \in DOMAIN s : s[i].kind \notin Negative,
         Admits(StrictPair(pol, s))
  PROVE  /\ Shaped(pol, s, StrictPair(pol, s)) /\ Counted(pol, s) # {}
         /\ \E i : StrictPair(pol, s) = Accepted(i)
<1> DEFINE one  == pol.providers[1]
           two  == pol.providers[2]
           d    == StrictPair(pol, s)
<1>1. /\ \A why : ~Admits(Rejected(why))
      /\ \A ps : ~Admits(Degraded(ps))
  BY DEF Admits, Rejected, Degraded
<1>2. /\ ~Missing(s, one) /\ ~Missing(s, two)
      /\ ProofOf(s, one).root # ProofOf(s, two).root
      /\ d = Accepted(IdentityOf(ProofOf(s, one), {ProofOf(s, one), ProofOf(s, two)}))
  BY <1>1 DEF StrictPair, DegradedFor
<1>3. PICK i \in VerifiedAt(s) : s[i].provider = one /\ ProofOf(s, one) = s[i].proof
  BY <1>2, TheProof
<1>4. PICK j \in VerifiedAt(s) : s[j].provider = two /\ ProofOf(s, two) = s[j].proof
  BY <1>2, TheProof
<1>5. Counted(pol, s) = {i, j}
  BY <1>3, <1>4 DEF Counted, VerifiedAt
<1>6. {s[k].proof : k \in {i, j}} = {ProofOf(s, one), ProofOf(s, two)}
  BY <1>3, <1>4
<1>7. /\ d.identity = IdentityOf(s[i].proof, {s[k].proof : k \in {i, j}})
      /\ d.kind = "accepted"
  <2>1. /\ d.identity = IdentityOf(ProofOf(s, one), {ProofOf(s, one), ProofOf(s, two)})
        /\ d.kind = "accepted"
    BY <1>2 DEF Accepted
  <2> QED
    BY <1>3, <1>6, <2>1, Zenon
<1> HIDE DEF d
<1>8. Shaped(pol, s, d)
  BY <1>2, <1>3, <1>4, <1>5, <1>7 DEF Shaped
<1> QED
  BY <1>2, <1>5, <1>8 DEF d

LEMMA ClassShape ==
  ASSUME NEW pol, pol.mode \in {"SubsystemGrant", "PrivilegedAdministration"},
         NEW s \in Seq(Verdict),
         \A i, j \in DOMAIN s : s[i].provider = s[j].provider => i = j,
         \A i \in DOMAIN s : s[i].kind \notin Negative,
         Admits(ExplicitClass(pol, s))
  PROVE  /\ Shaped(pol, s, ExplicitClass(pol, s)) /\ Counted(pol, s) # {}
         /\ \E i : ExplicitClass(pol, s) = Accepted(i)
<1> DEFINE proof == ProofOf(s, pol.provider)
           d     == ExplicitClass(pol, s)
<1>1. /\ \A why : ~Admits(Rejected(why))
      /\ \A ps : ~Admits(Degraded(ps))
  BY DEF Admits, Rejected, Degraded
<1>2. ~Missing(s, pol.provider) /\ d = Accepted(IdentityOf(proof, {proof}))
  BY <1>1 DEF ExplicitClass, DegradedFor
<1>3. PICK i \in VerifiedAt(s) : s[i].provider = pol.provider /\ proof = s[i].proof
  BY <1>2, TheProof
<1>4. Counted(pol, s) = {i}
  BY <1>3 DEF Counted, VerifiedAt
<1>5. {s[k].proof : k \in {i}} = {proof}
  BY <1>3
<1>6. /\ d.identity = IdentityOf(s[i].proof, {s[k].proof : k \in {i}})
      /\ d.kind = "accepted"
  <2>1. d.identity = IdentityOf(proof, {proof}) /\ d.kind = "accepted"
    BY <1>2 DEF Accepted
  <2> QED
    BY <1>3, <1>5, <2>1, Zenon
<1> HIDE DEF d
<1>7. Shaped(pol, s, d)
  BY <1>4, <1>6 DEF Shaped
<1> QED
  BY <1>2, <1>4, <1>7 DEF d

LEMMA AdmissionShape ==
  ASSUME NEW pol \in ProofPolicies, NEW s \in Seq(Verdict), NEW t,
         Admits(Arbitrate(pol, s, t))
  PROVE  Shaped(pol, s, Arbitrate(pol, s, t)) /\ Counted(pol, s) # {}
<1>1. Arbitrate(pol, s, t).kind # "rejected"
  BY DEF Admits
<1>2. pol.mode \in {"optimistic", "pair", "SubsystemGrant", "PrivilegedAdministration"}
  BY DEF ProofPolicies
<1>3. /\ \A i, j \in DOMAIN s : s[i].provider = s[j].provider => i = j
      /\ \A i \in DOMAIN s : s[i].kind \notin Negative
      /\ Arbitrate(pol, s, t) =
           CASE pol.mode = "optimistic" -> Optimistic(pol, s, t)
             [] pol.mode = "pair"       -> StrictPair(pol, s)
             [] OTHER                   -> ExplicitClass(pol, s)
  <2>1. /\ \A i, j \in DOMAIN s : s[i].provider = s[j].provider => i = j
        /\ \A i \in DOMAIN s : s[i].kind \notin Negative
    BY <1>1, NothingWrong
  <2>2. Arbitrate(pol, s, t) =
          CASE pol.mode = "optimistic" -> Optimistic(pol, s, t)
            [] pol.mode = "pair"       -> StrictPair(pol, s)
            [] OTHER                   -> ExplicitClass(pol, s)
    BY <1>1, PolicyDecides
  <2> QED
    BY <2>1, <2>2
<1>4. CASE pol.mode = "optimistic"
  <2>1. Arbitrate(pol, s, t) = Optimistic(pol, s, t)
    BY <1>3, <1>4
  <2> QED
    BY <1>4, <2>1, OptimisticShape
<1>5. CASE pol.mode = "pair"
  <2>1. Arbitrate(pol, s, t) = StrictPair(pol, s)
    BY <1>3, <1>5
  <2> QED
    BY <1>3, <1>5, <2>1, PairShape
<1>6. CASE pol.mode \in {"SubsystemGrant", "PrivilegedAdministration"}
  <2>1. Arbitrate(pol, s, t) = ExplicitClass(pol, s)
    BY <1>3, <1>6
  <2> QED
    BY <1>3, <1>6, <2>1, ClassShape
<1> QED
  BY <1>2, <1>4, <1>5, <1>6

-----------------------------------------------------------------------------
(* A decision has the type of the API.                                     *)
LEMMA IdentityTyped ==
  ASSUME NEW pol, NEW s \in Seq(Verdict), NEW i \in Counted(pol, s)
  PROVE  IdentityOf(s[i].proof, {s[j].proof : j \in Counted(pol, s)}) \in AcceptedIdentity
<1>1. \A j \in Counted(pol, s) : s[j] \in Verdict /\ s[j].kind = "verified"
  BY DEF Counted, VerifiedAt
<1>2. \A j \in Counted(pol, s) : s[j].proof \in VerifiedProof
  BY <1>1, VerdictTyped
<1> DEFINE Q == {s[j].proof : j \in Counted(pol, s)}
<1>3. Q \in SUBSET VerifiedProof /\ Q # {} /\ s[i].proof \in VerifiedProof
  BY <1>2
<1> HIDE DEF Q
<1>4. LeastAssurance(Q) \in Levels
  BY <1>3, LeastAmong
<1>5. IdentityOf(s[i].proof, Q) \in AcceptedIdentity
  BY <1>3, <1>4 DEF IdentityOf, AcceptedIdentity, VerifiedProof
<1> QED
  BY <1>5 DEF Q

LEMMA NotAdmittedTyped ==
  ASSUME NEW pol \in ProofPolicies, NEW s \in Seq(Verdict), NEW t,
         ~Admits(Arbitrate(pol, s, t))
  PROVE  Arbitrate(pol, s, t) \in ArbitrationDecision
<1> DEFINE Refusals == {Rejected(why) : why \in RejectionReason}
                         \cup {Degraded(ps) : ps \in SUBSET Providers}
<1>1. ASSUME NEW why \in RejectionReason PROVE Rejected(why) \in Refusals
  OBVIOUS
<1>2. ASSUME NEW ps \in SUBSET Providers PROVE DegradedFor(ps, s) \in Refusals
  BY DEF DegradedFor
<1>3. Refusals \subseteq ArbitrationDecision
  BY DEF Rejected, Degraded, ArbitrationDecision
<1> HIDE DEF Refusals
<1>4. /\ \A i, u, ps : Admits(Provisional(i, u, ps))
      /\ \A i : Admits(Accepted(i))
  BY DEF Admits, Provisional, Accepted
<1>5. ASSUME pol.mode = "optimistic"
      PROVE  Optimistic(pol, s, t) \in Refusals \/ Admits(Optimistic(pol, s, t))
  <2>1. pol.required \in SUBSET Providers
    BY <1>5 DEF ProofPolicies
  <2> QED
    BY <1>1, <1>2, <1>4, <2>1 DEF Optimistic, RejectionReason
<1>6. ASSUME pol.mode = "pair"
      PROVE  StrictPair(pol, s) \in Refusals \/ Admits(StrictPair(pol, s))
  <2>1. pol.providers \in Providers \X Providers
    BY <1>6 DEF ProofPolicies
  <2>2. {pol.providers[1], pol.providers[2]} \in SUBSET Providers
    BY <2>1
  <2> QED
    BY <1>1, <1>2, <1>4, <2>2 DEF StrictPair, RejectionReason
<1>7. ASSUME pol.mode \in {"SubsystemGrant", "PrivilegedAdministration"}
      PROVE  ExplicitClass(pol, s) \in Refusals \/ Admits(ExplicitClass(pol, s))
  <2>1. {pol.provider} \in SUBSET Providers
    BY <1>7 DEF ProofPolicies
  <2> QED
    BY <1>1, <1>2, <1>4, <2>1 DEF ExplicitClass, RejectionReason
<1>8. pol.mode \in {"optimistic", "pair", "SubsystemGrant", "PrivilegedAdministration"}
  BY DEF ProofPolicies
<1>9. Arbitrate(pol, s, t) \in Refusals
  BY <1>1, <1>5, <1>6, <1>7, <1>8 DEF Arbitrate, RejectionReason
<1> QED
  BY <1>3, <1>9

LEMMA ArbitrateTyped ==
  ASSUME NEW pol \in ProofPolicies, NEW s \in Seq(Verdict), NEW t \in Nat
  PROVE  Arbitrate(pol, s, t) \in ArbitrationDecision
<1> DEFINE d == Arbitrate(pol, s, t)
<1>1. SUFFICES ASSUME Admits(d) PROVE d \in ArbitrationDecision
  BY NotAdmittedTyped
<1>2. PICK i \in Counted(pol, s) :
        d.identity = IdentityOf(s[i].proof, {s[j].proof : j \in Counted(pol, s)})
  <2>1. Shaped(pol, s, d)
    BY <1>1, AdmissionShape, Zenon
  <2> QED
    BY <2>1, Zenon DEF Shaped
<1>3. d.identity \in AcceptedIdentity
  BY <1>2, IdentityTyped
<1>4. \/ \E k : d = Accepted(k)
      \/ /\ pol.mode = "optimistic"
         /\ \E k : d = Provisional(k, t + pol.pending,
                         pol.required \ {s[j].provider : j \in Counted(pol, s)})
  <2>1. d.kind # "rejected"
    BY <1>1 DEF Admits
  <2>2. /\ \A a, b \in DOMAIN s : s[a].provider = s[b].provider => a = b
        /\ \A a \in DOMAIN s : s[a].kind \notin Negative
        /\ d = CASE pol.mode = "optimistic" -> Optimistic(pol, s, t)
                 [] pol.mode = "pair"       -> StrictPair(pol, s)
                 [] OTHER                   -> ExplicitClass(pol, s)
    <3>1. /\ \A a, b \in DOMAIN s : s[a].provider = s[b].provider => a = b
          /\ \A a \in DOMAIN s : s[a].kind \notin Negative
      BY <2>1, NothingWrong
    <3>2. d = CASE pol.mode = "optimistic" -> Optimistic(pol, s, t)
                [] pol.mode = "pair"       -> StrictPair(pol, s)
                [] OTHER                   -> ExplicitClass(pol, s)
      BY <2>1, PolicyDecides
    <3> QED
      BY <3>1, <3>2
  <2>3. CASE pol.mode = "optimistic"
    <3>1. d = Optimistic(pol, s, t)
      BY <2>2, <2>3
    <3> QED
      BY <1>1, <2>3, <3>1, OptimisticShape
  <2>4. CASE pol.mode = "pair"
    <3>1. d = StrictPair(pol, s)
      BY <2>2, <2>4
    <3> QED
      BY <1>1, <2>2, <2>4, <3>1, PairShape
  <2>5. CASE pol.mode \in {"SubsystemGrant", "PrivilegedAdministration"}
    <3>1. d = ExplicitClass(pol, s)
      BY <2>2, <2>5
    <3> QED
      BY <1>1, <2>2, <2>5, <3>1, ClassShape
  <2> QED
    BY <2>3, <2>4, <2>5 DEF ProofPolicies
<1>5. CASE \E k : d = Accepted(k)
  <2>1. PICK k : d = Accepted(k)
    BY <1>5
  <2>2. k \in AcceptedIdentity
    BY <1>3, <2>1 DEF Accepted
  <2> QED
    BY <2>1, <2>2 DEF Accepted, ArbitrationDecision
<1>6. CASE /\ pol.mode = "optimistic"
           /\ \E k : d = Provisional(k, t + pol.pending,
                           pol.required \ {s[j].provider : j \in Counted(pol, s)})
  <2>1. PICK k : d = Provisional(k, t + pol.pending,
                       pol.required \ {s[j].provider : j \in Counted(pol, s)})
    BY <1>6
  <2>2. k \in AcceptedIdentity
    BY <1>3, <2>1 DEF Provisional
  <2>3. pol.pending \in Nat /\ pol.required \in SUBSET Providers
    BY <1>6 DEF ProofPolicies
  <2>4. /\ t + pol.pending \in Nat
        /\ pol.required \ {s[j].provider : j \in Counted(pol, s)} \in SUBSET Providers
    BY <2>3
  <2> QED
    BY <2>1, <2>2, <2>4 DEF Provisional, ArbitrationDecision
<1> QED
  BY <1>4, <1>5, <1>6

-----------------------------------------------------------------------------
LEMMA EarlierTyped ==
  ASSUME NEW s \in Seq(Verdict), NEW k \in 0 .. Len(s)
  PROVE  /\ Earlier(s, k) \in Seq(Verdict) /\ Len(Earlier(s, k)) = k
         /\ \A i \in 1 .. k : i \in DOMAIN s /\ Earlier(s, k)[i] = s[i]
<1>1. Len(s) \in Nat /\ DOMAIN s = 1 .. Len(s) /\ k \in Nat
  OBVIOUS
<1>2. \A i \in 1 .. k : i \in 1 .. Len(s) /\ s[i] \in Verdict
  BY <1>1
<1>3. Earlier(s, k) \in [1 .. k -> Verdict]
  BY <1>2 DEF Earlier
<1> QED
  BY <1>1, <1>2, <1>3 DEF Earlier

LEMMA EarlierAll ==
  ASSUME NEW s \in Seq(Verdict)
  PROVE  Earlier(s, Len(s)) = s
BY DEF Earlier

LEMMA InitIInv == Init => IInv
<1> SUFFICES ASSUME Init PROVE IInv
  OBVIOUS
<1>1. TypeOK
  BY RoundAssumption, ProofAssumption DEF Init, TypeOK, Time
<1>2. VerifiedAt(verdicts) = {}
  BY DEF Init, VerifiedAt
<1> QED
  BY <1>1, <1>2 DEF Init, IInv

LEMMA CollectStep ==
  ASSUME IInv, NEW p, NEW operation, Asking(p, operation),
         NEW verdict \in Verdict, Collect(verdict),
         vouched \subseteq vouched', vouched' \in SUBSET (Providers \X VerifiedProof),
         verdict.kind = "verified" => <<verdict.provider, verdict.proof>> \in vouched'
  PROVE  IInv'
<1> DEFINE s == verdicts
<1>1. s \in Seq(Verdict) /\ Len(s) \in Nat
  BY DEF IInv, TypeOK
<1>2. verdicts' = Append(s, verdict)
  BY DEF Collect
<1>3. /\ verdicts' \in Seq(Verdict) /\ Len(verdicts') = Len(s) + 1
      /\ \A i \in DOMAIN s : i \in DOMAIN verdicts' /\ verdicts'[i] = s[i]
      /\ \A i \in DOMAIN verdicts' : i \in DOMAIN s \/ verdicts'[i] = verdict
  BY <1>1, <1>2
<1>4. Len(verdicts') <= MaxVerdicts
  <2>1. Len(s) < MaxRepeats \/ Len(s) < MaxVerdicts
    BY DEF Asking
  <2> QED
    BY <1>1, <1>3, <2>1, RoundAssumption
<1>5. TypeOK'
  BY <1>3, <1>4 DEF IInv, TypeOK, Collect
<1>6. \A i \in VerifiedAt(verdicts') :
        <<verdicts'[i].provider, verdicts'[i].proof>> \in vouched'
  BY <1>3 DEF IInv, VerifiedAt
<1>7. ASSUME decision # NoDecision
      PROVE  \E k \in 0 .. Len(verdicts'), t \in 0 .. now :
               decision = Arbitrate(policy, Earlier(verdicts', k), t)
  <2>1. PICK k \in 0 .. Len(s), t \in 0 .. now : decision = Arbitrate(policy, Earlier(s, k), t)
    BY <1>7 DEF IInv
  <2>2. k \in 0 .. Len(verdicts')
    BY <1>1, <1>3
  <2>3. Earlier(verdicts', k) = Earlier(s, k)
    BY <1>1, <1>3 DEF Earlier
  <2> QED
    BY <2>1, <2>2, <2>3
<1>8. /\ (\A i \in VerifiedAt(verdicts) :
            <<verdicts[i].provider, verdicts[i].proof>> \in vouched)'
      /\ (decision # NoDecision =>
            \E k \in 0 .. Len(verdicts), t \in 0 .. now :
              decision = Arbitrate(policy, Earlier(verdicts, k), t))'
  BY <1>6, <1>7 DEF Collect, NoDecision
<1> QED
  BY <1>5, <1>8 DEF IInv

(* What an adapter passes on is a proof of its own provider that its       *)
(* backend has answered.                                                   *)
LEMMA OfferTyped ==
  ASSUME NEW p \in Providers, NEW proof \in Offers[p]
  PROVE  proof \in VerifiedProof
BY RoundAssumption

LEMMA ErrorTyped ==
  ASSUME NEW p \in Providers, NEW class
  PROVE  VerdictOnError(p, class) \in Verdict /\ VerdictOnError(p, class).kind # "verified"
<1>1. \E k \in {"unavailable", "revoked", "conflict", "invalid"} :
        VerdictOnError(p, class) = Bare(k, p)
  BY DEF VerdictOnError
<1> QED
  BY <1>1 DEF Bare, Verdict, Negative

LEMMA GoodTyped ==
  ASSUME NEW proof \in VerifiedProof
  PROVE  /\ Verified(proof) \in Verdict /\ Verified(proof).provider = proof.provider
         /\ Verified(proof).proof = proof
BY DEF Verified, Verdict, VerifiedProof

LEMMA ProofStep ==
  ASSUME IInv, NEW p \in Providers, NEW operation, CollectProof(p, operation)
  PROVE  IInv'
<1>1. PICK answer \in ProofAnswers(p, operation) :
        LET result == AdaptProof(p, operation, answer) IN
        /\ Collect(IF result.ok THEN Verified(result.value)
                   ELSE VerdictOnError(p, result.class))
        /\ vouched' = IF answer.ok THEN vouched \cup {<<p, answer.value>>} ELSE vouched
  BY DEF CollectProof
<1> DEFINE result  == AdaptProof(p, operation, answer)
           verdict == IF result.ok THEN Verified(result.value)
                      ELSE VerdictOnError(p, result.class)
<1>2. Asking(p, operation) /\ vouched \in SUBSET (Providers \X VerifiedProof)
  BY DEF CollectProof, IInv, TypeOK
<1>3. \/ ~answer.ok
      \/ answer.ok /\ answer.value \in VerifiedProof
  <2>1. \/ \E c \in {"Unavailable", "Revoked", "Invalid", "Conflict"} :
             answer = Err(c, operation)
        \/ \E proof \in Offers[p] : answer = Ok(proof)
    BY DEF ProofAnswers
  <2> QED
    BY <2>1, OfferTyped DEF Err, Ok
<1>4. CASE result.ok
  <2>1. answer.ok /\ result.value = answer.value /\ answer.value.provider = p
    BY <1>4 DEF AdaptProof, EnforceProofProvider, Err, Ok
  <2>2. /\ verdict \in Verdict /\ verdict.provider = p /\ verdict.proof = answer.value
        /\ vouched' = vouched \cup {<<p, answer.value>>} /\ Collect(verdict)
    BY <1>1, <1>3, <1>4, <2>1, GoodTyped
  <2>3. vouched' \in SUBSET (Providers \X VerifiedProof) /\ vouched \subseteq vouched'
    BY <1>2, <1>3, <2>1, <2>2
  <2> HIDE DEF verdict
  <2> QED
    BY <1>2, <2>2, <2>3, CollectStep
<1>5. CASE ~result.ok
  <2>1. verdict \in Verdict /\ verdict.kind # "verified" /\ Collect(verdict)
    BY <1>1, <1>5, ErrorTyped
  <2>2. vouched' \in SUBSET (Providers \X VerifiedProof) /\ vouched \subseteq vouched'
    BY <1>1, <1>2, <1>3
  <2> HIDE DEF verdict
  <2> QED
    BY <1>2, <2>1, <2>2, CollectStep
<1> QED
  BY <1>4, <1>5

LEMMA InspectStep ==
  ASSUME IInv, NEW p \in Providers, InspectSession(p)
  PROVE  IInv'
<1>1. PICK answer \in InspectionAnswers(p) :
        LET result == AdaptInspection(p, answer) IN
        /\ IF ~result.ok THEN Collect(VerdictOnError(p, result.class))
           ELSE IF result.value.state = "Revoked" THEN Collect(Bare("revoked", p))
           ELSE /\ result.value.proof # {}
                /\ Collect(Verified(CHOOSE proof \in result.value.proof : TRUE))
        /\ vouched' = IF answer.ok THEN vouched \cup {<<p, x>> : x \in answer.value.proof}
                      ELSE vouched
  BY DEF InspectSession
<1> DEFINE result == AdaptInspection(p, answer)
<1>2. Asking(p, "InspectSession") /\ vouched \in SUBSET (Providers \X VerifiedProof)
  BY DEF InspectSession, IInv, TypeOK
<1>3. \/ ~answer.ok
      \/ /\ answer.ok /\ answer.value.proof \in SUBSET VerifiedProof
         /\ \A x, y \in answer.value.proof : x = y
  <2>1. \/ \E c \in {"Unavailable", "Invalid", "Conflict"} : answer = Err(c, "InspectSession")
        \/ \E a, o : answer = Ok([state |-> a, proof |-> o])
                       /\ (o = {} \/ \E proof \in Offers[p] : o = {proof})
    BY DEF InspectionAnswers
  <2> QED
    BY <2>1, OfferTyped DEF Err, Ok
<1>4. vouched' \in SUBSET (Providers \X VerifiedProof) /\ vouched \subseteq vouched'
  BY <1>1, <1>2, <1>3
<1>5. CASE ~result.ok
  <2>1. Collect(VerdictOnError(p, result.class))
    BY <1>1, <1>5
  <2> HIDE DEF result
  <2> QED
    BY <1>2, <1>4, <2>1, CollectStep, ErrorTyped
<1>6. CASE result.ok /\ result.value.state = "Revoked"
  <2>1. Collect(Bare("revoked", p)) /\ Bare("revoked", p) \in Verdict
        /\ Bare("revoked", p).kind # "verified"
    BY <1>1, <1>6 DEF Bare, Verdict, Negative
  <2> QED
    BY <1>2, <1>4, <2>1, CollectStep
<1>7. CASE result.ok /\ result.value.state # "Revoked"
  <2> DEFINE proof == CHOOSE proof \in result.value.proof : TRUE
  <2>1. answer.ok /\ result = answer
    BY <1>7 DEF AdaptInspection
  <2>2. /\ answer.value.proof # {} /\ proof \in answer.value.proof
        /\ Collect(Verified(proof))
    BY <1>1, <1>7, <2>1
  <2>3. proof.provider = p
    BY <1>7, <2>1, <2>2 DEF AdaptInspection, EnforceProofProvider, Err
  <2>4. proof \in VerifiedProof /\ <<p, proof>> \in vouched'
    BY <1>1, <1>3, <2>1, <2>2
  <2> HIDE DEF proof
  <2> QED
    BY <1>2, <1>4, <2>2, <2>3, <2>4, GoodTyped, CollectStep
<1> QED
  BY <1>5, <1>6, <1>7

LEMMA DecideStep ==
  ASSUME IInv, Decide
  PROVE  IInv'
<1>1. /\ policy \in ProofPolicies /\ verdicts \in Seq(Verdict)
      /\ now \in Nat /\ Len(verdicts) \in Nat
  BY RoundAssumption, ProofAssumption DEF IInv, TypeOK, Time
<1>2. decision' \in ArbitrationDecision
  BY <1>1, ArbitrateTyped DEF Decide
<1>3. TypeOK'
  BY <1>2 DEF Decide, IInv, TypeOK
<1>4. /\ Len(verdicts) \in 0 .. Len(verdicts) /\ now \in 0 .. now
      /\ Arbitrate(policy, verdicts, now)
           = Arbitrate(policy, Earlier(verdicts, Len(verdicts)), now)
  BY <1>1, EarlierAll
<1>5. \E k \in 0 .. Len(verdicts), t \in 0 .. now :
        decision' = Arbitrate(policy, Earlier(verdicts, k), t)
  BY <1>4 DEF Decide
<1>6. UNCHANGED <<policy, verdicts, now, vouched>>
  BY DEF Decide
<1> QED
  BY <1>3, <1>5, <1>6 DEF IInv, VerifiedAt, NoDecision

LEMMA TickStep ==
  ASSUME IInv, Tick
  PROVE  IInv'
<1>1. now \in Nat /\ now' = now + 1 /\ now' <= MaxTime
  BY ProofAssumption DEF Tick, IInv, TypeOK, Time
<1>2. TypeOK'
  BY <1>1, ProofAssumption DEF Tick, IInv, TypeOK, Time
<1>3. 0 .. now \subseteq 0 .. now'
  BY <1>1
<1>4. ASSUME decision # NoDecision
      PROVE  \E k \in 0 .. Len(verdicts), t \in 0 .. now' :
               decision = Arbitrate(policy, Earlier(verdicts, k), t)
  BY <1>3, <1>4 DEF IInv
<1>5. UNCHANGED <<policy, verdicts, decision, vouched>>
  BY DEF Tick
<1> QED
  BY <1>2, <1>4, <1>5 DEF IInv, VerifiedAt, NoDecision

LEMMA NextIInv == IInv /\ [Next]_vars => IInv'
<1> SUFFICES ASSUME IInv, [Next]_vars PROVE IInv'
  OBVIOUS
<1>1. CASE Gate
  <2>1. TypeOK'
    BY <1>1 DEF Gate, IInv, TypeOK
  <2> QED
    BY <1>1, <2>1 DEF Gate, IInv, VerifiedAt, NoDecision
<1>2. ASSUME NEW p \in Providers, Revoke(p) PROVE IInv'
  <2>1. TypeOK'
    BY <1>2 DEF Revoke, IInv, TypeOK
  <2> QED
    BY <1>2, <2>1 DEF Revoke, IInv, VerifiedAt, NoDecision
<1>3. ASSUME NEW p \in Providers, VerifyProof(p) \/ Exchange(p) PROVE IInv'
  BY <1>3, ProofStep DEF VerifyProof, Exchange
<1>4. CASE UNCHANGED vars
  BY <1>4 DEF vars, IInv, TypeOK, VerifiedAt, NoDecision
<1> QED
  BY <1>1, <1>2, <1>3, <1>4, InspectStep, DecideStep, TickStep DEF Next

LEMMA Invariance == Spec => []IInv
BY InitIInv, NextIInv, PTL DEF Spec

-----------------------------------------------------------------------------
(* A round keeps its types, for any providers' proofs and policies         *)
(* (arbitrate, the typed adapters).                                        *)
THEOREM TypeCorrect == Spec => []TypeOK
<1>1. IInv => TypeOK
  BY DEF IInv
<1> QED
  BY <1>1, Invariance, PTL

(* The two facts an admission is judged by: the verdicts it counts, and    *)
(* that all verdicts of the round it was made on agree.                    *)
LEMMA DecisionShape ==
  ASSUME IInv, Admits(decision)
  PROVE  \E k \in 0 .. Len(verdicts), t \in 0 .. now :
           LET s == Earlier(verdicts, k) IN
           /\ s \in Seq(Verdict) /\ Shaped(policy, s, decision)
           /\ \A i, j \in VerifiedAt(s) : s[i].proof.user = s[j].proof.user
<1>1. decision # NoDecision /\ decision.kind # "rejected"
  BY DEF Admits, NoDecision
<1>2. PICK k \in 0 .. Len(verdicts), t \in 0 .. now :
        decision = Arbitrate(policy, Earlier(verdicts, k), t)
  BY <1>1 DEF IInv
<1> DEFINE s == Earlier(verdicts, k)
<1>3. verdicts \in Seq(Verdict) /\ policy \in ProofPolicies
  BY RoundAssumption DEF IInv, TypeOK
<1>4. s \in Seq(Verdict)
  BY <1>3, EarlierTyped
<1>5. decision = Arbitrate(policy, s, t)
  BY <1>2
<1> HIDE DEF s
<1>6. Shaped(policy, s, decision)
  BY <1>3, <1>4, <1>5, AdmissionShape
<1>7. \A i, j \in VerifiedAt(s) : s[i].proof.user = s[j].proof.user
  BY <1>1, <1>4, <1>5, NothingWrong
<1> QED
  BY <1>4, <1>6, <1>7 DEF s

(* Whatever label a backend puts on a proof, nobody is admitted but on     *)
(* proofs of the backends of the providers they name, and a pair is of two *)
(* of them (enforce_proof_provider, strict_pair).                          *)
THEOREM VouchedCorrect == Spec => []VouchedByOwnBackend
<1>1. IInv => VouchedByOwnBackend
  <2> SUFFICES ASSUME IInv, Admits(decision) PROVE VouchedByOwnBackend
    BY DEF VouchedByOwnBackend
  <2>1. PICK k \in 0 .. Len(verdicts) :
          LET s == Earlier(verdicts, k) IN
          /\ s \in Seq(Verdict) /\ Shaped(policy, s, decision)
          /\ \A i, j \in VerifiedAt(s) : s[i].proof.user = s[j].proof.user
    BY DecisionShape
  <2> DEFINE s       == Earlier(verdicts, k)
             counted == {v \in vouched : v[1] = v[2].provider
                                         /\ v[2].user = decision.identity.user}
  <2>2. PICK i \in Counted(policy, s) :
          decision.identity = IdentityOf(s[i].proof, {s[j].proof : j \in Counted(policy, s)})
    BY <2>1 DEF Shaped
  <2>3. decision.identity.user = s[i].proof.user
    BY <2>2 DEF IdentityOf
  <2>4. verdicts \in Seq(Verdict) /\ vouched \in SUBSET (Providers \X VerifiedProof)
    BY DEF IInv, TypeOK
  <2>5. ASSUME NEW j \in Counted(policy, s)
        PROVE  <<s[j].provider, s[j].proof>> \in counted
    <3>1. j \in VerifiedAt(s) /\ j \in DOMAIN s /\ s[j].kind = "verified" /\ i \in VerifiedAt(s)
      BY DEF Counted, VerifiedAt
    <3>2. s[j].proof.user = decision.identity.user
      BY <2>1, <2>3, <3>1
    <3>3. s[j] = verdicts[j] /\ j \in DOMAIN verdicts /\ s[j] \in Verdict
      BY <2>1, <2>4, <3>1, EarlierTyped
    <3>4. <<s[j].provider, s[j].proof>> \in vouched
      BY <3>1, <3>3 DEF IInv, VerifiedAt
    <3>5. s[j].proof.provider = s[j].provider
      BY <3>1, <3>3, VerdictTyped
    <3> HIDE DEF s
    <3> QED
      BY <3>2, <3>4, <3>5
  <2>6. ASSUME policy.mode = "pair"
        PROVE  \E v, w \in counted : v[1] = policy.providers[1] /\ w[1] = policy.providers[2]
                                     /\ v[2].root # w[2].root
    <3>1. PICK a, b \in Counted(policy, s) : /\ s[a].provider = policy.providers[1]
                                             /\ s[b].provider = policy.providers[2]
                                             /\ s[a].proof.root # s[b].proof.root
      BY <2>1, <2>6 DEF Shaped
    <3>2. /\ <<s[a].provider, s[a].proof>> \in counted
          /\ <<s[b].provider, s[b].proof>> \in counted
      BY <2>5
    <3> HIDE DEF s, counted
    <3> QED
      BY <3>1, <3>2
  <2> QED
    BY <2>5, <2>6 DEF VouchedByOwnBackend
<1> QED
  BY <1>1, Invariance, PTL

(* Only Decide changes the decision.                                       *)
LEMMA OnlyDecide ==
  ASSUME [Next]_vars
  PROVE  Decide \/ decision' = decision
BY DEF Next, vars, Gate, Tick, VerifyProof, Exchange, CollectProof, InspectSession, Collect, Revoke

(* A revocation, rejection, conflict, expiry or disagreement that a round  *)
(* has seen is never outvoted (arbitrate).                                 *)
THEOREM NegativeCorrect == Spec => NegativeIsFinal
<1>1. IInv /\ [Next]_vars =>
        [Contradicted(verdicts, now) => decision' = decision \/ ~Admits(decision')]_vars
  <2> SUFFICES ASSUME IInv, [Next]_vars, Contradicted(verdicts, now), Decide, Admits(decision')
               PROVE  FALSE
    BY OnlyDecide
  <2>1. verdicts \in Seq(Verdict) /\ now \in Nat
    BY ProofAssumption DEF IInv, TypeOK, Time
  <2>2. /\ decision' = Arbitrate(policy, verdicts, now) /\ decision'.kind # "rejected"
    BY DEF Decide, Admits
  <2>3. /\ \A i, j \in DOMAIN verdicts : verdicts[i].provider = verdicts[j].provider => i = j
        /\ \A i \in DOMAIN verdicts : verdicts[i].kind \notin Negative
        /\ \A i \in VerifiedAt(verdicts) : ~Stale(verdicts[i].proof, now)
        /\ \A i, j \in VerifiedAt(verdicts) : verdicts[i].proof.user = verdicts[j].proof.user
    BY <2>1, <2>2, NothingWrong
  <2> QED
    BY <2>3 DEF Contradicted, Stale
<1> QED
  BY <1>1, Invariance, PTL DEF Spec, NegativeIsFinal

(* The verdicts an admission counts are counted by every later one.        *)
LEMMA CountedGrows ==
  ASSUME NEW pol, NEW s \in Seq(Verdict), NEW k \in 0 .. Len(s)
  PROVE  \A i \in Counted(pol, Earlier(s, k)) :
           i \in Counted(pol, s) /\ Earlier(s, k)[i] = s[i]
<1> DEFINE e == Earlier(s, k)
<1>1. /\ DOMAIN e = 1 .. k
      /\ \A i \in 1 .. k : i \in DOMAIN s /\ e[i] = s[i]
  BY EarlierTyped DEF Earlier
<1> HIDE DEF e
<1>2. \A i \in Counted(pol, e) : i \in Counted(pol, s) /\ e[i] = s[i]
  BY <1>1 DEF Counted, VerifiedAt
<1> QED
  BY <1>2 DEF e

(* As verdicts arrive and time goes by, an admission stays with its user,  *)
(* realm and revision, and its assurance and standing never improve on     *)
(* what the same proofs had (arbitrate, accepted_identity).                *)
THEOREM NarrowingCorrect == Spec => AdmissionOnlyNarrows
<1> DEFINE Narrows ==
      Admits(decision) /\ Admits(decision') =>
        /\ decision'.identity.user = decision.identity.user
        /\ decision'.identity.realm = decision.identity.realm
        /\ decision'.identity.revision = decision.identity.revision
        /\ decision'.identity.assurance <= decision.identity.assurance
        /\ decision.kind = "accepted" => decision'.kind = "accepted"
<1>1. IInv /\ [Next]_vars => [Narrows]_vars
  <2> SUFFICES ASSUME IInv, [Next]_vars, Decide, Admits(decision), Admits(decision')
               PROVE  Narrows
    <3>1. ASSUME IInv, decision' = decision, Admits(decision)
          PROVE  decision.identity.assurance <= decision.identity.assurance
      <4>1. decision.identity \in AcceptedIdentity
        BY <3>1 DEF IInv, TypeOK, ArbitrationDecision, NoDecision, Admits
      <4> QED
        BY <4>1, ProofAssumption DEF AcceptedIdentity, Levels
    <3> QED
      BY <3>1, OnlyDecide
  <2>1. /\ verdicts \in Seq(Verdict) /\ now \in Nat /\ policy \in ProofPolicies
        /\ decision # NoDecision /\ decision' = Arbitrate(policy, verdicts, now)
    BY RoundAssumption, ProofAssumption DEF IInv, TypeOK, Time, Decide, Admits, NoDecision
  <2>2. PICK k \in 0 .. Len(verdicts), t \in 0 .. now :
          decision = Arbitrate(policy, Earlier(verdicts, k), t)
    BY <2>1 DEF IInv
  <2> DEFINE s == verdicts
             e == Earlier(verdicts, k)
             S == Counted(policy, s)
             E == Counted(policy, e)
  <2>3. e \in Seq(Verdict)
    BY <2>1, EarlierTyped
  <2>4. Shaped(policy, e, decision) /\ Shaped(policy, s, decision')
    BY <2>1, <2>2, <2>3, AdmissionShape
  <2>5. \A i \in E : i \in S /\ e[i] = s[i]
    BY <2>1, CountedGrows
  <2> HIDE DEF e, s
  <2>6. PICK i \in E : decision.identity = IdentityOf(e[i].proof, {e[j].proof : j \in E})
    BY <2>4 DEF Shaped
  <2>7. PICK m \in S : decision'.identity = IdentityOf(s[m].proof, {s[j].proof : j \in S})
    BY <2>4 DEF Shaped
  <2>8. /\ s[i].proof.user = s[m].proof.user /\ s[i].proof.realm = s[m].proof.realm
        /\ s[i].proof.revision = s[m].proof.revision
    <3>1. Arbitrate(policy, s, now).kind # "rejected"
      BY <2>1 DEF Admits, s
    <3>2. \A a, b \in VerifiedAt(s) : /\ s[a].proof.user = s[b].proof.user
                                      /\ s[a].proof.realm = s[b].proof.realm
                                      /\ s[a].proof.revision = s[b].proof.revision
      BY <2>1, <3>1, NothingWrong DEF s
    <3>3. i \in VerifiedAt(s) /\ m \in VerifiedAt(s)
      BY <2>5 DEF Counted
    <3> QED
      BY <3>2, <3>3
  <2>9. LeastAssurance({s[j].proof : j \in S}) <= LeastAssurance({e[j].proof : j \in E})
    <3>1. \A j \in S : s[j].proof \in VerifiedProof
      BY <2>1, VerdictTyped DEF s, Counted, VerifiedAt
    <3> DEFINE Q == {s[j].proof : j \in S}
               P == {e[j].proof : j \in E}
    <3>2. Q \in SUBSET VerifiedProof /\ Q # {} /\ P \subseteq Q /\ P # {}
      BY <2>5, <2>6, <3>1
    <3> HIDE DEF P, Q
    <3>3. PICK p \in P : LeastAssurance(P) = p.assurance
      BY <3>2, LeastAmong
    <3>4. LeastAssurance(Q) <= p.assurance
      BY <3>2, LeastAmong
    <3> QED
      BY <3>3, <3>4 DEF P, Q
  <2>10. decision.kind = "accepted" => decision'.kind = "accepted"
    <3>1. {e[j].provider : j \in E} \subseteq {s[j].provider : j \in S}
      BY <2>5
    <3> QED
      BY <2>4, <3>1 DEF Shaped
  <2> QED
    BY <2>5, <2>6, <2>7, <2>8, <2>9, <2>10 DEF IdentityOf
<1> QED
  BY <1>1, Invariance, PTL DEF Spec, AdmissionOnlyNarrows

-----------------------------------------------------------------------------
(* Two slices of the same verdicts, each provider once in both or not.     *)
SameVerdicts(s, u) ==
  /\ \A i \in DOMAIN s : \E j \in DOMAIN u : u[j] = s[i]
  /\ \A j \in DOMAIN u : \E i \in DOMAIN s : s[i] = u[j]
  /\ Duplicated(s) <=> Duplicated(u)

LEMMA ReorderingIsSame ==
  ASSUME NEW s \in Seq(Verdict), NEW u \in Reorderings(s)
  PROVE  u \in Seq(Verdict) /\ SameVerdicts(s, u)
<1>1. PICK f \in [DOMAIN s -> DOMAIN s] :
        /\ \A i, j \in DOMAIN s : f[i] = f[j] => i = j
        /\ u = [i \in DOMAIN s |-> s[f[i]]]
  BY DEF Reorderings
<1>2. Len(s) \in Nat /\ DOMAIN s = 1 .. Len(s) /\ DOMAIN u = 1 .. Len(s)
  BY <1>1
<1>3. IsFiniteSet(DOMAIN s)
  BY <1>2, FS_Interval
<1>4. f \in Injection(DOMAIN s, DOMAIN s)
  BY <1>1 DEF Injection, IsInjective
<1>5. f \in Surjection(DOMAIN s, DOMAIN s)
  BY <1>3, <1>4, FS_Injection
<1>6. \A i \in DOMAIN s : \E j \in DOMAIN s : f[j] = i
  BY <1>5 DEF Surjection
<1>7. \A i \in DOMAIN s : f[i] \in DOMAIN s /\ u[i] = s[f[i]] /\ u[i] \in Verdict
  BY <1>1
<1>8. u \in Seq(Verdict)
  BY <1>1, <1>2, <1>7
<1>9. Duplicated(s) => Duplicated(u)
  <2> SUFFICES ASSUME NEW i \in DOMAIN s, NEW j \in DOMAIN s, i < j,
                      s[i].provider = s[j].provider
               PROVE  Duplicated(u)
    BY DEF Duplicated
  <2>1. PICK a \in DOMAIN s, b \in DOMAIN s : f[a] = i /\ f[b] = j
    BY <1>6
  <2>2. a # b /\ u[a].provider = u[b].provider
    BY <1>2, <1>7, <2>1
  <2>3. a < b \/ b < a
    BY <1>2, <2>2
  <2> QED
    BY <1>2, <2>2, <2>3 DEF Duplicated
<1>10. Duplicated(u) => Duplicated(s)
  <2> SUFFICES ASSUME NEW a \in DOMAIN s, NEW b \in DOMAIN s, a < b,
                      u[a].provider = u[b].provider
               PROVE  Duplicated(s)
    BY <1>2 DEF Duplicated
  <2>1. f[a] # f[b] /\ f[a] \in DOMAIN s /\ f[b] \in DOMAIN s
    BY <1>1, <1>2
  <2>2. f[a] < f[b] \/ f[b] < f[a]
    BY <1>2, <2>1
  <2> QED
    BY <1>7, <2>1, <2>2 DEF Duplicated
<1> QED
  BY <1>2, <1>6, <1>7, <1>8, <1>9, <1>10 DEF SameVerdicts

(* What arbitration asks of a slice of verdicts, and that it does not      *)
(* depend on their order.                                                  *)
LEMMA SameQuestions ==
  ASSUME NEW s, NEW u, SameVerdicts(s, u)
  PROVE  /\ \A k : Has(s, k) <=> Has(u, k)
         /\ Proofs(s) = Proofs(u)
         /\ \A p : Missing(s, p) <=> Missing(u, p)
         /\ \A ps : DegradedFor(ps, s) = DegradedFor(ps, u)
<1>1. \A k : Has(s, k) <=> Has(u, k)
  BY DEF SameVerdicts, Has
<1>2. Proofs(s) = Proofs(u)
  BY DEF SameVerdicts, Proofs, VerifiedAt
<1>3. \A p : Missing(s, p) <=> Missing(u, p)
  BY DEF SameVerdicts, Missing
<1>4. \A ps : {p \in ps : Missing(s, p)} = {p \in ps : Missing(u, p)}
  BY <1>3
<1> QED
  BY <1>1, <1>2, <1>3, <1>4 DEF DegradedFor

LEMMA SameProof ==
  ASSUME NEW s \in Seq(Verdict), NEW u \in Seq(Verdict), SameVerdicts(s, u),
         ~Duplicated(s), \A i \in DOMAIN s : s[i].kind \notin Negative,
         NEW p, ~Missing(s, p)
  PROVE  ProofOf(s, p) = ProofOf(u, p) /\ ProofOf(s, p) \in VerifiedProof
<1>1. /\ \A i, j \in DOMAIN s : s[i].provider = s[j].provider => i = j
      /\ \A i, j \in DOMAIN u : u[i].provider = u[j].provider => i = j
  <2>1. \A i, j \in DOMAIN s : i < j \/ j < i \/ i = j
    OBVIOUS
  <2>2. \A i, j \in DOMAIN u : i < j \/ j < i \/ i = j
    OBVIOUS
  <2> QED
    BY <2>1, <2>2 DEF SameVerdicts, Duplicated
<1>2. \A j \in DOMAIN u : u[j].kind \notin Negative
  BY DEF SameVerdicts
<1>3. ~Missing(u, p)
  BY SameQuestions
<1>4. PICK i \in VerifiedAt(s) : /\ s[i].provider = p /\ ProofOf(s, p) = s[i].proof
                                 /\ s[i].proof \in VerifiedProof
  BY <1>1, TheProof
<1>5. PICK j \in VerifiedAt(u) : u[j].provider = p /\ ProofOf(u, p) = u[j].proof
  BY <1>1, <1>2, <1>3, TheProof
<1>6. PICK k \in DOMAIN s : s[k] = u[j]
  BY <1>5 DEF SameVerdicts, VerifiedAt
<1>7. k = i
  BY <1>1, <1>4, <1>5, <1>6 DEF VerifiedAt
<1> QED
  BY <1>4, <1>5, <1>6, <1>7

(* Whichever proof is first, it names the same identity.                   *)
LEMMA SameIdentity ==
  ASSUME NEW s \in Seq(Verdict), NEW u \in Seq(Verdict), SameVerdicts(s, u),
         \A i, j \in VerifiedAt(s) : /\ s[i].proof.user = s[j].proof.user
                                     /\ s[i].proof.realm = s[j].proof.realm
                                     /\ s[i].proof.revision = s[j].proof.revision,
         NEW I \in SUBSET VerifiedAt(s), NEW J \in SUBSET VerifiedAt(u), I # {}, J # {},
         NEW Q
  PROVE  IdentityOf(First(s, I), Q) = IdentityOf(First(u, J), Q)
<1>1. I \in SUBSET DOMAIN s /\ J \in SUBSET DOMAIN u
  BY DEF VerifiedAt
<1>2. PICK i \in I : First(s, I) = s[i].proof
  BY <1>1, FirstAmong
<1>3. PICK j \in J : First(u, J) = u[j].proof
  BY <1>1, FirstAmong
<1>4. PICK k \in VerifiedAt(s) : s[k] = u[j]
  BY <1>1 DEF SameVerdicts, VerifiedAt
<1>5. /\ s[i].proof.user = u[j].proof.user /\ s[i].proof.realm = u[j].proof.realm
      /\ s[i].proof.revision = u[j].proof.revision
  BY <1>4
<1> QED
  BY <1>2, <1>3, <1>5 DEF IdentityOf

LEMMA SameOptimistic ==
  ASSUME NEW s \in Seq(Verdict), NEW u \in Seq(Verdict), SameVerdicts(s, u),
         \A i, j \in VerifiedAt(s) : /\ s[i].proof.user = s[j].proof.user
                                     /\ s[i].proof.realm = s[j].proof.realm
                                     /\ s[i].proof.revision = s[j].proof.revision,
         NEW pol, NEW t
  PROVE  Optimistic(pol, s, t) = Optimistic(pol, u, t)
<1> DEFINE eligible(v) == {i \in VerifiedAt(v) :
                             /\ Meets(v[i].proof, "CustomerIdentity", pol.floor)
                             /\ v[i].provider \in pol.required}
           pending(v)  == pol.required \ {v[i].provider : i \in eligible(v)}
           proofs(v)   == {v[i].proof : i \in eligible(v)}
           identity(v) == IdentityOf(First(v, eligible(v)), proofs(v))
<1>1. /\ \A i \in eligible(s) : \E j \in eligible(u) : u[j] = s[i]
      /\ \A j \in eligible(u) : \E i \in eligible(s) : s[i] = u[j]
  BY DEF SameVerdicts, VerifiedAt
<1>2. /\ eligible(s) = {} <=> eligible(u) = {}
      /\ pending(s) = pending(u) /\ proofs(s) = proofs(u)
  BY <1>1
<1>3. ASSUME eligible(s) # {} PROVE identity(s) = identity(u)
  <2>1. /\ eligible(s) \in SUBSET VerifiedAt(s) /\ eligible(u) \in SUBSET VerifiedAt(u)
        /\ eligible(s) # {} /\ eligible(u) # {}
    BY <1>2, <1>3
  <2> HIDE DEF eligible
  <2>2. IdentityOf(First(s, eligible(s)), proofs(s)) = IdentityOf(First(u, eligible(u)), proofs(s))
    BY <2>1, SameIdentity
  <2> QED
    BY <1>2, <2>2
<1>4. /\ Proofs(s) = Proofs(u) /\ \A p : Missing(s, p) <=> Missing(u, p)
      /\ DegradedFor(pol.required, s) = DegradedFor(pol.required, u)
  BY SameQuestions
<1>5. \A v \in {s, u} :
        Optimistic(pol, v, t) =
          IF pol.required = {} \/ pol.pending = 0 THEN Rejected("InvalidPolicy")
          ELSE IF eligible(v) = {}
            THEN IF \E p \in Proofs(v) : p.assurance < pol.floor
                   THEN Rejected("InsufficientAssurance")
                 ELSE IF \E p \in Proofs(v) : p.class # "CustomerIdentity"
                   THEN Rejected("WrongProofClass")
                 ELSE DegradedFor(pol.required, v)
          ELSE IF pending(v) = {} THEN Accepted(identity(v))
          ELSE IF \A p \in pending(v) : Missing(v, p)
            THEN Provisional(identity(v), t + pol.pending, pending(v))
          ELSE DegradedFor(pol.required, v)
  BY DEF Optimistic
<1> HIDE DEF eligible, pending, proofs, identity
<1> QED
  BY <1>2, <1>3, <1>4, <1>5

LEMMA SamePair ==
  ASSUME NEW s \in Seq(Verdict), NEW u \in Seq(Verdict), SameVerdicts(s, u),
         ~Duplicated(s), \A i \in DOMAIN s : s[i].kind \notin Negative, NEW pol
  PROVE  StrictPair(pol, s) = StrictPair(pol, u)
<1>1. /\ \A p : Missing(s, p) <=> Missing(u, p)
      /\ \A ps : DegradedFor(ps, s) = DegradedFor(ps, u)
  BY SameQuestions
<1>2. \A p : ~Missing(s, p) => ProofOf(s, p) = ProofOf(u, p)
  BY SameProof
<1>3. CASE Missing(s, pol.providers[1]) \/ Missing(s, pol.providers[2])
  BY <1>1, <1>3 DEF StrictPair
<1>4. CASE ~Missing(s, pol.providers[1]) /\ ~Missing(s, pol.providers[2])
  <2>1. /\ ProofOf(s, pol.providers[1]) = ProofOf(u, pol.providers[1])
        /\ ProofOf(s, pol.providers[2]) = ProofOf(u, pol.providers[2])
    BY <1>2, <1>4
  <2> QED
    BY <1>1, <1>4, <2>1 DEF StrictPair
<1> QED
  BY <1>3, <1>4

LEMMA SameClass ==
  ASSUME NEW s \in Seq(Verdict), NEW u \in Seq(Verdict), SameVerdicts(s, u),
         ~Duplicated(s), \A i \in DOMAIN s : s[i].kind \notin Negative, NEW pol
  PROVE  ExplicitClass(pol, s) = ExplicitClass(pol, u)
<1>1. /\ \A p : Missing(s, p) <=> Missing(u, p)
      /\ \A ps : DegradedFor(ps, s) = DegradedFor(ps, u)
  BY SameQuestions
<1>2. ~Missing(s, pol.provider) => ProofOf(s, pol.provider) = ProofOf(u, pol.provider)
  BY SameProof
<1> QED
  BY <1>1, <1>2 DEF ExplicitClass

(* The refusals that come before any policy, in the code's order.          *)
Refusal(s, t) ==
  IF Duplicated(s) THEN "ProviderConflict"
  ELSE IF Has(s, "revoked") THEN "RevokedProof"
  ELSE IF Has(s, "conflict") THEN "ProviderConflict"
  ELSE IF Has(s, "invalid") THEN "InvalidProof"
  ELSE IF \E p \in Proofs(s) : Stale(p, t) THEN "StaleProof"
  ELSE IF \E p, q \in Proofs(s) : p.user # q.user \/ p.realm # q.realm
    THEN "CanonicalIdentityConflict"
  ELSE IF \E p, q \in Proofs(s) : p.revision # q.revision THEN "PolicyRevisionConflict"
  ELSE "none"

LEMMA RefusalFirst ==
  ASSUME NEW pol, NEW s \in Seq(Verdict), NEW t
  PROVE  Arbitrate(pol, s, t) =
           IF Refusal(s, t) # "none" THEN Rejected(Refusal(s, t))
           ELSE CASE pol.mode = "optimistic" -> Optimistic(pol, s, t)
                  [] pol.mode = "pair"       -> StrictPair(pol, s)
                  [] OTHER                   -> ExplicitClass(pol, s)
<1> DEFINE first == First(s, VerifiedAt(s))
<1>1. Proofs(s) # {} => first \in Proofs(s)
  <2> SUFFICES ASSUME Proofs(s) # {} PROVE first \in Proofs(s)
    OBVIOUS
  <2>1. VerifiedAt(s) \in SUBSET DOMAIN s /\ VerifiedAt(s) # {}
    BY DEF Proofs, VerifiedAt
  <2> QED
    BY <2>1, FirstAmong DEF Proofs
<1> HIDE DEF first
<1>2. /\ (\E p \in Proofs(s) : p.user # first.user \/ p.realm # first.realm)
           <=> \E p, q \in Proofs(s) : p.user # q.user \/ p.realm # q.realm
      /\ (\E p \in Proofs(s) : p.revision # first.revision)
           <=> \E p, q \in Proofs(s) : p.revision # q.revision
  BY <1>1
<1> QED
  BY <1>2 DEF Arbitrate, Refusal, first

(* "Arrival order is absent from the input model, so the same set of       *)
(* results is deterministic" (arbitrate), for any number of verdicts.      *)
THEOREM OrderCorrect == Spec => []OrderIndependent
<1>1. IInv => OrderIndependent
  <2> SUFFICES ASSUME IInv, NEW u \in Reorderings(verdicts)
               PROVE  Arbitrate(policy, u, now) = Arbitrate(policy, verdicts, now)
    BY DEF OrderIndependent
  <2> DEFINE s == verdicts
  <2>1. s \in Seq(Verdict)
    BY DEF IInv, TypeOK
  <2> HIDE DEF s
  <2>2. u \in Seq(Verdict) /\ SameVerdicts(s, u)
    BY <2>1, ReorderingIsSame DEF s
  <2>3. Refusal(s, now) = Refusal(u, now)
    BY <2>2, SameQuestions DEF Refusal, SameVerdicts
  <2>4. ASSUME Refusal(s, now) = "none"
        PROVE  /\ Optimistic(policy, s, now) = Optimistic(policy, u, now)
               /\ StrictPair(policy, s) = StrictPair(policy, u)
               /\ ExplicitClass(policy, s) = ExplicitClass(policy, u)
    <3>1. /\ ~Duplicated(s)
          /\ ~Has(s, "revoked") /\ ~Has(s, "conflict") /\ ~Has(s, "invalid")
          /\ \A p, q \in Proofs(s) : /\ p.user = q.user /\ p.realm = q.realm
                                     /\ p.revision = q.revision
      BY <2>4 DEF Refusal
    <3>2. \A i \in DOMAIN s : s[i].kind \notin Negative
      BY <3>1 DEF Has, Negative
    <3>3. \A i, j \in VerifiedAt(s) : /\ s[i].proof.user = s[j].proof.user
                                      /\ s[i].proof.realm = s[j].proof.realm
                                      /\ s[i].proof.revision = s[j].proof.revision
      BY <3>1 DEF Proofs
    <3>4. Optimistic(policy, s, now) = Optimistic(policy, u, now)
      BY <2>1, <2>2, <3>3, SameOptimistic
    <3> QED
      BY <2>1, <2>2, <3>1, <3>2, <3>4, SamePair, SameClass
  <2>5. Arbitrate(policy, s, now) =
          IF Refusal(s, now) # "none" THEN Rejected(Refusal(s, now))
          ELSE CASE policy.mode = "optimistic" -> Optimistic(policy, s, now)
                 [] policy.mode = "pair"       -> StrictPair(policy, s)
                 [] OTHER                      -> ExplicitClass(policy, s)
    BY <2>1, RefusalFirst
  <2>6. Arbitrate(policy, u, now) =
          IF Refusal(u, now) # "none" THEN Rejected(Refusal(u, now))
          ELSE CASE policy.mode = "optimistic" -> Optimistic(policy, u, now)
                 [] policy.mode = "pair"       -> StrictPair(policy, u)
                 [] OTHER                      -> ExplicitClass(policy, u)
    BY <2>2, RefusalFirst
  <2> QED
    BY <2>3, <2>4, <2>5, <2>6 DEF s
<1> QED
  BY <1>1, Invariance, PTL
=============================================================================
