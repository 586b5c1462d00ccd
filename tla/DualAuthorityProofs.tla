--------------------------- MODULE DualAuthorityProofs ---------------------------
(***************************************************************************)
(* Proofs about DualAuthority, for any fleet, accounts, number of lanes    *)
(* and of changes of the providers.                                        *)
(*                                                                         *)
(* The inductive invariant says what a lane is evidence of: a proof is of  *)
(* an account its provider had during the request, a lane that could not   *)
(* be asked is of a provider that was down.  What the caller is told then  *)
(* follows from the decision alone.                                        *)
(***************************************************************************)
EXTENDS DualAuthority, TLAPS

(* What a lane says held at some time during the request.                  *)
Evidence(lane) ==
  /\ lane.outcome = "Authenticated" =>
       \E p \in AuthProvider, a \in Accounts :
         <<TRUE, a>> \in seen[p] /\ lane.proof = ProofOf(p, a)
  /\ lane.outcome = "Unavailable" => Silent(lane.provider)

IInv ==
  /\ TypeOK
  /\ \A p \in AuthProvider : State(p) \in seen[p]
  /\ \A i \in DOMAIN lanes : Evidence(lanes[i])
  /\ answer = NoAnswer \/ answer = Decision(request, lanes)

-----------------------------------------------------------------------------
(* What verification establishes: every early return is a Fail.            *)
LEMMA ProofVerified ==
  ASSUME NEW t, NEW proof, ProofError(t, proof) = <<"none">>
  PROVE  /\ proof.status # "Revoked" /\ proof.subject # Blank /\ proof.user # Blank
         /\ proof.tenant # Blank /\ proof.audience = t.audience
         /\ proof.plane = DataPlane(t.role)
BY DEF ProofError

LEMMA PairVerified ==
  ASSUME NEW t, NEW x, NEW y, x.provider = "Supabase", y.provider = "Neon",
         VerifyDualProviderProofs(t, <<x, y>>).ok
  PROVE  /\ ProofError(t, x) = <<"none">> /\ ProofError(t, y) = <<"none">>
         /\ x.user = y.user /\ x.tenant = y.tenant
         /\ VerifyDualProviderProofs(t, <<x, y>>)
              = Success([user |-> x.user, tenant |-> x.tenant,
                         audience |-> t.audience, plane |-> DataPlane(t.role),
                         supabase |-> x.subject, neon |-> y.subject])
<1>1. Of(<<x, y>>, "Supabase") = {1} /\ Of(<<x, y>>, "Neon") = {2}
  BY DEF Of
<1>2. /\ <<x, y>>[CHOOSE i \in {1} : TRUE] = x
      /\ <<x, y>>[CHOOSE i \in {2} : TRUE] = y
  OBVIOUS
<1>3. VerifyDualProviderProofs(t, <<x, y>>) = Reconcile(t, x, y)
  BY <1>1, <1>2 DEF VerifyDualProviderProofs, Fail
<1> QED
  BY <1>3 DEF Reconcile, Fail

-----------------------------------------------------------------------------
(* The lanes a decision of status "authenticated" or "degraded" is on.     *)
LEMMA LanesTaken ==
  ASSUME NEW r, NEW s, Decision(r, s).ok
  PROVE  /\ Of(s, "Supabase") # {} /\ Of(s, "Neon") # {}
         /\ Mistagged(s) = {} /\ Repeated(s) = {}
         /\ TopologyError(r.topology) = "none"
         /\ r.mode = "AvailabilityFirst" => ~PairRequired(r)
         /\ Decision(r, s) =
              IF r.mode = "StrictPaired"
              THEN DecideStrict(r.topology, Lane(s, "Supabase"), Lane(s, "Neon"))
              ELSE DecideAvailabilityFirst(r.topology, Lane(s, "Supabase"), Lane(s, "Neon"))
BY DEF Decision, Fail

LEMMA LaneOf ==
  ASSUME NEW s, NEW p, Of(s, p) # {}, Mistagged(s) = {}
  PROVE  \E i \in DOMAIN s : /\ Lane(s, p) = s[i] /\ s[i].provider = p
                             /\ s[i].outcome = "Authenticated" => s[i].proof.provider = p
<1>1. (CHOOSE i \in Of(s, p) : TRUE) \in Of(s, p)
  OBVIOUS
<1> QED
  BY <1>1 DEF Lane, Of, Mistagged

LEMMA TopologyVerified ==
  ASSUME NEW t, TopologyError(t) = "none"
  PROVE  t.audience # Blank
BY DEF TopologyError

(* A pair admits as the identity both proofs carry.                        *)
LEMMA PairAdmits ==
  ASSUME NEW t, NEW mode, NEW x, NEW y,
         x.proof.provider = "Supabase", y.proof.provider = "Neon",
         DecidePair(t, mode, x, y).ok
  PROVE  /\ ProofError(t, x.proof) = <<"none">> /\ ProofError(t, y.proof) = <<"none">>
         /\ x.proof.user = y.proof.user /\ x.proof.tenant = y.proof.tenant
         /\ DecidePair(t, mode, x, y) =
              Admission([user |-> x.proof.user, tenant |-> x.proof.tenant,
                         audience |-> t.audience, plane |-> DataPlane(t.role),
                         winner |-> "Supabase",
                         supabase |-> x.proof.subject, neon |-> y.proof.subject], mode)
<1>1. PICK px, py : px = x.proof /\ py = y.proof
  OBVIOUS
<1> DEFINE pair == VerifyDualProviderProofs(t, <<px, py>>)
<1>2. DecidePair(t, mode, x, y)
        = IF pair.ok THEN Admission(IdentityFromPair(pair.value), mode) ELSE StrictProof(pair.error)
  BY <1>1 DEF DecidePair
<1>3. pair.ok
  BY <1>2 DEF StrictProof, Fail
<1>4. /\ ProofError(t, px) = <<"none">> /\ ProofError(t, py) = <<"none">>
      /\ px.user = py.user /\ px.tenant = py.tenant
      /\ pair = Success([user |-> px.user, tenant |-> px.tenant,
                         audience |-> t.audience, plane |-> DataPlane(t.role),
                         supabase |-> px.subject, neon |-> py.subject])
  BY <1>1, <1>3, PairVerified
<1>5. pair.value = [user |-> px.user, tenant |-> px.tenant,
                    audience |-> t.audience, plane |-> DataPlane(t.role),
                    supabase |-> px.subject, neon |-> py.subject]
  BY <1>4 DEF Success
<1> HIDE DEF pair
<1>6. IdentityFromPair(pair.value)
        = [user |-> px.user, tenant |-> px.tenant,
           audience |-> t.audience, plane |-> DataPlane(t.role), winner |-> "Supabase",
           supabase |-> px.subject, neon |-> py.subject]
  <2>1. PICK v : v = pair.value
    OBVIOUS
  <2>2. /\ v.user = px.user /\ v.tenant = px.tenant /\ v.audience = t.audience
        /\ v.plane = DataPlane(t.role) /\ v.supabase = px.subject /\ v.neon = py.subject
    BY <1>5, <2>1
  <2> QED
    BY <2>1, <2>2 DEF IdentityFromPair
<1>7. DecidePair(t, mode, x, y) = Admission(IdentityFromPair(pair.value), mode)
  BY <1>2, <1>3
<1> QED
  BY <1>1, <1>4, <1>6, <1>7

(* The three ways a decision can be given without an error.                *)
LEMMA DecisionCases ==
  ASSUME NEW r, r.mode \in {"AvailabilityFirst", "StrictPaired"},
         NEW s, s \in Seq(ProviderDecision), Decision(r, s).ok
  PROVE  \E x, y \in ProviderDecision :
           LET t == r.topology d == Decision(r, s) IN
           /\ x \in {s[i] : i \in DOMAIN s} /\ y \in {s[i] : i \in DOMAIN s}
           /\ x.provider = "Supabase" /\ y.provider = "Neon"
           /\ x.outcome = "Authenticated" => x.proof.provider = "Supabase"
           /\ y.outcome = "Authenticated" => y.proof.provider = "Neon"
           /\ TopologyError(t) = "none"
           /\ \/ /\ x.outcome = "Authenticated" /\ y.outcome = "Authenticated"
                 /\ d = DecidePair(t, IF r.mode = "StrictPaired" THEN "StrictPaired"
                                      ELSE "AvailabilityFirst", x, y)
              \/ /\ ~PairRequired(r)
                 /\ \E z \in {x, y} :
                      /\ z.outcome = "Authenticated"
                      /\ \A w \in {x, y} \ {z} : w.outcome = "Unavailable"
                      /\ ProofError(t, z.proof) = <<"none">>
                      /\ d = Admission(IdentityFromSingle(z.proof), "AvailabilityFirst")
              \/ d = Success([status |-> "unauthenticated"])
              \/ /\ d = Success([status |-> "degraded"])
                 /\ "Unavailable" \in {x.outcome, y.outcome}
<1> DEFINE t == r.topology
           x == Lane(s, "Supabase")
           y == Lane(s, "Neon")
<1>1. /\ Of(s, "Supabase") # {} /\ Of(s, "Neon") # {}
      /\ Mistagged(s) = {} /\ TopologyError(t) = "none"
      /\ r.mode = "AvailabilityFirst" => ~PairRequired(r)
      /\ Decision(r, s) = IF r.mode = "StrictPaired" THEN DecideStrict(t, x, y)
                          ELSE DecideAvailabilityFirst(t, x, y)
  BY LanesTaken
<1>2. /\ x \in {s[i] : i \in DOMAIN s} /\ x.provider = "Supabase"
      /\ x.outcome = "Authenticated" => x.proof.provider = "Supabase"
  BY <1>1, LaneOf
<1>3. /\ y \in {s[i] : i \in DOMAIN s} /\ y.provider = "Neon"
      /\ y.outcome = "Authenticated" => y.proof.provider = "Neon"
  BY <1>1, LaneOf
<1>4. \A z \in {s[i] : i \in DOMAIN s} : z \in ProviderDecision
  OBVIOUS
<1>5. /\ x \in ProviderDecision /\ y \in ProviderDecision
      /\ x.outcome \in {"Authenticated", "Invalid", "Unavailable"}
      /\ y.outcome \in {"Authenticated", "Invalid", "Unavailable"}
  BY <1>2, <1>3, <1>4 DEF ProviderDecision
<1> HIDE DEF x, y
<1>6. CASE r.mode = "StrictPaired"
  BY <1>1, <1>2, <1>3, <1>5, <1>6 DEF DecideStrict
<1>7. CASE r.mode # "StrictPaired"
  <2> DEFINE outcomes == {x.outcome, y.outcome}
             single   == IF x.outcome = "Authenticated" THEN x ELSE y
             d        == Decision(r, s)
  <2>1. /\ d.ok /\ d = DecideAvailabilityFirst(t, x, y) /\ ~PairRequired(r)
    BY <1>1, <1>7
  <2>2. CASE outcomes = {"Authenticated"}
    BY <1>1, <1>2, <1>3, <1>5, <1>7, <2>1, <2>2 DEF DecideAvailabilityFirst
  <2>3. CASE outcomes = {"Authenticated", "Unavailable"}
    <3>1. /\ single \in {x, y} /\ single.outcome = "Authenticated"
          /\ \A w \in {x, y} \ {single} : w.outcome = "Unavailable"
      BY <2>3
    <3>2. outcomes # {"Authenticated"}
      <4>1. "Unavailable" \in outcomes
        BY <2>3
      <4> QED
        BY <4>1
    <3>3. d = IF ProofError(t, single.proof) = <<"none">>
              THEN Admission(IdentityFromSingle(single.proof), "AvailabilityFirst")
              ELSE StrictProof(ProofError(t, single.proof))
      BY <2>1, <2>3, <3>2 DEF DecideAvailabilityFirst
    <3>4. /\ ProofError(t, single.proof) = <<"none">>
          /\ d = Admission(IdentityFromSingle(single.proof), "AvailabilityFirst")
      BY <2>1, <3>3 DEF StrictProof, Fail
    <3> HIDE DEF single, outcomes
    <3> QED
      BY <1>1, <1>2, <1>3, <1>5, <2>1, <3>1, <3>4
  <2>4. CASE outcomes # {"Authenticated"} /\ outcomes # {"Authenticated", "Unavailable"}
    <3>1. /\ outcomes # {"Authenticated", "Invalid"}
          /\ d = Success([status |-> IF "Invalid" \in outcomes THEN "unauthenticated"
                                     ELSE "degraded"])
      BY <2>1, <2>4 DEF DecideAvailabilityFirst, Fail
    <3>2. "Invalid" \in outcomes \/ "Unavailable" \in outcomes
      BY <1>5, <2>4
    <3> QED
      BY <1>1, <1>2, <1>3, <1>5, <3>1, <3>2
  <2> QED
    BY <2>2, <2>3, <2>4
<1> QED
  BY <1>6, <1>7

(* Every decision says whether it is an error, and one that is not has the *)
(* type of the API.                                                        *)
LEMMA DecisionIsAResult ==
  ASSUME NEW r, NEW s
  PROVE  Decision(r, s).ok \in BOOLEAN
<1>1. ASSUME NEW t, NEW mode, NEW x, NEW y PROVE DecidePair(t, mode, x, y).ok \in BOOLEAN
  BY DEF DecidePair, Admission, Success, StrictProof, Fail
<1>2. ASSUME NEW t, NEW x, NEW y PROVE DecideStrict(t, x, y).ok \in BOOLEAN
  BY <1>1 DEF DecideStrict, Success
<1>3. ASSUME NEW t, NEW x, NEW y PROVE DecideAvailabilityFirst(t, x, y).ok \in BOOLEAN
  BY <1>1 DEF DecideAvailabilityFirst, Admission, Success, StrictProof, Fail
<1> QED
  BY <1>2, <1>3 DEF Decision, Fail

LEMMA DecisionTyped ==
  ASSUME NEW r \in Request, NEW s \in Seq(ProviderDecision), Decision(r, s).ok
  PROVE  Decision(r, s).value \in DualAuthDecision
<1> DEFINE t == r.topology
           d == Decision(r, s)
<1>1. r.mode \in {"AvailabilityFirst", "StrictPaired"} /\ t \in Topology
  BY DualAssumption DEF Request
<1>2. ASSUME NEW z \in ProviderDecision, z.outcome = "Authenticated",
             TopologyError(t) = "none", ProofError(t, z.proof) = <<"none">>
      PROVE  /\ z.proof \in ProviderProof /\ z.proof.provider \in AuthProvider
             /\ z.proof.user \in Users /\ z.proof.tenant \in Tenants
             /\ z.proof.audience = t.audience /\ t.audience \in Audiences
             /\ z.proof.plane \in {"customer-auth", "admin-auth"} /\ z.proof.subject \in Subjects
  <2>1. z.proof \in ProviderProof
    BY <1>2 DEF ProviderDecision
  <2>2. t.audience \in Audiences
    BY <1>1, <1>2, TopologyVerified DEF Topology
  <2> QED
    BY <1>2, <2>1, <2>2, ProofVerified DEF ProviderProof
<1>3. DataPlane(t.role) \in {"customer-auth", "admin-auth"}
  BY DEF DataPlane
<1>4. PICK x \in ProviderDecision, y \in ProviderDecision :
        /\ x.outcome = "Authenticated" => x.proof.provider = "Supabase"
        /\ y.outcome = "Authenticated" => y.proof.provider = "Neon"
        /\ TopologyError(t) = "none"
        /\ \/ /\ x.outcome = "Authenticated" /\ y.outcome = "Authenticated"
              /\ d = DecidePair(t, IF r.mode = "StrictPaired" THEN "StrictPaired"
                                   ELSE "AvailabilityFirst", x, y)
           \/ \E z \in {x, y} :
                /\ z.outcome = "Authenticated"
                /\ ProofError(t, z.proof) = <<"none">>
                /\ d = Admission(IdentityFromSingle(z.proof), "AvailabilityFirst")
           \/ d = Success([status |-> "unauthenticated"])
           \/ d = Success([status |-> "degraded"])
  BY <1>1, DecisionCases
<1>5. ASSUME NEW identity \in AvailableIdentity, NEW mode \in {"AvailabilityFirst", "StrictPaired"},
             d = Admission(identity, mode)
      PROVE  d.value \in DualAuthDecision
  BY <1>5 DEF Admission, Success, DualAuthDecision
<1>6. CASE /\ x.outcome = "Authenticated" /\ y.outcome = "Authenticated"
           /\ d = DecidePair(t, IF r.mode = "StrictPaired" THEN "StrictPaired"
                                ELSE "AvailabilityFirst", x, y)
  <2> DEFINE mode == IF r.mode = "StrictPaired" THEN "StrictPaired" ELSE "AvailabilityFirst"
             identity == [user |-> x.proof.user, tenant |-> x.proof.tenant,
                          audience |-> t.audience, plane |-> DataPlane(t.role),
                          winner |-> "Supabase",
                          supabase |-> x.proof.subject, neon |-> y.proof.subject]
  <2>1. /\ ProofError(t, x.proof) = <<"none">> /\ ProofError(t, y.proof) = <<"none">>
        /\ d = Admission(identity, mode)
    BY <1>4, <1>6, PairAdmits
  <2>2. identity \in AvailableIdentity
    BY <1>2, <1>3, <1>4, <1>6, <2>1 DEF AvailableIdentity, AuthProvider
  <2> QED
    BY <1>5, <2>1, <2>2
<1>7. ASSUME NEW z \in {x, y}, z.outcome = "Authenticated",
             ProofError(t, z.proof) = <<"none">>,
             d = Admission(IdentityFromSingle(z.proof), "AvailabilityFirst")
      PROVE  d.value \in DualAuthDecision
  <2>1. IdentityFromSingle(z.proof) \in AvailableIdentity
    BY <1>2, <1>4, <1>7 DEF IdentityFromSingle, AvailableIdentity
  <2> QED
    BY <1>5, <1>7, <2>1
<1>8. CASE d = Success([status |-> "unauthenticated"]) \/ d = Success([status |-> "degraded"])
  BY <1>8 DEF Success, DualAuthDecision
<1> QED
  BY <1>4, <1>6, <1>7, <1>8

-----------------------------------------------------------------------------
(* State(p), of any sets and values.                                       *)
LEMMA StateTyped ==
  ASSUME NEW p, NEW U, NEW S, NEW x \in S
  PROVE  /\ <<p \in U, x>> \in BOOLEAN \X S
         /\ p \in U => <<p \in U, x>> = <<TRUE, x>>
         /\ p \notin U => <<p \in U, x>> = <<FALSE, x>>
<1>1. CASE p \in U
  <2>1. (p \in U) = TRUE
    BY <1>1
  <2> QED
    BY <1>1, <2>1
<1>2. CASE p \notin U
  <2>1. (p \in U) = FALSE
    BY <1>2
  <2> QED
    BY <1>2, <2>1
<1> QED
  BY <1>1, <1>2

(* Evidence outlives a change of a provider: what was seen stays seen.     *)
LEMMA EvidenceKept ==
  ASSUME NEW lane, Evidence(lane), lane.provider \in AuthProvider,
         \A p \in AuthProvider : seen[p] \subseteq seen'[p]
  PROVE  Evidence(lane)'
<1>1. lane.outcome = "Authenticated" =>
        \E p \in AuthProvider, a \in Accounts :
          <<TRUE, a>> \in seen'[p] /\ lane.proof = ProofOf(p, a)
  BY DEF Evidence
<1>2. lane.outcome = "Unavailable" =>
        \E a \in Accounts \cup {Blank} : <<FALSE, a>> \in seen'[lane.provider]
  BY DEF Evidence, Silent
<1> QED
  BY <1>1, <1>2 DEF Evidence, Silent

LEMMA InitIInv == Init => IInv
<1> SUFFICES ASSUME Init PROVE IInv
  OBVIOUS
<1>1. \A p \in AuthProvider : State(p) \in BOOLEAN \X (Accounts \cup {Blank})
  BY StateTyped DEF Init, State
<1>2. TypeOK
  BY <1>1, DualAssumption DEF Init, TypeOK, NoAnswer
<1> QED
  BY <1>2 DEF Init, IInv

LEMMA AskStep ==
  ASSUME IInv, NEW p \in AuthProvider, NEW lane \in AuthProvider, Ask(p, lane)
  PROVE  IInv'
<1> USE DEF Ask
<1>1. session[p] \in Accounts \cup {Blank} /\ State(p) \in seen[p]
  BY DEF IInv, TypeOK
<1>2. Outcome(lane, p) \in ProviderDecision
  <2>1. CASE p \in up /\ session[p] # Blank
    <3>1. session[p] \in Account
      BY <1>1, <2>1, DualAssumption
    <3>2. ProofOf(p, session[p]) \in ProviderProof
      BY <3>1 DEF ProofOf, Account, ProviderProof
    <3> QED
      BY <2>1, <3>2 DEF Outcome, Authenticated, ProviderDecision
  <2>2. CASE p \notin up \/ session[p] = Blank
    BY <2>2 DEF Outcome, Unproven, ProviderDecision
  <2> QED
    BY <2>1, <2>2
<1>3. Evidence(Outcome(lane, p))
  <2>1. CASE p \notin up
    <3>1. lane = p
      BY <2>1
    <3>2. Silent(p)
      <4>1. State(p) = <<FALSE, session[p]>>
        BY <1>1, <2>1, StateTyped DEF State
      <4> QED
        BY <1>1, <4>1 DEF Silent
    <3> QED
      BY <2>1, <3>1, <3>2 DEF Outcome, Unproven, Evidence
  <2>2. CASE p \in up /\ session[p] = Blank
    BY <2>2 DEF Outcome, Unproven, Evidence
  <2>3. CASE p \in up /\ session[p] # Blank
    BY <1>1, <2>3 DEF Outcome, Authenticated, Evidence, State
  <2> QED
    BY <2>1, <2>2, <2>3
<1>4. lanes \in Seq(ProviderDecision) /\ Len(lanes) \in Nat /\ Len(lanes) <= MaxLanes
  BY DEF IInv, TypeOK
<1>5. /\ lanes' \in Seq(ProviderDecision) /\ Len(lanes') = Len(lanes) + 1
      /\ \A i \in DOMAIN lanes' : lanes'[i] = Outcome(lane, p)
                                    \/ (i \in DOMAIN lanes /\ lanes'[i] = lanes[i])
  <2>1. lanes' = Append(lanes, Outcome(lane, p))
    OBVIOUS
  <2> QED
    BY <1>2, <1>4, <2>1
<1>6. Len(lanes') <= MaxLanes
  BY <1>4, <1>5, DualAssumption
<1>7. TypeOK'
  BY <1>5, <1>6 DEF IInv, TypeOK
<1>8. \A i \in DOMAIN lanes' : Evidence(lanes'[i])
  BY <1>3, <1>5 DEF IInv
<1>9. (\A i \in DOMAIN lanes : Evidence(lanes[i]))'
  BY <1>8 DEF Evidence, Silent
<1>10. (\A q \in AuthProvider : State(q) \in seen[q])'
  BY DEF IInv, State
<1> QED
  BY <1>7, <1>9, <1>10 DEF IInv

LEMMA DecideStep ==
  ASSUME IInv, Decide
  PROVE  IInv'
<1> USE DEF Decide
<1>1. request \in Request /\ lanes \in Seq(ProviderDecision)
  BY DEF IInv, TypeOK
<1>2. /\ answer'.ok \in BOOLEAN
      /\ answer'.ok => answer'.value \in DualAuthDecision
  BY <1>1, DecisionIsAResult, DecisionTyped
<1>3. TypeOK'
  BY <1>2 DEF IInv, TypeOK
<1>4. (\A i \in DOMAIN lanes : Evidence(lanes[i]))'
  BY DEF IInv, Evidence, Silent
<1>5. (\A q \in AuthProvider : State(q) \in seen[q])'
  BY DEF IInv, State
<1>6. (answer = Decision(request, lanes))'
  BY DEF Decision
<1> QED
  BY <1>3, <1>4, <1>5, <1>6 DEF IInv

LEMMA BeginStep ==
  ASSUME IInv, Begin
  PROVE  IInv'
<1> USE DEF Begin
<1>1. \A p \in AuthProvider : State(p) \in BOOLEAN \X (Accounts \cup {Blank})
  BY DEF IInv, TypeOK, State
<1>2. /\ lanes' \in Seq(ProviderDecision) /\ Len(lanes') = 0
      /\ DOMAIN lanes' = {}
  OBVIOUS
<1>3. TypeOK'
  BY <1>1, <1>2, DualAssumption DEF IInv, TypeOK, NoAnswer
<1>4. (\A p \in AuthProvider : State(p) \in seen[p])'
  BY DEF State
<1>5. (\A i \in DOMAIN lanes : Evidence(lanes[i]))'
  BY <1>2
<1>6. (answer = NoAnswer)'
  BY DEF NoAnswer
<1> QED
  BY <1>3, <1>4, <1>5, <1>6 DEF IInv

LEMMA ChangedStep ==
  ASSUME IInv, NEW p \in AuthProvider, Changed(p),
         up' \in SUBSET AuthProvider, session' \in [AuthProvider -> Accounts \cup {Blank}],
         \A q \in AuthProvider \ {p} : (q \in up' <=> q \in up) /\ session'[q] = session[q]
  PROVE  IInv'
<1> USE DEF Changed
<1>1. State(p)' \in BOOLEAN \X (Accounts \cup {Blank})
  BY StateTyped DEF State
<1>2. seen \in [AuthProvider -> SUBSET (BOOLEAN \X (Accounts \cup {Blank}))]
  BY DEF IInv, TypeOK
<1>3. /\ seen' \in [AuthProvider -> SUBSET (BOOLEAN \X (Accounts \cup {Blank}))]
      /\ \A q \in AuthProvider : seen[q] \subseteq seen'[q]
      /\ State(p)' \in seen'[p]
  BY <1>1, <1>2
<1>4. TypeOK'
  BY <1>3, DualAssumption DEF IInv, TypeOK
<1>5. ASSUME NEW q \in AuthProvider PROVE State(q)' \in seen'[q]
  <2>1. CASE q = p
    BY <1>3, <2>1
  <2>2. CASE q # p
    BY <1>3, <2>2 DEF IInv, State
  <2> QED
    BY <2>1, <2>2
<1>6. (\A q \in AuthProvider : State(q) \in seen[q])'
  BY <1>5
<1>7. \A i \in DOMAIN lanes : lanes[i].provider \in AuthProvider
  BY DEF IInv, TypeOK, ProviderDecision
<1>8. \A i \in DOMAIN lanes : Evidence(lanes[i])'
  BY <1>3, <1>7, EvidenceKept DEF IInv
<1>9. (\A i \in DOMAIN lanes : Evidence(lanes[i]))'
  BY <1>8 DEF Evidence, Silent
<1>10. (answer = NoAnswer)'
  BY DEF NoAnswer
<1> QED
  BY <1>4, <1>6, <1>9, <1>10 DEF IInv

LEMMA NextIInv == IInv /\ [Next]_vars => IInv'
<1> SUFFICES ASSUME IInv, [Next]_vars PROVE IInv'
  OBVIOUS
<1>1. up \in SUBSET AuthProvider /\ session \in [AuthProvider -> Accounts \cup {Blank}]
  BY DEF IInv, TypeOK
<1>2. ASSUME NEW p \in AuthProvider, GoDown(p) \/ ComeUp(p) PROVE IInv'
  BY <1>1, <1>2, ChangedStep DEF GoDown, ComeUp
<1>3. ASSUME NEW p \in AuthProvider, Update(p) PROVE IInv'
  <2>1. session' \in [AuthProvider -> Accounts \cup {Blank}]
    BY <1>1, <1>3 DEF Update
  <2>2. \A q \in AuthProvider \ {p} : session'[q] = session[q]
    BY <1>1, <1>3 DEF Update
  <2> QED
    BY <1>1, <1>3, <2>1, <2>2, ChangedStep DEF Update
<1>4. CASE UNCHANGED vars
  BY <1>4 DEF vars, IInv, TypeOK, State, Evidence, Silent, NoAnswer
<1> QED
  BY <1>2, <1>3, <1>4, AskStep, DecideStep, BeginStep DEF Next

LEMMA Invariance == Spec => []IInv
BY InitIInv, NextIInv, PTL DEF Spec

-----------------------------------------------------------------------------
(* The servers, the providers and the decision keep their types, for any   *)
(* fleet, accounts and number of lanes (auth_decision.rs).                 *)
THEOREM TypeCorrect == Spec => []TypeOK
<1>1. IInv => TypeOK
  BY DEF IInv
<1> QED
  BY <1>1, Invariance, PTL

(* A proof that passed verification was given by the provider it names,    *)
(* of an active session it had during the request.                         *)
LEMMA ProofIsGrounded ==
  ASSUME IInv, NEW x \in {lanes[i] : i \in DOMAIN lanes}, x.outcome = "Authenticated",
         NEW t, ProofError(t, x.proof) = <<"none">>
  PROVE  \E a \in Accounts :
           /\ <<TRUE, a>> \in seen[x.proof.provider] /\ x.proof.provider \in AuthProvider
           /\ a.status = "Active"
           /\ a.user = x.proof.user /\ a.tenant = x.proof.tenant
           /\ a.audience = t.audience /\ a.plane = DataPlane(t.role)
<1>1. PICK p \in AuthProvider, a \in Accounts : <<TRUE, a>> \in seen[p] /\ x.proof = ProofOf(p, a)
  BY DEF IInv, Evidence
<1>2. a.status \in {"Active", "Revoked"}
  BY DualAssumption DEF Account
<1>3. /\ x.proof.provider = p /\ x.proof.status = a.status /\ x.proof.user = a.user
      /\ x.proof.tenant = a.tenant /\ x.proof.audience = a.audience /\ x.proof.plane = a.plane
  BY <1>1 DEF ProofOf
<1>4. /\ x.proof.status # "Revoked" /\ x.proof.audience = t.audience
      /\ x.proof.plane = DataPlane(t.role)
  BY ProofVerified
<1> QED
  BY <1>1, <1>2, <1>3, <1>4

(* Nobody is admitted but on evidence of this request: both providers      *)
(* vouched for one account, or one did while the other was down and the    *)
(* server and the operation allow that (decide_dual_auth_for_operation).   *)
THEOREM AdmissionCorrect == Spec => []AdmissionIsGrounded
<1>1. IInv => AdmissionIsGrounded
  <2> SUFFICES ASSUME IInv, Admitted(answer) PROVE AdmissionIsGrounded
    BY DEF AdmissionIsGrounded
  <2> DEFINE t        == request.topology
             identity == answer.value.identity
  <2>1. /\ answer = Decision(request, lanes) /\ answer.ok
        /\ answer.value.status = "authenticated"
    BY DEF IInv, Admitted, NoAnswer
  <2>2. /\ request.mode \in {"AvailabilityFirst", "StrictPaired"}
        /\ request.operation \in {"Ordinary", "Sensitive"} /\ lanes \in Seq(ProviderDecision)
    BY DEF IInv, TypeOK, Request
  <2>3. PICK x \in ProviderDecision, y \in ProviderDecision :
          /\ x \in {lanes[i] : i \in DOMAIN lanes} /\ y \in {lanes[i] : i \in DOMAIN lanes}
          /\ x.provider = "Supabase" /\ y.provider = "Neon"
          /\ x.outcome = "Authenticated" => x.proof.provider = "Supabase"
          /\ y.outcome = "Authenticated" => y.proof.provider = "Neon"
          /\ \/ /\ x.outcome = "Authenticated" /\ y.outcome = "Authenticated"
                /\ answer = DecidePair(t, IF request.mode = "StrictPaired" THEN "StrictPaired"
                                          ELSE "AvailabilityFirst", x, y)
             \/ /\ ~PairRequired(request)
                /\ \E z \in {x, y} :
                     /\ z.outcome = "Authenticated"
                     /\ \A w \in {x, y} \ {z} : w.outcome = "Unavailable"
                     /\ ProofError(t, z.proof) = <<"none">>
                     /\ answer = Admission(IdentityFromSingle(z.proof), "AvailabilityFirst")
    BY <2>1, <2>2, DecisionCases DEF Success
  <2>4. CASE /\ x.outcome = "Authenticated" /\ y.outcome = "Authenticated"
             /\ answer = DecidePair(t, IF request.mode = "StrictPaired" THEN "StrictPaired"
                                       ELSE "AvailabilityFirst", x, y)
    <3>1. PICK mode : answer = DecidePair(t, mode, x, y)
      BY <2>4
    <3>2. /\ ProofError(t, x.proof) = <<"none">> /\ ProofError(t, y.proof) = <<"none">>
          /\ x.proof.user = y.proof.user /\ x.proof.tenant = y.proof.tenant
          /\ identity.user = x.proof.user /\ identity.tenant = x.proof.tenant
          /\ identity.audience = t.audience /\ identity.plane = DataPlane(t.role)
      BY <2>1, <2>3, <2>4, <3>1, PairAdmits DEF Admission, Success
    <3>3. Vouched("Supabase", identity)
      <4>1. PICK a \in Accounts :
              /\ <<TRUE, a>> \in seen[x.proof.provider] /\ a.status = "Active"
              /\ a.user = x.proof.user /\ a.tenant = x.proof.tenant
              /\ a.audience = t.audience /\ a.plane = DataPlane(t.role)
        BY <2>3, <2>4, <3>2, ProofIsGrounded
      <4> HIDE DEF identity
      <4> QED
        BY <2>3, <2>4, <3>2, <4>1 DEF Vouched
    <3>4. Vouched("Neon", identity)
      <4>1. PICK a \in Accounts :
              /\ <<TRUE, a>> \in seen[y.proof.provider] /\ a.status = "Active"
              /\ a.user = y.proof.user /\ a.tenant = y.proof.tenant
              /\ a.audience = t.audience /\ a.plane = DataPlane(t.role)
        BY <2>3, <2>4, <3>2, ProofIsGrounded
      <4> HIDE DEF identity
      <4> QED
        BY <2>3, <2>4, <3>2, <4>1 DEF Vouched
    <3> QED
      BY <3>2, <3>3, <3>4 DEF AdmissionIsGrounded, AuthProvider
  <2>5. ASSUME ~PairRequired(request), NEW z \in {x, y}, z.outcome = "Authenticated",
               \A w \in {x, y} \ {z} : w.outcome = "Unavailable",
               ProofError(t, z.proof) = <<"none">>,
               answer = Admission(IdentityFromSingle(z.proof), "AvailabilityFirst")
        PROVE  AdmissionIsGrounded
    <3>1. /\ z \in {lanes[i] : i \in DOMAIN lanes} /\ z.proof.provider = z.provider
          /\ z.provider \in AuthProvider
      BY <2>3, <2>5 DEF AuthProvider
    <3>2. /\ identity.user = z.proof.user /\ identity.tenant = z.proof.tenant
          /\ identity.audience = z.proof.audience /\ identity.plane = z.proof.plane
      BY <2>5 DEF Admission, Success, IdentityFromSingle
    <3>3. z.proof.audience = t.audience /\ z.proof.plane = DataPlane(t.role)
      BY <2>5, ProofVerified
    <3>4. Vouched(z.provider, identity)
      <4>1. PICK a \in Accounts :
              /\ <<TRUE, a>> \in seen[z.proof.provider] /\ a.status = "Active"
              /\ a.user = z.proof.user /\ a.tenant = z.proof.tenant
              /\ a.audience = t.audience /\ a.plane = DataPlane(t.role)
        BY <2>5, <3>1, ProofIsGrounded
      <4> HIDE DEF identity
      <4> QED
        BY <3>1, <3>2, <3>3, <4>1 DEF Vouched
    <3>5. \A p \in AuthProvider \ {z.provider} : Silent(p)
      <4>1. ASSUME NEW w \in {x, y}, w # z PROVE Silent(w.provider)
        BY <2>3, <2>5, <4>1 DEF IInv, Evidence
      <4> QED
        BY <2>3, <2>5, <4>1 DEF AuthProvider
    <3>6. ~IsAdmin(request.topology.role) /\ request.operation = "Ordinary"
      BY <2>2, <2>5 DEF PairRequired
    <3> QED
      BY <3>1, <3>2, <3>3, <3>4, <3>5, <3>6 DEF AdmissionIsGrounded
  <2> QED
    BY <2>3, <2>4, <2>5
<1> QED
  BY <1>1, Invariance, PTL

(* Degraded is only said of a request in which a provider was down         *)
(* (decide_strict, decide_availability_first).                             *)
THEOREM DegradedCorrect == Spec => []DegradedMeansDown
<1>1. IInv => DegradedMeansDown
  <2> SUFFICES ASSUME IInv, answer.ok, answer.value.status = "degraded"
               PROVE  \E p \in AuthProvider : Silent(p)
    BY DEF DegradedMeansDown
  <2>1. /\ answer = Decision(request, lanes)
        /\ request.mode \in {"AvailabilityFirst", "StrictPaired"}
        /\ lanes \in Seq(ProviderDecision)
    BY DEF IInv, TypeOK, Request, NoAnswer
  <2>2. PICK x \in ProviderDecision, y \in ProviderDecision :
          /\ x \in {lanes[i] : i \in DOMAIN lanes} /\ y \in {lanes[i] : i \in DOMAIN lanes}
          /\ x.provider = "Supabase" /\ y.provider = "Neon"
          /\ \/ \E mode : answer = DecidePair(request.topology, mode, x, y)
                  /\ x.proof.provider = "Supabase" /\ y.proof.provider = "Neon"
             \/ \E z : answer = Admission(IdentityFromSingle(z), "AvailabilityFirst")
             \/ "Unavailable" \in {x.outcome, y.outcome}
    BY <2>1, DecisionCases DEF Success
  <2>3. "Unavailable" \in {x.outcome, y.outcome}
    <3>1. \A identity, mode : answer # Admission(identity, mode)
      BY DEF Admission, Success
    <3>2. ASSUME NEW mode, x.proof.provider = "Supabase", y.proof.provider = "Neon",
                 answer = DecidePair(request.topology, mode, x, y)
          PROVE  FALSE
      <4>1. DecidePair(request.topology, mode, x, y).ok
        BY <3>2
      <4>2. DecidePair(request.topology, mode, x, y)
              = Admission([user |-> x.proof.user, tenant |-> x.proof.tenant,
                           audience |-> request.topology.audience,
                           plane |-> DataPlane(request.topology.role), winner |-> "Supabase",
                           supabase |-> x.proof.subject, neon |-> y.proof.subject], mode)
        BY <3>2, <4>1, PairAdmits
      <4> QED
        BY <3>1, <3>2, <4>2
    <3> QED
      BY <2>2, <3>1, <3>2
  <2> QED
    BY <2>2, <2>3 DEF IInv, Evidence, AuthProvider
<1> QED
  BY <1>1, Invariance, PTL

-----------------------------------------------------------------------------
(* The lanes in the other order: what is wrong with them is wrong, and     *)
(* each provider's lane is the same, if it has one.                        *)
LEMMA BackwardsKeeps ==
  ASSUME NEW s \in Seq(ProviderDecision)
  PROVE  /\ Mistagged(Backwards(s)) = {} <=> Mistagged(s) = {}
         /\ Repeated(Backwards(s)) = {} <=> Repeated(s) = {}
         /\ \A p : Of(Backwards(s), p) = {} <=> Of(s, p) = {}
         /\ \A p : Repeated(s) = {} /\ Of(s, p) # {} => Lane(Backwards(s), p) = Lane(s, p)
<1> DEFINE b == Backwards(s)
           n == Len(s)
<1>1. n \in Nat /\ DOMAIN s = 1 .. n /\ DOMAIN b = 1 .. n
  BY DEF Backwards
<1>2. /\ \A i \in 1 .. n : b[i] = s[n + 1 - i] /\ n + 1 - i \in 1 .. n
      /\ \A i \in 1 .. n : s[i] = b[n + 1 - i]
  BY <1>1 DEF Backwards
<1> HIDE DEF b, n
<1>3. Mistagged(b) = {} <=> Mistagged(s) = {}
  BY <1>1, <1>2 DEF Mistagged
<1>4. Repeated(b) = {} <=> Repeated(s) = {}
  <2>1. ASSUME NEW i \in 1 .. n, NEW j \in 1 .. n, j < i PROVE n + 1 - i < n + 1 - j
    BY <1>1, <2>1
  <2>3. Repeated(s) # {} <=> \E i, j \in 1 .. n : j < i /\ s[j].provider = s[i].provider
    BY <1>1 DEF Repeated
  <2>4. Repeated(b) # {} <=> \E i, j \in 1 .. n : j < i /\ b[j].provider = b[i].provider
    BY <1>1 DEF Repeated
  <2>5. ASSUME NEW i \in 1 .. n, NEW j \in 1 .. n, j < i, s[j].provider = s[i].provider
        PROVE  Repeated(b) # {}
    <3>1. /\ b[n + 1 - i] = s[i] /\ b[n + 1 - j] = s[j] /\ n + 1 - i < n + 1 - j
          /\ n + 1 - i \in 1 .. n /\ n + 1 - j \in 1 .. n
      BY <1>2, <2>1, <2>5
    <3> QED
      BY <2>4, <2>5, <3>1
  <2>6. ASSUME NEW i \in 1 .. n, NEW j \in 1 .. n, j < i, b[j].provider = b[i].provider
        PROVE  Repeated(s) # {}
    <3>1. /\ s[n + 1 - i] = b[i] /\ s[n + 1 - j] = b[j] /\ n + 1 - i < n + 1 - j
          /\ n + 1 - i \in 1 .. n /\ n + 1 - j \in 1 .. n
      BY <1>2, <2>1, <2>6
    <3> QED
      BY <2>3, <2>6, <3>1
  <2> QED
    BY <2>3, <2>4, <2>5, <2>6
<1>5. \A p : Of(b, p) = {} <=> Of(s, p) = {}
  BY <1>1, <1>2 DEF Of
<1>6. ASSUME Repeated(s) = {}, NEW p, Of(s, p) # {} PROVE Lane(b, p) = Lane(s, p)
  <2>1. PICK i \in 1 .. n : i \in Of(s, p) /\ Lane(s, p) = s[i]
    <3>1. (CHOOSE i \in Of(s, p) : TRUE) \in Of(s, p)
      BY <1>6
    <3> QED
      BY <1>1, <3>1 DEF Lane, Of
  <2>2. PICK j \in 1 .. n : j \in Of(b, p) /\ Lane(b, p) = b[j]
    <3>1. (CHOOSE k \in Of(b, p) : TRUE) \in Of(b, p)
      BY <1>5, <1>6
    <3> QED
      BY <1>1, <3>1 DEF Lane, Of
  <2>3. s[i].provider = p /\ s[n + 1 - j].provider = p /\ Lane(b, p) = s[n + 1 - j]
    BY <1>2, <2>1, <2>2 DEF Of
  <2>4. n + 1 - j \in 1 .. n
    BY <1>1
  <2>5. ~(i < n + 1 - j) /\ ~(n + 1 - j < i)
    BY <1>1, <1>6, <2>3, <2>4 DEF Repeated
  <2>6. i = n + 1 - j
    BY <1>1, <2>4, <2>5
  <2> QED
    BY <2>1, <2>3, <2>6
<1> QED
  BY <1>3, <1>4, <1>5, <1>6 DEF b

(* What the lanes have to be for a decision that is not an error.          *)
LEMMA DecisionOn ==
  ASSUME NEW r, NEW s,
         TopologyError(r.topology) = "none",
         ~(r.mode = "AvailabilityFirst" /\ PairRequired(r)),
         Mistagged(s) = {}, Repeated(s) = {}, Of(s, "Supabase") # {}, Of(s, "Neon") # {}
  PROVE  Decision(r, s) =
           IF r.mode = "StrictPaired"
           THEN DecideStrict(r.topology, Lane(s, "Supabase"), Lane(s, "Neon"))
           ELSE DecideAvailabilityFirst(r.topology, Lane(s, "Supabase"), Lane(s, "Neon"))
BY DEF Decision

LEMMA OrderAgrees ==
  ASSUME NEW r, NEW s \in Seq(ProviderDecision)
  PROVE  /\ Decision(r, s).ok = Decision(r, Backwards(s)).ok
         /\ Decision(r, s).ok => Decision(r, s) = Decision(r, Backwards(s))
<1> DEFINE b     == Backwards(s)
           given == Decision(r, s)
           again == Decision(r, b)
<1>1. given.ok \in BOOLEAN /\ again.ok \in BOOLEAN
  BY DecisionIsAResult
<1>2. ASSUME Decision(r, s).ok PROVE Decision(r, b) = Decision(r, s)
  <2>1. /\ Of(s, "Supabase") # {} /\ Of(s, "Neon") # {}
        /\ Mistagged(s) = {} /\ Repeated(s) = {} /\ TopologyError(r.topology) = "none"
        /\ ~(r.mode = "AvailabilityFirst" /\ PairRequired(r))
    BY <1>2, LanesTaken
  <2>2. /\ Of(b, "Supabase") # {} /\ Of(b, "Neon") # {}
        /\ Mistagged(b) = {} /\ Repeated(b) = {}
        /\ Lane(b, "Supabase") = Lane(s, "Supabase") /\ Lane(b, "Neon") = Lane(s, "Neon")
    BY <2>1, BackwardsKeeps
  <2> HIDE DEF b
  <2> QED
    BY <2>1, <2>2, DecisionOn
<1>3. ASSUME Decision(r, b).ok PROVE Decision(r, b) = Decision(r, s)
  <2>1. /\ Of(b, "Supabase") # {} /\ Of(b, "Neon") # {}
        /\ Mistagged(b) = {} /\ Repeated(b) = {} /\ TopologyError(r.topology) = "none"
        /\ ~(r.mode = "AvailabilityFirst" /\ PairRequired(r))
    BY <1>3, LanesTaken
  <2>2. /\ Of(s, "Supabase") # {} /\ Of(s, "Neon") # {}
        /\ Mistagged(s) = {} /\ Repeated(s) = {}
        /\ Lane(b, "Supabase") = Lane(s, "Supabase") /\ Lane(b, "Neon") = Lane(s, "Neon")
    BY <2>1, BackwardsKeeps
  <2> HIDE DEF b
  <2> QED
    BY <2>1, <2>2, DecisionOn
<1> QED
  BY <1>1, <1>2, <1>3

(* The two modes on the same two lanes.                                    *)
LEMMA ModesAgreeOnLanes ==
  ASSUME NEW t, NEW x, NEW y,
         x.outcome \in {"Authenticated", "Invalid", "Unavailable"},
         y.outcome \in {"Authenticated", "Invalid", "Unavailable"},
         x.outcome = "Authenticated" => x.proof.provider = "Supabase",
         y.outcome = "Authenticated" => y.proof.provider = "Neon"
  PROVE  LET strict == DecideStrict(t, x, y) first == DecideAvailabilityFirst(t, x, y) IN
         /\ Admitted(strict) =>
              Admitted(first) /\ first.value.identity = strict.value.identity
         /\ Admitted(first) /\ ~Admitted(strict) => strict = Success([status |-> "degraded"])
<1> DEFINE strict == DecideStrict(t, x, y)
           first  == DecideAvailabilityFirst(t, x, y)
           outcomes == {x.outcome, y.outcome}
<1>1. CASE outcomes = {"Authenticated"}
  <2>1. /\ strict = DecidePair(t, "StrictPaired", x, y)
        /\ first = DecidePair(t, "AvailabilityFirst", x, y)
    BY <1>1 DEF DecideStrict, DecideAvailabilityFirst
  <2>2. strict.ok = first.ok /\ strict.ok \in BOOLEAN
    BY <2>1 DEF DecidePair, Admission, Success, StrictProof, Fail
  <2>3. ASSUME strict.ok
        PROVE  /\ Admitted(strict) /\ Admitted(first)
               /\ first.value.identity = strict.value.identity
    BY <2>1, <2>3 DEF DecidePair, Admission, Success, StrictProof, Fail, Admitted
  <2> QED
    BY <2>2, <2>3 DEF Admitted
<1>2. CASE outcomes # {"Authenticated"}
  <2>1. strict = Success([status |-> IF "Invalid" \in outcomes THEN "unauthenticated"
                                     ELSE "degraded"])
    BY <1>2 DEF DecideStrict
  <2>2. ~Admitted(strict)
    BY <2>1 DEF Admitted, Success
  <2>3. ASSUME Admitted(first) PROVE outcomes = {"Authenticated", "Unavailable"}
    BY <1>2, <2>3 DEF DecideAvailabilityFirst, Admitted, Success, Fail
  <2>4. outcomes = {"Authenticated", "Unavailable"} => "Invalid" \notin outcomes
    OBVIOUS
  <2> QED
    BY <2>1, <2>2, <2>3, <2>4
<1> QED
  BY <1>1, <1>2

(* The order of the lanes never decides, and the modes differ only where   *)
(* the pair was degraded (decide_strict, decide_availability_first).       *)
THEOREM ModesCorrect == Spec => []ModesAgree
<1>1. IInv => ModesAgree
  <2> SUFFICES ASSUME IInv PROVE ModesAgree
    OBVIOUS
  <2> DEFINE r  == [request EXCEPT !.operation = "Ordinary"]
             rs == [r EXCEPT !.mode = "StrictPaired"]
             rf == [r EXCEPT !.mode = "AvailabilityFirst"]
             strict == Decision(rs, lanes)
             first  == Decision(rf, lanes)
             t == request.topology
             x == Lane(lanes, "Supabase")
             y == Lane(lanes, "Neon")
  <2>1. request \in Request /\ lanes \in Seq(ProviderDecision)
    BY DEF IInv, TypeOK
  <2>2. /\ rs.topology = t /\ rs.mode = "StrictPaired"
        /\ rf.topology = t /\ rf.mode = "AvailabilityFirst"
        /\ PairRequired(rf) = PairRequired(r)
    BY <2>1 DEF Request, PairRequired
  <2>3. /\ Decision(request, lanes).ok = Decision(request, Backwards(lanes)).ok
        /\ Decision(request, lanes).ok
             => Decision(request, lanes) = Decision(request, Backwards(lanes))
    BY <2>1, OrderAgrees
  <2>4. ASSUME ~PairRequired(r), strict.ok \/ first.ok
        PROVE  /\ strict = DecideStrict(t, x, y) /\ first = DecideAvailabilityFirst(t, x, y)
               /\ x.outcome \in {"Authenticated", "Invalid", "Unavailable"}
               /\ y.outcome \in {"Authenticated", "Invalid", "Unavailable"}
               /\ x.outcome = "Authenticated" => x.proof.provider = "Supabase"
               /\ y.outcome = "Authenticated" => y.proof.provider = "Neon"
    <3> HIDE DEF rs, rf, r
    <3>1. /\ Of(lanes, "Supabase") # {} /\ Of(lanes, "Neon") # {}
          /\ Mistagged(lanes) = {} /\ Repeated(lanes) = {} /\ TopologyError(t) = "none"
      BY <2>2, <2>4, LanesTaken
    <3>2. strict = DecideStrict(t, x, y) /\ first = DecideAvailabilityFirst(t, x, y)
      BY <2>2, <2>4, <3>1, DecisionOn
    <3>3. \A z \in {lanes[i] : i \in DOMAIN lanes} :
            z.outcome \in {"Authenticated", "Invalid", "Unavailable"}
      BY <2>1 DEF ProviderDecision
    <3>4. /\ x \in {lanes[i] : i \in DOMAIN lanes} /\ y \in {lanes[i] : i \in DOMAIN lanes}
          /\ x.outcome = "Authenticated" => x.proof.provider = "Supabase"
          /\ y.outcome = "Authenticated" => y.proof.provider = "Neon"
      BY <3>1, LaneOf
    <3> HIDE DEF x, y
    <3> QED
      BY <3>2, <3>3, <3>4
  <2>5. ASSUME ~PairRequired(r)
        PROVE  /\ Admitted(strict) =>
                    Admitted(first) /\ first.value.identity = strict.value.identity
               /\ Admitted(first) /\ ~Admitted(strict)
                    => strict = Success([status |-> "degraded"])
    <3> HIDE DEF rs, rf, r, x, y
    <3>1. CASE strict.ok \/ first.ok
      BY <2>4, <2>5, <3>1, ModesAgreeOnLanes
    <3>2. CASE ~(strict.ok \/ first.ok)
      BY <3>2 DEF Admitted
    <3> QED
      BY <3>1, <3>2
  <2> QED
    BY <2>3, <2>5 DEF ModesAgree
<1> QED
  BY <1>1, Invariance, PTL
=============================================================================
