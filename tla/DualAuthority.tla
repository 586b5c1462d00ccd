------------------------------ MODULE DualAuthority ------------------------------
(***************************************************************************)
(* auth_decision.rs: a server decides a request from one lane of Supabase  *)
(* and one of Neon.  The lanes are asked one after the other, and between  *)
(* them, and before the decision, a provider may go down, come back, end   *)
(* the session or bind it to another account.                              *)
(*                                                                         *)
(* Who asks the providers is not in the repository.  That caller may ask   *)
(* in either order, leave a lane out, ask one twice, or put a proof in the *)
(* wrong lane; the providers answer what their state says.                 *)
(***************************************************************************)
EXTENDS AuthTopology

CONSTANTS
  Topologies,  \* of the servers
  Accounts,    \* what a provider may know of the caller
  MaxChanges,  \* bound: changes of the providers during a request
  MaxLanes     \* bound: lanes the caller collects

Account ==
  [subject : Subjects \cup {Blank}, user : Users \cup {Blank}, tenant : Tenants \cup {Blank},
   audience : Audiences, plane : {"customer-auth", "admin-auth"}, status : {"Active", "Revoked"}]

ASSUME DualAssumption ==
  /\ Topologies \subseteq Topology
  /\ Accounts \subseteq Account /\ Blank \notin Account
  /\ MaxChanges \in Nat /\ MaxLanes \in Nat

Request ==
  [topology : Topologies, operation : {"Ordinary", "Sensitive"},
   mode : {"AvailabilityFirst", "StrictPaired"}]

VARIABLES
  up,       \* the providers that answer
  session,  \* what each provider knows of the caller, Blank if nothing
  request,  \* the request being decided
  lanes,    \* its ProviderDecisions, in the order they are passed
  answer,   \* its answer, NoAnswer before
  changes,  \* how often the providers changed during the request
  seen      \* history: how each provider was during the request, <<up, session>>

vars == <<up, session, request, lanes, answer, changes, seen>>

ProofOf(p, a) ==
  [provider |-> p, subject |-> a.subject, user |-> a.user, tenant |-> a.tenant,
   audience |-> a.audience, plane |-> a.plane, status |-> a.status]

Authenticated(p, proof) == [provider |-> p, outcome |-> "Authenticated", proof |-> proof]
Unproven(p, outcome)    == [provider |-> p, outcome |-> outcome]

ProviderDecision ==
  [provider : AuthProvider, outcome : {"Authenticated"}, proof : ProviderProof]
    \cup [provider : AuthProvider, outcome : {"Invalid", "Unavailable"}]

AvailableIdentity ==
  [user : Users, tenant : Tenants, audience : Audiences,
   plane : {"customer-auth", "admin-auth"}, winner : AuthProvider,
   supabase : Subjects \cup {Blank}, neon : Subjects \cup {Blank}]

DualAuthDecision ==
  [status : {"authenticated"}, identity : AvailableIdentity,
   mode : {"AvailabilityFirst", "StrictPaired"}]
    \cup [status : {"unauthenticated", "degraded"}]

NoAnswer == [ok |-> FALSE, error |-> <<>>]

TypeOK ==
  /\ up \in SUBSET AuthProvider
  /\ session \in [AuthProvider -> Accounts \cup {Blank}]
  /\ request \in Request
  /\ lanes \in Seq(ProviderDecision) /\ Len(lanes) <= MaxLanes
  /\ answer.ok \in BOOLEAN /\ (answer.ok => answer.value \in DualAuthDecision)
  /\ changes \in 0 .. MaxChanges
  /\ seen \in [AuthProvider -> SUBSET (BOOLEAN \X (Accounts \cup {Blank}))]

-----------------------------------------------------------------------------
(* The conversion of a pair's identity: the pair is reported as Supabase.  *)
IdentityFromPair(v) ==
  [user |-> v.user, tenant |-> v.tenant, audience |-> v.audience, plane |-> v.plane,
   winner |-> "Supabase", supabase |-> v.supabase, neon |-> v.neon]

(* identity_from_single.                                                   *)
IdentityFromSingle(proof) ==
  [user |-> proof.user, tenant |-> proof.tenant, audience |-> proof.audience,
   plane |-> proof.plane, winner |-> proof.provider,
   supabase |-> IF proof.provider = "Supabase" THEN proof.subject ELSE Blank,
   neon     |-> IF proof.provider = "Neon" THEN proof.subject ELSE Blank]

Admission(identity, mode) ==
  Success([status |-> "authenticated", identity |-> identity, mode |-> mode])

StrictProof(e) == Fail(<<"StrictProof", e>>)

DecidePair(t, mode, supabase, neon) ==
  LET verified == VerifyDualProviderProofs(t, <<supabase.proof, neon.proof>>) IN
  IF verified.ok THEN Admission(IdentityFromPair(verified.value), mode)
  ELSE StrictProof(verified.error)

(* Mutant: a pair that is not complete can be tried again.                 *)
DecideStrictOrLater(t, supabase, neon) ==
  IF {supabase.outcome, neon.outcome} = {"Authenticated"}
  THEN DecidePair(t, "StrictPaired", supabase, neon)
  ELSE Success([status |-> "degraded"])

(* decide_strict.                                                          *)
DecideStrict(t, supabase, neon) ==
  LET outcomes == {supabase.outcome, neon.outcome} IN
  IF outcomes = {"Authenticated"} THEN DecidePair(t, "StrictPaired", supabase, neon)
  ELSE Success([status |-> IF "Invalid" \in outcomes THEN "unauthenticated" ELSE "degraded"])

(* Mutant: one good lane carries the request, whatever the other says.     *)
DecideOnFirstSuccess(t, supabase, neon) ==
  LET outcomes == {supabase.outcome, neon.outcome}
      single   == IF supabase.outcome = "Authenticated" THEN supabase ELSE neon
  IN
  IF outcomes = {"Authenticated"} THEN DecidePair(t, "AvailabilityFirst", supabase, neon)
  ELSE IF "Authenticated" \in outcomes
    THEN IF ProofError(t, single.proof) = <<"none">>
         THEN Admission(IdentityFromSingle(single.proof), "AvailabilityFirst")
         ELSE StrictProof(ProofError(t, single.proof))
  ELSE Success([status |-> IF "Invalid" \in outcomes THEN "unauthenticated" ELSE "degraded"])

(* decide_availability_first: one good lane carries the request while the  *)
(* other is out.                                                           *)
DecideAvailabilityFirst(t, supabase, neon) ==
  LET outcomes == {supabase.outcome, neon.outcome}
      single   == IF supabase.outcome = "Authenticated" THEN supabase ELSE neon
  IN
  IF outcomes = {"Authenticated"} THEN DecidePair(t, "AvailabilityFirst", supabase, neon)
  ELSE IF outcomes = {"Authenticated", "Unavailable"}
    THEN IF ProofError(t, single.proof) = <<"none">>
         THEN Admission(IdentityFromSingle(single.proof), "AvailabilityFirst")
         ELSE StrictProof(ProofError(t, single.proof))
  ELSE IF outcomes = {"Authenticated", "Invalid"} THEN Fail(<<"ProviderDisagreement">>)
  ELSE Success([status |-> IF "Invalid" \in outcomes THEN "unauthenticated" ELSE "degraded"])

Mistagged(s) ==
  {i \in DOMAIN s : s[i].outcome = "Authenticated" /\ s[i].proof.provider # s[i].provider}

Repeated(s) == {i \in DOMAIN s : \E j \in DOMAIN s : j < i /\ s[j].provider = s[i].provider}

Lane(s, p) == s[CHOOSE i \in Of(s, p) : TRUE]

(* Mutant: only the plane is asked whether the pair is required.           *)
PairRequiredForAdmins(r) == IsAdmin(r.topology.role)

PairRequired(r) == IsAdmin(r.topology.role) \/ r.operation = "Sensitive"

(* decide_dual_auth_for_operation; decide_dual_auth is the same for an     *)
(* ordinary operation.  The lanes are taken one by one, and the first that *)
(* is in the wrong place or comes twice ends it.                           *)
Decision(r, s) ==
  LET wrong == Mistagged(s) \cup Repeated(s)
      worst == CHOOSE i \in wrong : \A j \in wrong : i <= j
      t     == r.topology
  IN
  IF TopologyError(t) # "none" THEN Fail(<<"InvalidTopology", TopologyError(t)>>)
  ELSE IF r.mode = "AvailabilityFirst" /\ PairRequired(r) THEN Fail(<<"StrictPairedRequired">>)
  ELSE IF wrong # {}
    THEN Fail(<<IF worst \in Mistagged(s) THEN "ProviderTagMismatch"
                ELSE "DuplicateProviderDecision">>)
  ELSE IF Of(s, "Supabase") = {} THEN Fail(<<"MissingProviderDecision", "Supabase">>)
  ELSE IF Of(s, "Neon") = {} THEN Fail(<<"MissingProviderDecision", "Neon">>)
  ELSE IF r.mode = "StrictPaired" THEN DecideStrict(t, Lane(s, "Supabase"), Lane(s, "Neon"))
  ELSE DecideAvailabilityFirst(t, Lane(s, "Supabase"), Lane(s, "Neon"))

-----------------------------------------------------------------------------
State(p) == <<p \in up, session[p]>>

Init ==
  /\ up \in SUBSET AuthProvider
  /\ session \in [AuthProvider -> Accounts \cup {Blank}]
  /\ request \in Request
  /\ lanes = <<>> /\ answer = NoAnswer /\ changes = 0
  /\ seen = [p \in AuthProvider |-> {State(p)}]

(* What the provider answers when it is asked: that it does not know the   *)
(* session, or a proof of what it knows, revoked or not.                   *)
Outcome(lane, p) ==
  IF p \notin up THEN Unproven(lane, "Unavailable")
  ELSE IF session[p] = Blank THEN Unproven(lane, "Invalid")
  ELSE Authenticated(lane, ProofOf(p, session[p]))

(* The caller asks p and files its answer under a lane, not always its.    *)
Ask(p, lane) ==
  /\ answer = NoAnswer
  /\ Len(lanes) < MaxLanes
  /\ lane # p => p \in up /\ session[p] # Blank
  /\ lanes' = Append(lanes, Outcome(lane, p))
  /\ UNCHANGED <<up, session, request, answer, changes, seen>>

Decide ==
  /\ answer = NoAnswer
  /\ answer' = Decision(request, lanes)
  /\ UNCHANGED <<up, session, request, lanes, changes, seen>>

(* The next request, on what the providers know by now.                    *)
Begin ==
  /\ answer # NoAnswer
  /\ request' \in Request
  /\ lanes' = <<>> /\ answer' = NoAnswer /\ changes' = 0
  /\ seen' = [p \in AuthProvider |-> {State(p)}]
  /\ UNCHANGED <<up, session>>

Changed(p) ==
  /\ answer = NoAnswer
  /\ changes < MaxChanges
  /\ changes' = changes + 1
  /\ seen' = [seen EXCEPT ![p] = @ \cup {State(p)'}]
  /\ UNCHANGED <<request, lanes, answer>>

GoDown(p) == p \in up /\ up' = up \ {p} /\ session' = session /\ Changed(p)
ComeUp(p) == p \notin up /\ up' = up \cup {p} /\ session' = session /\ Changed(p)

(* The session is revoked, bound to another account, or forgotten.         *)
Update(p) ==
  /\ \E a \in Accounts \cup {Blank} : a # session[p] /\ session' = [session EXCEPT ![p] = a]
  /\ up' = up
  /\ Changed(p)

Next ==
  \/ Decide \/ Begin
  \/ \E p \in AuthProvider :
       GoDown(p) \/ ComeUp(p) \/ Update(p) \/ \E lane \in AuthProvider : Ask(p, lane)

Spec == Init /\ [][Next]_vars

-----------------------------------------------------------------------------
Admitted(d) == d.ok /\ d.value.status = "authenticated"

(* During the request the provider was up and knew an active session of    *)
(* this user, tenant, plane and audience.                                  *)
Vouched(p, identity) ==
  \E a \in Accounts :
    /\ <<TRUE, a>> \in seen[p]
    /\ a.status = "Active" /\ a.user = identity.user /\ a.tenant = identity.tenant
    /\ a.plane = identity.plane /\ a.audience = identity.audience

Silent(p) == \E a \in Accounts \cup {Blank} : <<FALSE, a>> \in seen[p]

(* Whoever is admitted was vouched for by both providers during the        *)
(* request, for one account; the one excuse of a provider is that it was   *)
(* down, and no admin plane and no sensitive operation takes that excuse.  *)
(* The admission is for the plane and the audience of the server.          *)
AdmissionIsGrounded ==
  Admitted(answer) =>
    LET identity == answer.value.identity IN
    /\ identity.plane = DataPlane(request.topology.role)
    /\ identity.audience = request.topology.audience
    /\ \E p \in AuthProvider : Vouched(p, identity)
    /\ \A p \in AuthProvider : \/ Vouched(p, identity)
                               \/ /\ Silent(p)
                                  /\ ~IsAdmin(request.topology.role)
                                  /\ request.operation = "Ordinary"

(* A caller is told to come back later only if a provider was down while   *)
(* the request was decided, so that coming back can help.                  *)
DegradedMeansDown ==
  answer.ok /\ answer.value.status = "degraded" => \E p \in AuthProvider : Silent(p)

Backwards(s) == [i \in DOMAIN s |-> s[Len(s) + 1 - i]]

(* The two modes and the two orders of the lanes agree on whatever lanes a *)
(* request has: the order never decides whether, or as whom, the caller is *)
(* admitted; what a strict pair admits, availability-first admits as the   *)
(* same identity; and it admits more only where the pair was degraded.     *)
ModesAgree ==
  LET r      == [request EXCEPT !.operation = "Ordinary"]
      strict == Decision([r EXCEPT !.mode = "StrictPaired"], lanes)
      first  == Decision([r EXCEPT !.mode = "AvailabilityFirst"], lanes)
      again  == Decision(request, Backwards(lanes))
      given  == Decision(request, lanes)
  IN
  /\ given.ok = again.ok /\ (given.ok => given = again)
  /\ ~PairRequired(r) =>
       /\ Admitted(strict) => Admitted(first) /\ first.value.identity = strict.value.identity
       /\ Admitted(first) /\ ~Admitted(strict) => strict = Success([status |-> "degraded"])
=============================================================================
