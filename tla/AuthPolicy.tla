------------------------------ MODULE AuthPolicy ------------------------------
(***************************************************************************)
(* One arbitration of workers/auth-policy/index.mjs: a reducer that takes  *)
(* what the providers report (applyEvidence), the receipt of the durable   *)
(* queue (recordReconciliation), and says whether the proof requirement is *)
(* met (proofRequirementSatisfied).  Reports and receipts arrive in any    *)
(* order, late, more than once or never; they may contradict each other.   *)
(*                                                                         *)
(* A report that names another session, transaction or epoch, a lane or a  *)
(* kind that does not exist, or whose proof is not bound to its lane       *)
(* (provider, issuer, audience, realm, class, assurance, time of issue) is *)
(* "invalid"; a receipt that does is not sound.                            *)
(***************************************************************************)
EXTENDS Naturals

CONSTANTS
  Users,         \* shared user ids
  Ceremonies,    \* ids of the ceremonies that proofs come from
  Receipts,      \* ids of events in the durable queue
  Expiries,      \* when proofs expire
  None,          \* null or undefined
  Deadline,      \* context.deadline; the arbitration is created at time 0
  MaxTime        \* bound: the clock shows 0 .. MaxTime

ASSUME PolicyAssumption ==
  /\ None \notin Receipts \cup Users \cup {"shared-auth", "supabase", "neon"}
  /\ Expiries \in SUBSET Nat
  /\ Deadline \in Nat \ {0} /\ MaxTime \in Nat

VARIABLES
  policy,            \* the compiled policy
  status,            \* state.status
  evidence,          \* state.evidence
  winner,            \* state.winner
  sharedUserId,      \* state.sharedUserId
  reconciliationId,  \* state.reconciliationId
  now,               \* state.context.now
  clock,             \* what the caller's clock shows
  reported,          \* history: the reports the arbitration took note of
  receipted,         \* history: the receipts it took note of
  lastReport         \* history: when the last of these reports arrived

state   == <<status, evidence, winner, sharedUserId, reconciliationId, now>>
history == <<reported, receipted, lastReport>>
vars    == <<policy, state, clock, history>>

Time  == 0 .. MaxTime
Lanes == {"shared-auth", "supabase", "neon"}
Kinds == {"valid", "degraded", "not_applicable"}

(* compilePolicy: lanes differ in their provider, so each is named by it.  *)
(* A strict pair is Supabase and Neon; a subsystem grant takes a native    *)
(* proof, of Shared Auth, and a federation root, of Supabase.              *)
Policy ==
  [mode : {"strict-provider-pair"}, lanes : {{"supabase", "neon"}}]
    \cup [mode : {"subsystem-grant"}, lanes : {{"shared-auth", "supabase"}}]
    \cup [mode : {"customer-optimistic"},
          lanes : {Lanes} \cup {Lanes \ {l} : l \in Lanes}]

Proof  == [user : Users, ceremony : Ceremonies, expires : Expiries]
Result == [kind : {"valid"}, proof : Proof]
            \cup [kind : Kinds \ {"valid"}, proof : {None}]
Denial == [kind : {"hard_deny", "invalid"}, proof : {None}]

ASSUME NoneAssumption == None \notin Result \cup Denial

Report  == [lane : Lanes, result : Result \cup Denial]
Receipt == [id : Receipts, sound : BOOLEAN]

TypeOK ==
  /\ policy \in Policy
  /\ status \in {"pending", "awaiting_durable_reconciliation", "optimistic",
                 "reconciled", "degraded", "denied"}
  /\ evidence \in [Lanes -> Result \cup {None}]
  /\ winner \in Lanes \cup {None}
  /\ sharedUserId \in Users \cup {None}
  /\ reconciliationId \in Receipts \cup {None}
  /\ now \in Time /\ clock \in Time /\ lastReport \in Time
  /\ reported \in SUBSET Report /\ receipted \in SUBSET Receipt

(* createArbitration.                                                      *)
Init ==
  /\ policy \in Policy
  /\ status = "pending"
  /\ evidence = [l \in Lanes |-> None]
  /\ winner = None /\ sharedUserId = None /\ reconciliationId = None
  /\ now = 0 /\ clock = 0
  /\ reported = {} /\ receipted = {} /\ lastReport = 0

-----------------------------------------------------------------------------
Reported(ev) == {l \in Lanes : ev[l] # None}
Valid(ev)    == {l \in Reported(ev) : ev[l].kind = "valid"}

(* Mutant: a refusal is kept as evidence like an outage.                   *)
RefusedButDenials(e, t) ==
  \/ e.lane \notin policy.lanes
  \/ e.result.kind = "invalid"
  \/ t >= Deadline
  \/ e.result.kind = "valid" /\ e.result.proof.expires <= t

(* The tests of applyEvidence on the event alone, at time t.               *)
Refused(e, t) ==
  \/ e.lane \notin policy.lanes
  \/ e.result.kind \in {"invalid", "hard_deny"}
  \/ t >= Deadline
  \/ e.result.kind = "valid" /\ e.result.proof.expires <= t

(* Mutant: whose proofs they are is not compared.                          *)
ContradictoryButForUser(ev, t) ==
  \/ \E l \in Valid(ev) : ev[l].proof.expires <= t
  \/ /\ policy.mode = "subsystem-grant"
     /\ \E l, m \in Valid(ev) : l # m /\ ev[l].proof.ceremony = ev[m].proof.ceremony

(* The tests of applyEvidence on all evidence: a proof that has expired    *)
(* meanwhile, two users, or two proofs that are one.                       *)
Contradictory(ev, t) ==
  \/ \E l \in Valid(ev) : ev[l].proof.expires <= t
  \/ \E l, m \in Valid(ev) : ev[l].proof.user # ev[m].proof.user
  \/ /\ policy.mode = "subsystem-grant"
     /\ \E l, m \in Valid(ev) : l # m /\ ev[l].proof.ceremony = ev[m].proof.ceremony

(* Mutant: an acknowledged receipt is forgotten with the next report.      *)
StatusOfForgetful(ev, receipt) ==
  IF policy.lanes \subseteq Valid(ev) THEN "reconciled"
  ELSE IF policy.mode = "customer-optimistic" /\ Valid(ev) # {}
    THEN "awaiting_durable_reconciliation"
  ELSE IF policy.lanes \subseteq Reported(ev) THEN "degraded"
  ELSE "pending"

StatusOf(ev, receipt) ==
  IF policy.lanes \subseteq Valid(ev) THEN "reconciled"
  ELSE IF policy.mode = "customer-optimistic" /\ Valid(ev) # {}
    THEN IF receipt # None THEN "optimistic" ELSE "awaiting_durable_reconciliation"
  ELSE IF policy.lanes \subseteq Reported(ev) THEN "degraded"
  ELSE "pending"

Deny ==
  /\ status' = "denied"
  /\ UNCHANGED <<evidence, winner, sharedUserId, reconciliationId, now>>

(* A lane that reports twice must repeat itself.  The evidence is kept in  *)
(* order of arrival, so the first valid proof is the winner's.             *)
Accept(e, ev) ==
  /\ evidence' = ev
  /\ status' = StatusOf(ev, reconciliationId)
  /\ winner' = IF winner = None /\ e.result.kind = "valid" THEN e.lane ELSE winner
  /\ sharedUserId' = IF winner' = None THEN None ELSE ev[winner'].proof.user
  /\ now' = clock
  /\ UNCHANGED reconciliationId

(* applyEvidence.  A denied arbitration is returned as it is, and a clock  *)
(* that went back throws.                                                  *)
ApplyEvidence(e) ==
  /\ status # "denied" /\ clock >= now
  /\ LET ev == [evidence EXCEPT ![e.lane] = e.result]
     IN IF \/ Refused(e, clock)
           \/ evidence[e.lane] \notin {None, e.result}
           \/ Contradictory(ev, clock)
          THEN Deny ELSE Accept(e, ev)
  /\ reported' = reported \cup {e}
  /\ lastReport' = clock
  /\ UNCHANGED <<policy, clock, receipted>>

(* Mutant: a receipt admits although nothing has been proved yet.          *)
RecordReconciliationEager(r) ==
  /\ status # "denied"
  /\ IF ~r.sound \/ reconciliationId \notin {None, r.id}
       THEN Deny
       ELSE /\ reconciliationId' = r.id
            /\ status' = IF status \in {"awaiting_durable_reconciliation", "pending"}
                           THEN "optimistic" ELSE status
            /\ UNCHANGED <<evidence, winner, sharedUserId, now>>
  /\ receipted' = receipted \cup {r}
  /\ UNCHANGED <<policy, clock, reported, lastReport>>

(* recordReconciliation: the time is not looked at.                        *)
RecordReconciliation(r) ==
  /\ status # "denied"
  /\ IF ~r.sound \/ reconciliationId \notin {None, r.id}
       THEN Deny
       ELSE /\ reconciliationId' = r.id
            /\ status' = IF status = "awaiting_durable_reconciliation"
                           THEN "optimistic" ELSE status
            /\ UNCHANGED <<evidence, winner, sharedUserId, now>>
  /\ receipted' = receipted \cup {r}
  /\ UNCHANGED <<policy, clock, reported, lastReport>>

(* The caller's clock: it moves on, and may be set back.                   *)
SetClock(t) ==
  /\ clock' = t
  /\ UNCHANGED <<policy, state, history>>

Next ==
  \/ \E e \in Report : ApplyEvidence(e)
  \/ \E r \in Receipt : RecordReconciliation(r)
  \/ \E t \in Time : SetClock(t)

Spec == Init /\ [][Next]_vars

(* proofRequirementSatisfied, asked now.                                   *)
Satisfied ==
  /\ clock >= now /\ clock < Deadline
  /\ ~ \E l \in Valid(evidence) : evidence[l].proof.expires <= clock
  /\ \/ status = "reconciled"
     \/ status = "optimistic" /\ policy.mode = "customer-optimistic"
          /\ reconciliationId # None

-----------------------------------------------------------------------------
(* The decision as a function of the set of reports and receipts.          *)
Proofs == {e \in reported : e.result.kind = "valid"}
ProofOf(l) == \E e \in Proofs : e.lane = l

Refuted ==
  \/ \E e \in reported : Refused(e, lastReport)
  \/ \E d, e \in reported : d.lane = e.lane /\ d.result # e.result
  \/ \E d, e \in Proofs : d.result.proof.user # e.result.proof.user
  \/ /\ policy.mode = "subsystem-grant"
     /\ \E d, e \in Proofs :
          d.lane # e.lane /\ d.result.proof.ceremony = e.result.proof.ceremony
  \/ \E r \in receipted : ~r.sound
  \/ \E r, s \in receipted : r.id # s.id

Verdict ==
  IF Refuted THEN "denied"
  ELSE IF \A l \in policy.lanes : ProofOf(l) THEN "reconciled"
  ELSE IF policy.mode = "customer-optimistic" /\ Proofs # {}
    THEN IF receipted # {} THEN "optimistic" ELSE "awaiting_durable_reconciliation"
  ELSE IF \A l \in policy.lanes : \E e \in reported : e.lane = l THEN "degraded"
  ELSE "pending"

(* "Final decisions are independent of provider completion order" (index.  *)
(* mjs 112-113): the status is what the set of reports and receipts says,  *)
(* and the time of the last report; their order does not matter, nor that  *)
(* some came twice.  A denial is final because Refuted only grows.         *)
OrderIndependent == status = Verdict

(* The requirement is met only on proofs that are all of the one user the  *)
(* arbitration names, none expired now, none refused: from every lane of a *)
(* strict pair or subsystem grant, there from independent ceremonies, or   *)
(* from one lane once the queue has acknowledged it (189-198).             *)
AdmissionEarned ==
  Satisfied =>
    /\ clock < Deadline
    /\ Proofs # {}
    /\ \A e \in Proofs : /\ e.result.proof.expires > clock
                         /\ e.result.proof.user = sharedUserId
    /\ ~ \E e \in reported : e.result.kind \in {"invalid", "hard_deny"}
    /\ \/ \A l \in policy.lanes : ProofOf(l)
       \/ policy.mode = "customer-optimistic" /\ receipted # {}
    /\ policy.mode = "subsystem-grant" =>
         \A d, e \in Proofs :
           d.result.proof.ceremony = e.result.proof.ceremony => d.lane = e.lane

(* An admission is not lost because another provider is down or answers    *)
(* late: only a denial or the passing of time takes it back.               *)
AdmissionKept ==
  [][Satisfied /\ ~Satisfied' => status' = "denied" \/ clock' # clock]_vars
=============================================================================
