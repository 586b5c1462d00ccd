--------------------------- MODULE AuthPolicyProofs ---------------------------
(***************************************************************************)
(* Theorems about AuthPolicy: its status is a function of the set of       *)
(* reports and receipts, an admission is earned, and it is kept.           *)
(***************************************************************************)
EXTENDS AuthPolicy, TLAPS

(* What the arbitration holds, against what it was told, while it has not  *)
(* been denied.                                                            *)
EvidenceInv ==
  /\ lastReport = now
  /\ \A e \in reported : evidence[e.lane] = e.result /\ ~Refused(e, now)
  /\ \A l \in Lanes :
       evidence[l] # None => [lane |-> l, result |-> evidence[l]] \in reported
  /\ ~Contradictory(evidence, now)

ReceiptInv ==
  /\ \A r \in receipted : r.sound /\ r.id = reconciliationId
  /\ reconciliationId # None => receipted # {}

WinnerInv ==
  /\ Valid(evidence) # {} => winner \in Valid(evidence)
  /\ Valid(evidence) = {} => winner = None
  /\ sharedUserId = IF winner = None THEN None ELSE evidence[winner].proof.user

StatusInv == status = StatusOf(evidence, reconciliationId)

IInv ==
  /\ TypeOK
  /\ status # "denied" => EvidenceInv /\ ReceiptInv /\ WinnerInv /\ StatusInv
  /\ status = "denied" => Refuted

-----------------------------------------------------------------------------
(* A report is a lane and a result, and a result is never None.            *)
LEMMA ReportParts ==
  ASSUME NEW e \in Report
  PROVE  /\ e.lane \in Lanes /\ e.result \in Result \cup Denial
         /\ e.result # None
         /\ e = [lane |-> e.lane, result |-> e.result]
BY NoneAssumption DEF Report

(* What is not refused is a result.                                        *)
LEMMA NotRefused ==
  ASSUME NEW e \in Report, NEW t, ~Refused(e, t)
  PROVE  e.result \in Result /\ e.lane \in policy.lanes /\ ~(t >= Deadline)
<1>1. e.result \in Result \cup Denial
  BY ReportParts
<1>2. e.result.kind \notin {"invalid", "hard_deny"}
  BY DEF Refused
<1>3. e.result \notin Denial
  BY <1>2 DEF Denial
<1> QED
  BY <1>1, <1>3 DEF Refused

(* A valid result carries a proof.                                         *)
LEMMA ValidHasProof ==
  ASSUME NEW x \in Result, x.kind = "valid"
  PROVE  /\ x.proof \in Proof
         /\ x.proof.user \in Users /\ x.proof.ceremony \in Ceremonies
         /\ x.proof.expires \in Nat
<1>1. x.proof \in Proof
  BY DEF Result
<1> QED
  BY <1>1, PolicyAssumption DEF Proof

(* The lanes of a policy are lanes, and there are some.                    *)
LEMMA PolicyLanes ==
  ASSUME NEW p \in Policy
  PROVE  p.lanes \subseteq Lanes /\ p.lanes # {}
BY DEF Policy, Lanes

(* The status never denies by itself.                                      *)
LEMMA StatusNotDenied ==
  ASSUME NEW ev, NEW receipt
  PROVE  StatusOf(ev, receipt) \in {"pending", "awaiting_durable_reconciliation",
                                    "optimistic", "reconciled", "degraded"}
BY DEF StatusOf

(* While it is not denied, the evidence is what was reported.              *)
LEMMA EvidenceIsReported ==
  ASSUME TypeOK, EvidenceInv
  PROVE  /\ \A l \in Lanes : l \in Reported(evidence) <=> \E e \in reported : e.lane = l
         /\ \A l \in Lanes : l \in Valid(evidence) <=> ProofOf(l)
         /\ \A e \in Proofs : /\ e.lane \in Valid(evidence)
                              /\ evidence[e.lane] = e.result
<1>1. \A e \in reported : e \in Report
  BY DEF TypeOK
<1>2. \A e \in reported : /\ e.lane \in Lanes /\ e.result # None
                          /\ evidence[e.lane] = e.result
  BY <1>1, ReportParts DEF EvidenceInv
<1>3. ASSUME NEW l \in Lanes, evidence[l] # None
      PROVE  \E e \in reported : e.lane = l /\ e.result = evidence[l]
  <2>1. [lane |-> l, result |-> evidence[l]] \in reported
    BY <1>3 DEF EvidenceInv
  <2> QED
    BY <2>1
<1>4. \A e \in Proofs : e.lane \in Valid(evidence) /\ evidence[e.lane] = e.result
  BY <1>2 DEF Proofs, Valid, Reported
<1>5. \A l \in Lanes : l \in Reported(evidence) <=> \E e \in reported : e.lane = l
  BY <1>2, <1>3 DEF Reported
<1>6. ASSUME NEW l \in Valid(evidence)
      PROVE  ProofOf(l)
  <2>1. l \in Lanes /\ evidence[l] # None /\ evidence[l].kind = "valid"
    BY DEF Valid, Reported
  <2> QED
    BY <2>1, <1>3 DEF ProofOf, Proofs
<1> QED
  BY <1>4, <1>5, <1>6 DEF ProofOf

(* While it is not denied nothing refutes it, and its status is the        *)
(* verdict on what was reported.                                           *)
LEMMA StatusIsVerdict ==
  ASSUME TypeOK, EvidenceInv, ReceiptInv, StatusInv
  PROVE  ~Refuted /\ status = Verdict
<1>1. ~ \E e \in reported : Refused(e, lastReport)
  BY DEF EvidenceInv
<1>2. ~ \E d, e \in reported : d.lane = e.lane /\ d.result # e.result
  BY DEF EvidenceInv
<1>3. ~ \E d, e \in Proofs : d.result.proof.user # e.result.proof.user
  BY EvidenceIsReported DEF EvidenceInv, Contradictory
<1>4. ~ /\ policy.mode = "subsystem-grant"
        /\ \E d, e \in Proofs :
             d.lane # e.lane /\ d.result.proof.ceremony = e.result.proof.ceremony
  BY EvidenceIsReported DEF EvidenceInv, Contradictory
<1>5. ~ \E r \in receipted : ~r.sound
  BY DEF ReceiptInv
<1>6. ~ \E r, s \in receipted : r.id # s.id
  BY DEF ReceiptInv
<1>7. ~Refuted
  BY <1>1, <1>2, <1>3, <1>4, <1>5, <1>6 DEF Refuted
<1>8. policy.lanes \subseteq Lanes
  BY PolicyLanes DEF TypeOK
<1>9. policy.lanes \subseteq Valid(evidence) <=> \A l \in policy.lanes : ProofOf(l)
  BY <1>8, EvidenceIsReported
<1>10. policy.lanes \subseteq Reported(evidence)
         <=> \A l \in policy.lanes : \E e \in reported : e.lane = l
  BY <1>8, EvidenceIsReported
<1>11. Valid(evidence) # {} <=> Proofs # {}
  <2>1. ASSUME NEW l \in Valid(evidence)
        PROVE  Proofs # {}
    <3>1. l \in Lanes
      BY DEF Valid, Reported
    <3> QED
      BY <3>1, EvidenceIsReported DEF ProofOf
  <2> QED
    BY <2>1, EvidenceIsReported
<1>12. reconciliationId # None <=> receipted # {}
  <2>1. ASSUME NEW r \in receipted
        PROVE  reconciliationId # None
    BY PolicyAssumption DEF TypeOK, Receipt, ReceiptInv
  <2> QED
    BY <2>1 DEF ReceiptInv
<1> QED
  BY <1>7, <1>9, <1>10, <1>11, <1>12 DEF StatusInv, StatusOf, Verdict

-----------------------------------------------------------------------------
LEMMA InitIInv == Init => IInv
<1> SUFFICES ASSUME Init PROVE IInv
  OBVIOUS
<1>1. TypeOK
  BY PolicyAssumption DEF Init, TypeOK, Time
<1>2. Valid(evidence) = {} /\ Reported(evidence) = {}
  BY DEF Init, Valid, Reported
<1>3. EvidenceInv
  BY <1>2 DEF Init, EvidenceInv, Contradictory, Lanes
<1>4. ReceiptInv /\ WinnerInv
  BY <1>2 DEF Init, ReceiptInv, WinnerInv
<1>5. StatusInv
  BY <1>1, <1>2, PolicyLanes DEF Init, StatusInv, StatusOf, TypeOK
<1> QED
  BY <1>1, <1>3, <1>4, <1>5 DEF IInv, Init

-----------------------------------------------------------------------------
(* What applyEvidence decides a report on.                                 *)
With(e) == [evidence EXCEPT ![e.lane] = e.result]
Passes(e) ==
  /\ ~Refused(e, clock)
  /\ evidence[e.lane] \in {None, e.result}
  /\ ~Contradictory(With(e), clock)

(* The two outcomes of applyEvidence.                                      *)
LEMMA Outcomes ==
  ASSUME NEW e \in Report, ApplyEvidence(e)
  PROVE  /\ status # "denied" /\ clock >= now
         /\ reported' = reported \cup {e} /\ lastReport' = clock
         /\ UNCHANGED <<policy, clock, receipted>>
         /\ \/ Passes(e) /\ Accept(e, With(e))
            \/ ~Passes(e) /\ Deny
BY DEF ApplyEvidence, Passes, With

(* The evidence with the new report is evidence, and all of it reported.   *)
LEMMA WithIsReported ==
  ASSUME TypeOK, EvidenceInv, NEW e \in Report,
         evidence[e.lane] \in {None, e.result}
  PROVE  \A l \in Reported(With(e)) :
           /\ l \in Lanes
           /\ [lane |-> l, result |-> With(e)[l]] \in reported \cup {e}
<1> SUFFICES ASSUME NEW l \in Reported(With(e))
             PROVE  /\ l \in Lanes
                    /\ [lane |-> l, result |-> With(e)[l]] \in reported \cup {e}
  OBVIOUS
<1>1. l \in Lanes /\ With(e)[l] # None
  BY DEF Reported
<1>2. CASE l = e.lane
  <2>1. With(e)[l] = e.result
    BY <1>1, <1>2 DEF With, TypeOK
  <2> QED
    BY <1>1, <1>2, <2>1, ReportParts
<1>3. CASE l # e.lane
  <2>1. With(e)[l] = evidence[l]
    BY <1>1, <1>3 DEF With, TypeOK
  <2> QED
    BY <1>1, <2>1 DEF EvidenceInv
<1> QED
  BY <1>2, <1>3

(* What a report is denied for refutes the arbitration.                    *)
LEMMA DeniedForCause ==
  ASSUME TypeOK, EvidenceInv, NEW e \in Report, ApplyEvidence(e), ~Passes(e)
  PROVE  Refuted'
<1>1. /\ reported' = reported \cup {e} /\ lastReport' = clock
      /\ UNCHANGED <<policy, clock, receipted>>
  BY DEF ApplyEvidence
<1>2. CASE Refused(e, clock)
  <2>1. Refused(e, lastReport)'
    BY <1>1, <1>2 DEF Refused
  <2> QED
    BY <1>1, <2>1 DEF Refuted
<1>3. CASE evidence[e.lane] \notin {None, e.result}
  <2>1. [lane |-> e.lane, result |-> evidence[e.lane]] \in reported
    BY <1>3, ReportParts DEF EvidenceInv
  <2>2. \E d \in reported' : d.lane = e.lane /\ d.result # e.result
    BY <1>1, <1>3, <2>1
  <2> QED
    BY <1>1, <2>2 DEF Refuted
<1>4. CASE /\ evidence[e.lane] \in {None, e.result}
           /\ Contradictory(With(e), clock)
  <2> DEFINE Of(l) == [lane |-> l, result |-> With(e)[l]]
  <2>1. \A l \in Valid(With(e)) : l \in Lanes /\ Of(l) \in Proofs'
    BY <1>1, <1>4, WithIsReported DEF Valid, Proofs
  <2>2. CASE \E l \in Valid(With(e)) : With(e)[l].proof.expires <= clock
    <3>1. PICK l \in Valid(With(e)) : With(e)[l].proof.expires <= clock
      BY <2>2
    <3>2. PICK d \in reported' : d = Of(l)
      BY <2>1 DEF Proofs
    <3>3. d.result.kind = "valid" /\ d.result.proof.expires <= clock
      BY <3>1, <3>2 DEF Valid
    <3>4. Refused(d, lastReport)'
      BY <1>1, <3>3 DEF Refused
    <3> QED
      BY <3>4 DEF Refuted
  <2>3. CASE \E l, m \in Valid(With(e)) :
               With(e)[l].proof.user # With(e)[m].proof.user
    <3>1. PICK l, m \in Valid(With(e)) :
            With(e)[l].proof.user # With(e)[m].proof.user
      BY <2>3
    <3>2. Of(l) \in Proofs' /\ Of(m) \in Proofs'
      BY <2>1
    <3> QED
      BY <3>1, <3>2 DEF Refuted
  <2>4. CASE /\ policy.mode = "subsystem-grant"
             /\ \E l, m \in Valid(With(e)) :
                  l # m /\ With(e)[l].proof.ceremony = With(e)[m].proof.ceremony
    <3>1. PICK l, m \in Valid(With(e)) :
            l # m /\ With(e)[l].proof.ceremony = With(e)[m].proof.ceremony
      BY <2>4
    <3>2. Of(l) \in Proofs' /\ Of(m) \in Proofs' /\ policy'.mode = "subsystem-grant"
      BY <1>1, <2>1, <2>4
    <3> QED
      BY <3>1, <3>2 DEF Refuted
  <2> QED
    BY <1>4, <2>2, <2>3, <2>4 DEF Contradictory
<1> QED
  BY <1>2, <1>3, <1>4 DEF Passes

(* An accepted report leaves evidence, winner and status in order.         *)
LEMMA AcceptedStep ==
  ASSUME TypeOK, EvidenceInv, ReceiptInv, WinnerInv, NEW e \in Report,
         ApplyEvidence(e), Passes(e)
  PROVE  TypeOK' /\ EvidenceInv' /\ ReceiptInv' /\ WinnerInv' /\ StatusInv'
<1>1. /\ reported' = reported \cup {e} /\ lastReport' = clock
      /\ UNCHANGED <<policy, clock, receipted, reconciliationId>>
      /\ evidence' = With(e) /\ now' = clock
      /\ status' = StatusOf(With(e), reconciliationId)
      /\ winner' = IF winner = None /\ e.result.kind = "valid" THEN e.lane ELSE winner
      /\ sharedUserId' = IF winner' = None THEN None ELSE With(e)[winner'].proof.user
      /\ status # "denied" /\ clock >= now
  BY Outcomes DEF Accept
<1>2. /\ e.lane \in Lanes /\ e.result \in Result /\ e.result # None
      /\ e.lane \in policy.lanes /\ ~(clock >= Deadline)
  BY ReportParts, NotRefused DEF Passes
<1>3. /\ With(e) \in [Lanes -> Result \cup {None}]
      /\ With(e)[e.lane] = e.result
      /\ \A l \in Lanes : l # e.lane => With(e)[l] = evidence[l]
      /\ \A l \in Lanes : evidence[l] # None => With(e)[l] = evidence[l]
  BY <1>2 DEF With, TypeOK, Passes
<1>4. Valid(With(e)) = Valid(evidence) \cup (IF e.result.kind = "valid" THEN {e.lane} ELSE {})
  BY <1>2, <1>3 DEF Valid, Reported, Passes
<1>5. EvidenceInv'
  <2>1. ASSUME NEW d \in reported'
        PROVE  (evidence[d.lane] = d.result)' /\ Refused(d, now)' = FALSE
    <3>1. CASE d = e
      BY <1>1, <1>3, <3>1 DEF Passes, Refused
    <3>2. CASE d \in reported
      <4>1. /\ d \in Report /\ d.lane \in Lanes /\ d.result # None
            /\ evidence[d.lane] = d.result /\ ~Refused(d, now)
        BY <3>2, ReportParts DEF TypeOK, EvidenceInv
      <4>2. With(e)[d.lane] = d.result
        BY <1>3, <4>1
      <4>3. d.result.kind = "valid" => ~(d.result.proof.expires <= clock)
        BY <4>1, <4>2 DEF Passes, Contradictory, Valid, Reported
      <4> QED
        BY <1>1, <1>2, <4>1, <4>2, <4>3 DEF Refused
    <3> QED
      BY <1>1, <3>1, <3>2
  <2>2. ASSUME NEW l \in Lanes, With(e)[l] # None
        PROVE  [lane |-> l, result |-> With(e)[l]] \in reported'
    BY <1>1, <2>2, WithIsReported DEF Passes, Reported
  <2>3. Contradictory(evidence, now)' = FALSE
    BY <1>1 DEF Passes, Contradictory, Valid, Reported
  <2> QED
    BY <1>1, <2>1, <2>2, <2>3 DEF EvidenceInv
<1>6. ReceiptInv'
  BY <1>1 DEF ReceiptInv
<1>7. winner' \in Valid(With(e)) \cup {None} /\ (Valid(With(e)) = {} => winner' = None)
      /\ (Valid(With(e)) # {} => winner' \in Valid(With(e)))
  BY <1>1, <1>4 DEF WinnerInv
<1>8. WinnerInv'
  <2>1. Valid(evidence)' = Valid(With(e))
    BY <1>1 DEF Valid, Reported
  <2> QED
    BY <1>1, <1>7, <2>1 DEF WinnerInv
<1>9. StatusInv'
  <2>1. StatusOf(evidence, reconciliationId)' = StatusOf(With(e), reconciliationId)
    BY <1>1 DEF StatusOf, Valid, Reported
  <2> QED
    BY <1>1, <2>1 DEF StatusInv
<1>10. TypeOK'
  <2>1. sharedUserId' \in Users \cup {None}
    <3>1. CASE winner' = None
      BY <1>1, <3>1
    <3>2. CASE winner' # None
      <4>1. winner' \in Lanes /\ With(e)[winner'] # None
            /\ With(e)[winner'].kind = "valid"
        BY <1>7, <3>2 DEF Valid, Reported
      <4>2. With(e)[winner'].proof.user \in Users
        BY <1>3, <4>1, ValidHasProof
      <4> QED
        BY <1>1, <3>2, <4>2
    <3> QED
      BY <3>1, <3>2
  <2>2. winner' \in Lanes \cup {None}
    BY <1>7 DEF Valid, Reported
  <2>3. status' \in {"pending", "awaiting_durable_reconciliation", "optimistic",
                     "reconciled", "degraded", "denied"}
    BY <1>1, StatusNotDenied
  <2> QED
    BY <1>1, <1>3, <2>1, <2>2, <2>3 DEF TypeOK
<1> QED
  BY <1>5, <1>6, <1>8, <1>9, <1>10

(* A report.                                                               *)
LEMMA ReportStep ==
  ASSUME IInv, NEW e \in Report, ApplyEvidence(e)
  PROVE  IInv'
<1>1. TypeOK /\ EvidenceInv /\ ReceiptInv /\ WinnerInv
  BY DEF IInv, ApplyEvidence
<1>2. CASE Passes(e)
  <2>1. status' # "denied"
    BY <1>2, Outcomes, StatusNotDenied DEF Accept
  <2> QED
    BY <1>1, <1>2, <2>1, AcceptedStep DEF IInv
<1>3. CASE ~Passes(e)
  <2>1. status' = "denied" /\ Refuted'
    BY <1>1, <1>3, Outcomes, DeniedForCause DEF Deny
  <2>2. TypeOK'
    BY <1>1, <1>3, Outcomes DEF Deny, TypeOK
  <2> QED
    BY <2>1, <2>2 DEF IInv
<1> QED
  BY <1>2, <1>3

(* A receipt: it denies if it contradicts, and makes an awaiting           *)
(* arbitration optimistic.                                                 *)
LEMMA ReceiptStep ==
  ASSUME IInv, NEW r \in Receipt, RecordReconciliation(r)
  PROVE  IInv'
<1>1. /\ TypeOK /\ EvidenceInv /\ ReceiptInv /\ WinnerInv /\ StatusInv
      /\ status # "denied"
  BY DEF IInv, RecordReconciliation
<1>2. /\ UNCHANGED <<policy, clock, reported, lastReport, evidence, winner,
                     sharedUserId, now>>
      /\ receipted' = receipted \cup {r} /\ r.id \in Receipts /\ r.id # None
  BY PolicyAssumption DEF RecordReconciliation, Deny, Receipt
<1>3. CASE ~r.sound \/ reconciliationId \notin {None, r.id}
  <2>1. status' = "denied" /\ UNCHANGED reconciliationId
    BY <1>3 DEF RecordReconciliation, Deny
  <2>2. TypeOK'
    BY <1>1, <1>2, <2>1 DEF TypeOK
  <2>3. CASE ~r.sound
    BY <1>2, <2>1, <2>2, <2>3 DEF IInv, Refuted
  <2>4. CASE reconciliationId \notin {None, r.id}
    <3>1. PICK s \in receipted : s.id = reconciliationId
      BY <1>1, <2>4 DEF ReceiptInv
    <3>2. \E p, q \in receipted' : p.id # q.id
      BY <1>2, <2>4, <3>1
    <3> QED
      BY <2>1, <2>2, <3>2 DEF IInv, Refuted
  <2> QED
    BY <1>3, <2>3, <2>4
<1>4. CASE r.sound /\ reconciliationId \in {None, r.id}
  <2>1. /\ reconciliationId' = r.id
        /\ status' = IF status = "awaiting_durable_reconciliation"
                       THEN "optimistic" ELSE status
    BY <1>4 DEF RecordReconciliation
  <2>2. TypeOK'
    BY <1>1, <1>2, <2>1 DEF TypeOK
  <2>3. EvidenceInv'
    BY <1>1, <1>2 DEF EvidenceInv, Refused, Contradictory, Valid, Reported
  <2>4. ReceiptInv'
    <3>1. \A s \in receipted : s.sound
      BY <1>1 DEF ReceiptInv
    <3>2. \A s \in receipted : s.id \in Receipts /\ s.id = reconciliationId
      BY <1>1 DEF ReceiptInv, TypeOK, Receipt
    <3>3. \A s \in receipted : s.id = r.id
      BY <1>4, <3>2, PolicyAssumption
    <3> QED
      BY <1>2, <1>4, <2>1, <3>1, <3>3 DEF ReceiptInv
  <2>5. WinnerInv'
    <3>1. WinnerInv /\ UNCHANGED <<evidence, winner, sharedUserId>>
      BY <1>1, <1>2
    <3> QED
      BY <3>1 DEF WinnerInv, Valid, Reported
  <2>6. StatusInv'
    <3>1. StatusOf(evidence, reconciliationId)' = StatusOf(evidence, r.id)
      BY <1>2, <2>1 DEF StatusOf, Valid, Reported
    <3>2. status' = StatusOf(evidence, r.id)
      BY <1>1, <1>2, <1>4, <2>1 DEF StatusInv, StatusOf
    <3> QED
      BY <3>1, <3>2 DEF StatusInv
  <2>7. status' # "denied"
    BY <1>1, <2>1
  <2> QED
    BY <2>2, <2>3, <2>4, <2>5, <2>6, <2>7 DEF IInv
<1> QED
  BY <1>3, <1>4

(* The clock, and stuttering.                                              *)
LEMMA ClockStep ==
  ASSUME IInv, UNCHANGED <<policy, state, history>>, clock' \in Time
  PROVE  IInv'
<1>1. UNCHANGED <<policy, status, evidence, winner, sharedUserId,
                 reconciliationId, now, reported, receipted, lastReport>>
  BY DEF state, history
<1>2. TypeOK'
  BY <1>1 DEF IInv, TypeOK
<1>3. status # "denied" => EvidenceInv' /\ ReceiptInv' /\ WinnerInv' /\ StatusInv'
  BY <1>1 DEF IInv, EvidenceInv, ReceiptInv, WinnerInv, StatusInv, StatusOf,
              Refused, Contradictory, Valid, Reported
<1>4. status = "denied" => Refuted'
  BY <1>1 DEF IInv, Refuted, Refused, Proofs
<1> QED
  BY <1>1, <1>2, <1>3, <1>4 DEF IInv

LEMMA NextIInv == IInv /\ [Next]_vars => IInv'
<1> SUFFICES ASSUME IInv, [Next]_vars PROVE IInv'
  OBVIOUS
<1>1. ASSUME NEW e \in Report, ApplyEvidence(e)
      PROVE  IInv'
  BY <1>1, ReportStep
<1>2. ASSUME NEW r \in Receipt, RecordReconciliation(r)
      PROVE  IInv'
  BY <1>2, ReceiptStep
<1>3. ASSUME NEW t \in Time, SetClock(t)
      PROVE  IInv'
  BY <1>3, ClockStep DEF SetClock
<1>4. CASE UNCHANGED vars
  BY <1>4, ClockStep DEF vars, IInv, TypeOK
<1> QED
  BY <1>1, <1>2, <1>3, <1>4 DEF Next

LEMMA InductiveInvariant == Spec => []IInv
BY InitIInv, NextIInv, PTL DEF Spec

-----------------------------------------------------------------------------
(* The arbitration keeps its types: index.mjs 52-183.                      *)
THEOREM TypeCorrect == Spec => []TypeOK
<1>1. IInv => TypeOK
  BY DEF IInv
<1> QED
  BY <1>1, InductiveInvariant, PTL

(* Whatever the order of reports and receipts, the status is the verdict   *)
(* on the set of them: index.mjs 112-113.                                  *)
THEOREM OrderCorrect == Spec => []OrderIndependent
<1>1. IInv => OrderIndependent
  <2> SUFFICES ASSUME IInv PROVE status = Verdict
    BY DEF OrderIndependent
  <2>1. CASE status = "denied"
    BY <2>1 DEF IInv, Verdict
  <2>2. CASE status # "denied"
    BY <2>2, StatusIsVerdict DEF IInv
  <2> QED
    BY <2>1, <2>2
<1> QED
  BY <1>1, InductiveInvariant, PTL

(* The proof requirement is met only on unexpired, independent proofs of   *)
(* one user: index.mjs 189-198.                                            *)
THEOREM AdmissionCorrect == Spec => []AdmissionEarned
<1>1. IInv => AdmissionEarned
  <2> SUFFICES ASSUME IInv, Satisfied PROVE
        /\ clock < Deadline
        /\ Proofs # {}
        /\ \A e \in Proofs : /\ e.result.proof.expires > clock
                             /\ e.result.proof.user = sharedUserId
        /\ ~ \E e \in reported : e.result.kind \in {"invalid", "hard_deny"}
        /\ \/ \A l \in policy.lanes : ProofOf(l)
           \/ policy.mode = "customer-optimistic" /\ receipted # {}
        /\ policy.mode = "subsystem-grant" =>
             \A d, e \in Proofs :
               d.result.proof.ceremony = e.result.proof.ceremony => d.lane = e.lane
    BY DEF AdmissionEarned
  <2>1. status \in {"reconciled", "optimistic"}
    BY DEF Satisfied
  <2>2. TypeOK /\ EvidenceInv /\ ReceiptInv /\ WinnerInv /\ StatusInv
    BY <2>1 DEF IInv
  <2>3. ~Refuted /\ status = Verdict
    BY <2>2, StatusIsVerdict
  <2>4. Valid(evidence) # {}
    <3>1. CASE status = "reconciled"
      <4>1. policy.lanes \subseteq Valid(evidence)
        BY <2>2, <3>1 DEF StatusInv, StatusOf
      <4> QED
        BY <2>2, <4>1, PolicyLanes DEF TypeOK
    <3>2. CASE status = "optimistic"
      BY <2>2, <3>2 DEF StatusInv, StatusOf
    <3> QED
      BY <2>1, <3>1, <3>2
  <2>5. Proofs # {}
    <3>1. PICK l \in Lanes : l \in Valid(evidence)
      BY <2>4 DEF Valid, Reported
    <3> QED
      BY <2>2, <3>1, EvidenceIsReported DEF ProofOf
  <2>6. ASSUME NEW e \in Proofs
        PROVE  e.result.proof.expires > clock /\ e.result.proof.user = sharedUserId
    <3>1. /\ e.lane \in Valid(evidence) /\ evidence[e.lane] = e.result
          /\ e \in Report /\ e.result.kind = "valid"
      BY <2>2, EvidenceIsReported DEF Proofs, TypeOK
    <3>2. e.result \in Result
      BY <2>2, <3>1, NotRefused DEF EvidenceInv, Proofs
    <3>3. e.result.proof.expires \in Nat /\ clock \in Nat
      BY <2>2, <3>1, <3>2, ValidHasProof DEF TypeOK, Time
    <3>4. e.result.proof.expires > clock
      BY <3>1, <3>3 DEF Satisfied
    <3>5. winner \in Valid(evidence) /\ winner \in Lanes /\ winner # None
      BY <2>2, <2>4, PolicyAssumption DEF WinnerInv, Valid, Reported, Lanes
    <3>6. sharedUserId = evidence[winner].proof.user
      BY <2>2, <3>5 DEF WinnerInv
    <3>7. evidence[e.lane].proof.user = evidence[winner].proof.user
      BY <2>2, <3>1, <3>5 DEF EvidenceInv, Contradictory
    <3> QED
      BY <3>1, <3>4, <3>6, <3>7
  <2>7. ~ \E e \in reported : e.result.kind \in {"invalid", "hard_deny"}
    BY <2>2 DEF EvidenceInv, Refused
  <2>8. \/ \A l \in policy.lanes : ProofOf(l)
        \/ policy.mode = "customer-optimistic" /\ receipted # {}
    BY <2>1, <2>3 DEF Verdict
  <2>9. policy.mode = "subsystem-grant" =>
          \A d, e \in Proofs :
            d.result.proof.ceremony = e.result.proof.ceremony => d.lane = e.lane
    BY <2>3 DEF Refuted
  <2> QED
    BY <2>5, <2>6, <2>7, <2>8, <2>9 DEF Satisfied
<1> QED
  BY <1>1, InductiveInvariant, PTL

(* Only a denial or the clock takes an admission back: index.mjs 158-166,  *)
(* 171-183.                                                                *)
THEOREM AdmissionStays == Spec => AdmissionKept
<1>1. ASSUME IInv, [Next]_vars, Satisfied, status' # "denied", clock' = clock
      PROVE  Satisfied'
  <2>1. /\ status \in {"reconciled", "optimistic"}
        /\ clock >= now /\ clock < Deadline
    BY <1>1 DEF Satisfied
  <2>2. TypeOK /\ StatusInv
    BY <1>1, <2>1 DEF IInv
  <2>3. ASSUME NEW e \in Report, ApplyEvidence(e)
        PROVE  Satisfied'
    <3>1. /\ Passes(e) /\ UNCHANGED <<policy, clock, reconciliationId>>
          /\ evidence' = With(e) /\ now' = clock
          /\ status' = StatusOf(With(e), reconciliationId)
      BY <1>1, <2>3, Outcomes DEF Accept, Deny
    <3>2. e.result # None /\ e.lane \in Lanes
      BY ReportParts
    <3>3. \A l \in Valid(evidence) : l \in Valid(With(e))
      BY <2>2, <3>1, <3>2 DEF Valid, Reported, With, Passes, TypeOK
    <3>4. /\ Valid(evidence)' = Valid(With(e))
          /\ ~ \E l \in Valid(With(e)) : With(e)[l].proof.expires <= clock
      BY <3>1 DEF Passes, Contradictory, Valid, Reported
    <3>5. clock >= clock
      BY <2>2, PolicyAssumption DEF TypeOK, Time
    <3>6. CASE status = "reconciled"
      <4>1. policy.lanes \subseteq Valid(With(e))
        BY <2>2, <3>3, <3>6 DEF StatusInv, StatusOf
      <4>2. status' = "reconciled"
        BY <3>1, <4>1 DEF StatusOf
      <4> QED
        BY <2>1, <3>1, <3>4, <3>5, <4>2 DEF Satisfied
    <3>7. CASE status = "optimistic"
      <4>1. /\ policy.mode = "customer-optimistic" /\ reconciliationId # None
            /\ Valid(evidence) # {}
        BY <1>1, <2>2, <3>7 DEF Satisfied, StatusInv, StatusOf
      <4>2. status' \in {"reconciled", "optimistic"}
        BY <3>1, <3>3, <4>1 DEF StatusOf
      <4> QED
        BY <2>1, <3>1, <3>4, <3>5, <4>1, <4>2 DEF Satisfied
    <3> QED
      BY <2>1, <3>6, <3>7
  <2>4. ASSUME NEW r \in Receipt, RecordReconciliation(r)
        PROVE  Satisfied'
    <3>1. /\ UNCHANGED <<policy, clock, evidence, now, status>>
          /\ reconciliationId' # None
      BY <1>1, <2>1, <2>4, PolicyAssumption DEF RecordReconciliation, Deny, Receipt
    <3> QED
      BY <1>1, <3>1 DEF Satisfied, Valid, Reported
  <2>5. CASE \E t \in Time : SetClock(t)
    BY <1>1, <2>5 DEF SetClock, state, Satisfied, Valid, Reported
  <2>6. CASE UNCHANGED vars
    BY <1>1, <2>6 DEF vars, state, Satisfied, Valid, Reported
  <2> QED
    BY <1>1, <2>3, <2>4, <2>5, <2>6 DEF Next
<1>2. IInv /\ [Next]_vars
        => [Satisfied /\ ~Satisfied' => status' = "denied" \/ clock' # clock]_vars
  BY <1>1
<1> QED
  BY <1>2, InductiveInvariant, PTL DEF Spec, AdmissionKept
=============================================================================
