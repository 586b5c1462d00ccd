------------------------- MODULE SessionGuardProofs --------------------------
(***************************************************************************)
(* Proofs about SessionGuard, for any tokens and any deadline.             *)
(*                                                                         *)
(* The argument: an arm that has said Ok has seen what the decision needs  *)
(* (ArmInv), what changes later has overtaken it, and the race hands out   *)
(* what the arm it takes has seen.  A definite no of the shared arm is     *)
(* never given to whom the policy admits (NoInv).                          *)
(***************************************************************************)
EXTENDS SessionGuard, TLAPS

(* What an arm's Ok stands for, until the request is answered.             *)
ArmInv ==
  /\ answer["shared"] = "Ok" =>
       /\ exchanged /\ OurProject(token) /\ token.grant # "none"
       /\ (live /\ ~changed) \/ overtaken
  /\ answer["direct"] = "Ok" => OurProject(token)
  /\ phase = "new" => \A a \in Arms : answer[a] # "Ok"

(* The shared arm gives a definite no only to whom the policy does not     *)
(* admit, and a request that is signed out has had one.                    *)
NoInv ==
  /\ answer["shared"] = "Invalid" => ~Admitted
  /\ phase = "new" => answer["shared"] # "Invalid"
  /\ AdmittedNotSignedOut

(* A request that waits carries a token.                                   *)
WaitInv == phase \in {"inner", "race"} => token \in Tokens

DecisionInv == UpgradeAccounted /\ ProjectPinned

IInv == TypeOK /\ ArmInv /\ WaitInv /\ DecisionInv /\ NoInv

USE TokenAssumption, SessionAssumption

LEMMA InitIInv == Init => IInv
<1> SUFFICES ASSUME Init PROVE IInv
  OBVIOUS
<1>0. Pending \in Decision /\ 0 \in 0 .. Deadline
  BY DEF Pending, WithoutUpgrade, Decision
<1>1. TypeOK
  BY <1>0 DEF Init, TypeOK, Replied
<1>2. ArmInv /\ WaitInv
  BY DEF Init, ArmInv, WaitInv, Arms
<1>3. DecisionInv
  BY DEF Init, DecisionInv, UpgradeAccounted, ProjectPinned, Pending,
         WithoutUpgrade
<1>4. NoInv
  BY DEF Init, NoInv, AdmittedNotSignedOut, Arms
<1> QED
  BY <1>1, <1>2, <1>3, <1>4 DEF IInv

-----------------------------------------------------------------------------
LEMMA WithoutUpgradeType ==
  ASSUME NEW kind \in {"Anonymous", "Unauthenticated", "Degraded"}
  PROVE  /\ WithoutUpgrade(kind) \in Decision
         /\ WithoutUpgrade(kind) # Pending
         /\ WithoutUpgrade(kind).kind = kind
         /\ WithoutUpgrade(kind).authority = NoAuthority
         /\ WithoutUpgrade(kind).upgrade = FALSE
BY DEF WithoutUpgrade, Decision, Pending

LEMMA AuthenticatedByType ==
  ASSUME NEW a \in {"SharedAuth", "Supabase"}, NEW upgrade \in BOOLEAN
  PROVE  /\ AuthenticatedBy(a, upgrade) \in Decision
         /\ AuthenticatedBy(a, upgrade) # Pending
         /\ AuthenticatedBy(a, upgrade).kind = "Authenticated"
         /\ AuthenticatedBy(a, upgrade).authority = a
         /\ AuthenticatedBy(a, upgrade).upgrade = upgrade
BY DEF AuthenticatedBy, WithoutUpgrade, Decision, Pending

(* A reply that admits nobody disturbs no invariant.                       *)
LEMMA RefusalStep ==
  ASSUME IInv, NEW p \in Replied,
         NEW kind \in {"Anonymous", "Unauthenticated", "Degraded"},
         phase' = p, decision' = WithoutUpgrade(kind),
         failed' \in SUBSET Arms,
         UNCHANGED <<token, live, armVars, elapsed>>,
         p = "raced" /\ kind = "Unauthenticated" => ~Admitted
  PROVE  IInv'
<1> USE DEF IInv, armVars, Replied
<1>1. /\ decision' \in Decision /\ decision' # Pending
      /\ decision'.kind = kind /\ decision'.upgrade = FALSE
      /\ decision'.authority # "SharedAuth"
  BY WithoutUpgradeType
<1>2. TypeOK'
  BY <1>1 DEF TypeOK, Pending, WithoutUpgrade
<1>3. ArmInv' /\ WaitInv'
  BY DEF ArmInv, WaitInv, OurProject
<1>4. DecisionInv'
  BY <1>1 DEF DecisionInv, UpgradeAccounted, ProjectPinned
<1>5. NoInv'
  BY <1>1 DEF NoInv, AdmittedNotSignedOut, Admitted, OurProject
<1> QED
  BY <1>2, <1>3, <1>4, <1>5

(* A step that replies nothing and changes only what the arms know.        *)
LEMMA ArmStep ==
  ASSUME IInv, phase = "race",
         UNCHANGED <<phase, token, live, changed, overtaken, failed, elapsed,
                     decision>>,
         exchanged' \in BOOLEAN,
         answer' \in [Arms -> {"Running", "Ok", "Invalid", "Unavailable"}],
         exchanged => exchanged',
         ArmInv',
         answer'["shared"] = "Invalid" /\ answer["shared"] # "Invalid" => ~Admitted
  PROVE  IInv'
<1> USE DEF IInv
<1>1. TypeOK'
  BY DEF TypeOK, Pending, WithoutUpgrade
<1>2. WaitInv' /\ DecisionInv'
  BY DEF WaitInv, DecisionInv, UpgradeAccounted, ProjectPinned, OurProject
<1>3. NoInv'
  BY DEF NoInv, AdmittedNotSignedOut, Admitted, OurProject
<1> QED
  BY <1>1, <1>2, <1>3

-----------------------------------------------------------------------------
LEMMA ReceiveStep ==
  ASSUME IInv, NEW r \in Request, Receive(r)
  PROVE  IInv'
<1>1. CASE /\ token' = Speaks(r) /\ Speaks(r) \in Tokens
           /\ phase' \in {"inner", "race"} /\ UNCHANGED decision
  <2>1. phase = "new" /\ UNCHANGED <<live, armVars, failed, elapsed>>
    BY DEF Receive
  <2>2. decision = Pending
    BY <2>1 DEF IInv, TypeOK, Replied
  <2>3. TypeOK'
    BY <1>1, <2>1, <2>2 DEF IInv, TypeOK, armVars, Replied, Pending, WithoutUpgrade
  <2>4. ArmInv' /\ WaitInv'
    BY <1>1, <2>1 DEF IInv, ArmInv, WaitInv, Arms, armVars
  <2>5. DecisionInv'
    BY <1>1, <2>1, <2>2
       DEF DecisionInv, UpgradeAccounted, ProjectPinned, Pending, WithoutUpgrade
  <2>6. NoInv'
    BY <1>1, <2>1 DEF IInv, NoInv, AdmittedNotSignedOut, armVars
  <2> QED
    BY <2>3, <2>4, <2>5, <2>6 DEF IInv
<1>2. ASSUME NEW kind \in {"Anonymous", "Unauthenticated"},
             Answers(WithoutUpgrade(kind)), UNCHANGED token
      PROVE  IInv'
  <2>1. failed' \in SUBSET Arms /\ UNCHANGED <<live, armVars, elapsed>>
    BY DEF Receive, IInv, TypeOK
  <2> QED
    BY <1>2, <2>1, RefusalStep DEF Answers, Replied
<1> QED
  BY <1>1, <1>2 DEF Receive

LEMMA InnerRepliesStep ==
  ASSUME IInv, InnerReplies
  PROVE  IInv'
<1>1. /\ phase = "inner" /\ failed' \in SUBSET Arms
      /\ UNCHANGED <<token, live, armVars, failed, elapsed>>
  BY DEF InnerReplies, IInv, TypeOK
<1>2. ASSUME NEW kind \in {"Unauthenticated", "Degraded"},
             Answers(WithoutUpgrade(kind))
      PROVE  IInv'
  BY <1>1, <1>2, RefusalStep DEF Answers, Replied
<1>3. ASSUME NEW a \in {"SharedAuth", "Supabase"}, OurProject(token),
             Answers(AuthenticatedBy(a, FALSE))
      PROVE  IInv'
  <2>1. /\ decision' \in Decision /\ decision' # Pending
        /\ decision'.upgrade = FALSE
        /\ phase' = "answered"
    BY <1>3, AuthenticatedByType DEF Answers
  <2>2. TypeOK'
    BY <1>1, <2>1 DEF IInv, TypeOK, armVars, Replied, Pending, WithoutUpgrade
  <2>3. ArmInv' /\ WaitInv'
    BY <1>1, <2>1 DEF IInv, ArmInv, WaitInv, OurProject, armVars
  <2>4. DecisionInv'
    BY <1>1, <1>3, <2>1 DEF DecisionInv, UpgradeAccounted, ProjectPinned, OurProject
  <2>5. NoInv'
    BY <1>1, <2>1
       DEF IInv, NoInv, AdmittedNotSignedOut, Admitted, OurProject, armVars
  <2> QED
    BY <2>2, <2>3, <2>4, <2>5 DEF IInv
<1>4. ASSUME NEW a \in InnerWinners(token),
             Answers(Restricted(token, AuthenticatedBy(a, FALSE)))
      PROVE  IInv'
  <2>1. a \in {"SharedAuth", "Supabase"}
    BY <1>4 DEF InnerWinners
  <2>2. CASE OurProject(token)
    BY <1>3, <1>4, <2>1, <2>2 DEF Restricted
  <2>3. CASE ~OurProject(token)
    BY <1>2, <1>4, <2>1, <2>3, AuthenticatedByType DEF Restricted
  <2> QED
    BY <2>2, <2>3
<1> QED
  BY <1>2, <1>4 DEF InnerReplies

-----------------------------------------------------------------------------
(* The arms' steps.                                                        *)
LEMMA ExchangeStep ==
  ASSUME IInv, ExchangeMints \/ ExchangeFails
  PROVE  IInv'
<1>1. phase = "race"
  BY DEF ExchangeMints, ExchangeFails, Running
<1>2. /\ UNCHANGED <<phase, token, live, failed, elapsed, decision, changed,
                     overtaken>>
      /\ exchanged' \in BOOLEAN
      /\ exchanged => exchanged'
  BY DEF ExchangeMints, ExchangeFails, Resolve, IInv, TypeOK
<1>3. \/ answer' = answer
      \/ answer' = [answer EXCEPT !["shared"] = "Invalid"]
      \/ answer' = [answer EXCEPT !["shared"] = "Unavailable"]
  BY DEF ExchangeMints, ExchangeFails, Resolve
<1>4. answer' \in [Arms -> {"Running", "Ok", "Invalid", "Unavailable"}]
  BY <1>3 DEF IInv, TypeOK
<1>5. ArmInv'
  BY <1>1, <1>2, <1>3 DEF IInv, TypeOK, ArmInv, OurProject, Arms
<1>6. answer'["shared"] = "Invalid" /\ answer["shared"] # "Invalid" => ~Admitted
  BY DEF ExchangeMints, ExchangeFails, Resolve, Good, Admitted, IInv, TypeOK, Arms
<1> QED
  BY <1>1, <1>2, <1>4, <1>5, <1>6, ArmStep DEF IInv, TypeOK

LEMMA IntrospectStep ==
  ASSUME IInv, IntrospectReply
  PROVE  IInv'
<1>1. phase = "race" /\ exchanged
  BY DEF IntrospectReply, Running
<1>2. UNCHANGED <<phase, token, live, failed, elapsed, decision, changed,
                  overtaken, exchanged>>
  BY DEF IntrospectReply, Resolve, IInv, TypeOK
<1>3. \/ /\ live /\ ~changed
         /\ answer' = [answer EXCEPT !["shared"] =
                         Enforced(token, token.grant # "none")]
      \/ answer' = [answer EXCEPT !["shared"] = "Invalid"]
      \/ answer' = [answer EXCEPT !["shared"] = "Unavailable"]
  BY DEF IntrospectReply, Resolve
<1>4. answer' \in [Arms -> {"Running", "Ok", "Invalid", "Unavailable"}]
  BY <1>3 DEF IInv, TypeOK, Enforced
<1>5. ArmInv'
  BY <1>1, <1>2, <1>3 DEF IInv, TypeOK, ArmInv, OurProject, Arms, Enforced
<1>6. answer'["shared"] = "Invalid" /\ answer["shared"] # "Invalid" => ~Admitted
  BY DEF IntrospectReply, Resolve, Enforced, OurProject, Admitted, IInv, TypeOK,
         Arms
<1> QED
  BY <1>1, <1>2, <1>4, <1>5, <1>6, ArmStep DEF IInv, TypeOK

LEMMA DirectStep ==
  ASSUME IInv, DirectReply
  PROVE  IInv'
<1>1. phase = "race"
  BY DEF DirectReply, Running
<1>2. UNCHANGED <<phase, token, live, failed, elapsed, decision, changed,
                  overtaken, exchanged>>
  BY DEF DirectReply, Resolve
<1>3. \/ answer' = [answer EXCEPT !["direct"] =
                      Enforced(token, token.grant = "email")]
      \/ answer' = [answer EXCEPT !["direct"] = "Invalid"]
      \/ answer' = [answer EXCEPT !["direct"] = "Unavailable"]
  BY DEF DirectReply, Resolve
<1>4. answer' \in [Arms -> {"Running", "Ok", "Invalid", "Unavailable"}]
  BY <1>3 DEF IInv, TypeOK, Enforced
<1>5. ArmInv'
  BY <1>1, <1>2, <1>3 DEF IInv, TypeOK, ArmInv, OurProject, Arms, Enforced
<1>6. answer'["shared"] = answer["shared"]
  BY <1>3 DEF IInv, TypeOK, Arms
<1> QED
  BY <1>1, <1>2, <1>4, <1>5, <1>6, ArmStep DEF IInv, TypeOK

-----------------------------------------------------------------------------
(* The race's steps.                                                       *)
LEMMA TakeSuccessStep ==
  ASSUME IInv, NEW a \in Arms, TakeSuccess(a)
  PROVE  IInv'
<1>1. /\ phase = "race" /\ phase' = "raced" /\ answer[a] = "Ok"
      /\ decision' = AuthenticatedBy(AuthorityOf[a], a = "shared")
      /\ UNCHANGED <<token, live, armVars, failed, elapsed>>
  BY DEF TakeSuccess, Ready, Decides
<1>2. AuthorityOf[a] \in {"SharedAuth", "Supabase"}
      /\ (AuthorityOf[a] = "SharedAuth" <=> a = "shared")
  BY DEF AuthorityOf, Arms
<1>3. /\ decision' \in Decision /\ decision' # Pending
      /\ decision'.authority = AuthorityOf[a]
      /\ decision'.kind = "Authenticated"
      /\ decision'.upgrade <=> a = "shared"
  BY <1>1, <1>2, AuthenticatedByType
<1>4. TypeOK'
  BY <1>1, <1>3 DEF IInv, TypeOK, armVars, Replied, Pending, WithoutUpgrade
<1>5. ArmInv' /\ WaitInv'
  BY <1>1 DEF IInv, ArmInv, WaitInv, OurProject, armVars
<1>6. DecisionInv'
  BY <1>1, <1>2, <1>3
     DEF IInv, ArmInv, DecisionInv, UpgradeAccounted, ProjectPinned, OurProject,
         armVars, Arms
<1>7. NoInv'
  BY <1>1, <1>3
     DEF IInv, NoInv, AdmittedNotSignedOut, Admitted, OurProject, armVars
<1> QED
  BY <1>4, <1>5, <1>6, <1>7 DEF IInv

LEMMA TakeFailureStep ==
  ASSUME IInv, NEW a \in Arms, TakeFailure(a)
  PROVE  IInv'
<1>1. /\ failed' \in SUBSET Arms
      /\ UNCHANGED <<token, live, armVars, elapsed>>
  BY DEF TakeFailure, IInv, TypeOK
<1>2. CASE UNCHANGED <<phase, decision>>
  <2>1. TypeOK'
    BY <1>1, <1>2 DEF IInv, TypeOK, armVars, Pending, WithoutUpgrade
  <2>2. ArmInv' /\ WaitInv' /\ DecisionInv'
    BY <1>1, <1>2
       DEF IInv, ArmInv, WaitInv, DecisionInv, UpgradeAccounted, ProjectPinned,
           OurProject, armVars
  <2>3. NoInv'
    BY <1>1, <1>2
       DEF IInv, NoInv, AdmittedNotSignedOut, Admitted, OurProject, armVars
  <2> QED
    BY <2>1, <2>2, <2>3 DEF IInv
<1>3. ASSUME NEW kind \in {"Unauthenticated", "Degraded"},
             Decides(WithoutUpgrade(kind)),
             kind = "Unauthenticated" => answer["shared"] = "Invalid"
      PROVE  IInv'
  <2>1. kind = "Unauthenticated" => ~Admitted
    BY <1>3 DEF IInv, NoInv
  <2> QED
    BY <1>1, <1>3, <2>1, RefusalStep DEF Decides, Replied
<1> QED
  BY <1>2, <1>3 DEF TakeFailure, Arms

LEMMA DeadlineStep ==
  ASSUME IInv, DeadlineExceeded
  PROVE  IInv'
<1>1. /\ failed' \in SUBSET Arms
      /\ UNCHANGED <<token, live, armVars, elapsed>>
      /\ phase' = "raced" /\ decision' = WithoutUpgrade("Degraded")
  BY DEF DeadlineExceeded, Decides, IInv, TypeOK
<1> QED
  BY <1>1, RefusalStep DEF Replied

(* Time and the authorities' state.                                        *)
LEMMA WorldStep ==
  ASSUME IInv, Tick \/ Revoke \/ RolesChange
  PROVE  IInv'
<1>1. UNCHANGED <<phase, token, exchanged, answer, failed, decision>>
  BY DEF Tick, Revoke, RolesChange, armVars
<1>2. /\ live' \in BOOLEAN /\ changed' \in BOOLEAN /\ overtaken' \in BOOLEAN
      /\ elapsed' \in 0 .. Deadline
  <2>1. CASE Tick
    BY <2>1 DEF Tick, armVars, IInv, TypeOK
  <2>2. CASE Revoke \/ RolesChange
    BY <2>2 DEF Revoke, RolesChange, Overtakes, armVars, IInv, TypeOK
  <2> QED
    BY <2>1, <2>2
(* What changes after the Ok of the shared arm overtakes it.               *)
<1>3. /\ overtaken => overtaken'
      /\ live' => live
      /\ changed => changed'
      /\ answer["shared"] = "Ok" /\ ~overtaken' => UNCHANGED <<live, changed>>
  BY DEF Tick, Revoke, RolesChange, Overtakes, armVars, IInv, TypeOK
<1>4. TypeOK'
  BY <1>1, <1>2 DEF IInv, TypeOK, Pending, WithoutUpgrade
<1>5. ArmInv' /\ WaitInv'
  BY <1>1, <1>3 DEF IInv, ArmInv, WaitInv, OurProject
<1>6. DecisionInv'
  <2>1. ~decision.upgrade
    <3>1. decision = Pending
      BY DEF Tick, Revoke, RolesChange, IInv, TypeOK, Replied
    <3> QED
      BY <3>1 DEF Pending, WithoutUpgrade
  <2> QED
    BY <1>1, <2>1 DEF IInv, DecisionInv, UpgradeAccounted, ProjectPinned,
                      OurProject
<1>7. NoInv'
  BY <1>1, <1>3 DEF IInv, NoInv, AdmittedNotSignedOut, Admitted, OurProject
<1> QED
  BY <1>4, <1>5, <1>6, <1>7 DEF IInv

LEMMA IInvStep == IInv /\ [Next]_vars => IInv'
<1> SUFFICES ASSUME IInv, [Next]_vars PROVE IInv'
  OBVIOUS
<1>1. CASE UNCHANGED vars
  BY <1>1 DEF vars, IInv, TypeOK, ArmInv, WaitInv, DecisionInv,
              UpgradeAccounted, ProjectPinned, OurProject, Pending,
              WithoutUpgrade, NoInv, AdmittedNotSignedOut, Admitted
<1>2. CASE Next
  BY <1>1, <1>2, ReceiveStep, InnerRepliesStep, ExchangeStep, IntrospectStep,
     DirectStep, TakeSuccessStep, TakeFailureStep, DeadlineStep, WorldStep
     DEF Next, Poll, Done
<1> QED
  BY <1>1, <1>2

LEMMA IInvHolds == Spec => []IInv
BY InitIInv, IInvStep, PTL DEF Spec

-----------------------------------------------------------------------------
(* Every reachable state is well typed.                                    *)
THEOREM TypeCorrect == Spec => []TypeOK
BY IInvHolds, PTL DEF IInv

(* Whatever order replies, revocations and the deadline come in, a minted  *)
(* session is handed out exactly when the shared arm wins the race.        *)
THEOREM UpgradeCorrect == Spec => []UpgradeAccounted
BY IInvHolds, PTL DEF IInv, DecisionInv

(* Nobody of another project is ever authenticated, on any path.           *)
THEOREM ProjectCorrect == Spec => []ProjectPinned
BY IInvHolds, PTL DEF IInv, DecisionInv

(* Nobody whom the policy admits is signed out by the race, whichever      *)
(* authority refuses, fails or is late.                                    *)
THEOREM SignedOutCorrect == Spec => []AdmittedNotSignedOut
BY IInvHolds, PTL DEF IInv, NoInv

-----------------------------------------------------------------------------
(* The race, seen as AuthRace sees it.                                     *)
LEMMA OutcomeInRace ==
  ASSUME phase = "race" PROVE RaceOutcome = Race!Pending
BY DEF RaceOutcome, Race!Pending, Race!NotAuthenticated

LEMMA RefusalOutcome ==
  ASSUME NEW kind, Decides(WithoutUpgrade(kind))
  PROVE  RaceOutcome' = Race!NotAuthenticated(kind)
BY DEF Decides, RaceOutcome, WithoutUpgrade, Race!NotAuthenticated

LEMMA InitRefines == Init => Race!Init
<1> SUFFICES ASSUME Init PROVE Race!Init
  OBVIOUS
<1>1. RaceOutcome = Race!Pending
  BY DEF Init, RaceOutcome, Race!Pending, Race!NotAuthenticated
<1> QED
  BY <1>1 DEF Init, Race!Init

(* Outside the race, and while an arm is between its two requests, AuthRace*)
(* sees nothing.                                                           *)
LEMMA Unseen ==
  ASSUME UNCHANGED <<answer, failed, elapsed>>,
         UNCHANGED <<phase, decision>> \/ {phase, phase'} \cap {"raced"} = {}
  PROVE  UNCHANGED Race!vars
BY DEF Race!vars, RaceOutcome

LEMMA ResolveRefines ==
  ASSUME NEW a \in Arms, NEW result \in {"Ok", "Invalid", "Unavailable"},
         Running(a), Resolve(a, result)
  PROVE  Race!Next
<1>1. RaceOutcome = Race!Pending /\ RaceOutcome' = RaceOutcome
  BY OutcomeInRace DEF Running, Resolve, RaceOutcome
<1>2. Race!Resolve(a, result)
  BY <1>1 DEF Race!Resolve, Race!Undecided, Running, Resolve
<1> QED
  BY <1>2 DEF Race!Next, Race!ArmResult, Race!ArmFailure

LEMMA TakeSuccessRefines ==
  ASSUME NEW a \in Arms, TakeSuccess(a)
  PROVE  Race!Next
<1>1. RaceOutcome = Race!Pending
  BY OutcomeInRace DEF TakeSuccess, Ready
<1>2. RaceOutcome' = Race!AuthenticatedBy(a)
  BY DEF TakeSuccess, Decides, RaceOutcome, AuthenticatedBy,
         Race!AuthenticatedBy
<1>3. Race!TakeSuccess(a)
  BY <1>1, <1>2 DEF TakeSuccess, Ready, armVars, Race!TakeSuccess,
                    Race!Undecided, Race!Ready
<1> QED
  BY <1>3 DEF Race!Next, Race!Poll

LEMMA TakeFailureRefines ==
  ASSUME IInv, NEW a \in Arms, TakeFailure(a)
  PROVE  Race!Next
<1>1. /\ RaceOutcome = Race!Pending /\ Race!Ready(a)
      /\ answer[a] \in Race!ArmFailure
      /\ failed' = failed \cup {a} /\ UNCHANGED <<answer, elapsed>>
  BY OutcomeInRace DEF TakeFailure, Ready, Race!Ready, Race!ArmFailure, armVars
<1>2. RaceOutcome' = IF failed' = Arms THEN Race!VerdictOnFailures
                                       ELSE Race!Pending
  <2>1. CASE failed' # Arms
    <3>1. UNCHANGED <<phase, decision>>
      BY <2>1 DEF TakeFailure
    <3> QED
      BY <1>1, <2>1, <3>1 DEF RaceOutcome
  <2>2. CASE failed' = Arms
    BY <2>2, RefusalOutcome DEF TakeFailure, Race!VerdictOnFailures
  <2> QED
    BY <2>1, <2>2
<1>3. Race!TakeFailure(a)
  BY <1>1, <1>2 DEF Race!TakeFailure, Race!Undecided
<1> QED
  BY <1>3 DEF Race!Next, Race!Poll

LEMMA DeadlineRefines ==
  ASSUME DeadlineExceeded
  PROVE  Race!Next
<1>1. /\ RaceOutcome = Race!Pending /\ elapsed = Deadline
      /\ RaceOutcome' = Race!NotAuthenticated("Degraded")
      /\ UNCHANGED <<answer, failed, elapsed>>
  BY OutcomeInRace, RefusalOutcome DEF DeadlineExceeded, armVars
<1>2. Arms # {} /\ ~ \E a \in Arms : Race!Ready(a)
  BY DEF DeadlineExceeded, Ready, Race!Ready, Arms
<1>3. Race!DeadlineExceeded
  BY <1>1, <1>2 DEF Race!DeadlineExceeded, Race!Undecided
<1> QED
  BY <1>3 DEF Race!Next, Race!Poll

LEMMA TickRefines ==
  ASSUME Tick
  PROVE  Race!Next
<1>1. RaceOutcome = Race!Pending /\ RaceOutcome' = RaceOutcome
  BY OutcomeInRace DEF Tick, RaceOutcome
<1>2. Race!Tick
  BY <1>1 DEF Tick, armVars, Race!Tick, Race!Undecided
<1> QED
  BY <1>2 DEF Race!Next

LEMMA StepRefines == IInv /\ [Next]_vars => [Race!Next]_(Race!vars)
<1> SUFFICES ASSUME IInv, [Next]_vars PROVE Race!Next \/ UNCHANGED Race!vars
  OBVIOUS
<1>1. CASE UNCHANGED vars
  BY <1>1, Unseen DEF vars
<1>2. ASSUME NEW r \in Request, Receive(r)
      PROVE  UNCHANGED Race!vars
  BY <1>2, Unseen DEF Receive, Answers, armVars
<1>3. CASE InnerReplies
  BY <1>3, Unseen DEF InnerReplies, Answers, armVars
<1>4. CASE ExchangeMints \/ Revoke \/ RolesChange
  BY <1>4, Unseen DEF ExchangeMints, Revoke, RolesChange, armVars
<1>5. CASE ExchangeFails
  BY <1>5, ResolveRefines DEF ExchangeFails, Arms
<1>6. CASE IntrospectReply
  BY <1>6, ResolveRefines DEF IntrospectReply, Enforced, Arms
<1>7. CASE DirectReply
  BY <1>7, ResolveRefines DEF DirectReply, Enforced, Arms
<1>8. CASE Poll
  BY <1>8, TakeSuccessRefines, TakeFailureRefines, DeadlineRefines DEF Poll
<1>9. CASE Tick
  BY <1>9, TickRefines
<1> QED
  BY <1>1, <1>2, <1>3, <1>4, <1>5, <1>6, <1>7, <1>8, <1>9 DEF Next, Done

(* The session guard's own race keeps the rules of race.rs, whatever the   *)
(* authorities do between the two requests of an arm.                      *)
THEOREM RaceRefined == Spec => ImplementsRace
<1>1. Init => Race!Init
  BY InitRefines
<1>2. IInv /\ [Next]_vars => [Race!Next]_(Race!vars)
  BY StepRefines
<1> QED
  BY <1>1, <1>2, IInvHolds, PTL DEF Spec, ImplementsRace, Race!Spec
-----------------------------------------------------------------------------
(* What the race of this guard promises its caller.                        *)
Promise == INSTANCE AuthDecision WITH arms <- Arms, verdict <- RaceOutcome.kind

(* AuthDecision's vars, here.                                              *)
promiseVars == <<Arms, answer, RaceOutcome.kind>>

(* The loop has collected failures only, and ends with the last of them at *)
(* the latest, in a decision.                                              *)
CollectedInv ==
  /\ \A a \in failed : answer[a] \in {"Invalid", "Unavailable"}
  /\ IF phase = "raced" THEN decision.kind # "Pending" ELSE failed # Arms

LEMMA CollectedStep == IInv /\ CollectedInv /\ [Next]_vars => CollectedInv'
<1> SUFFICES ASSUME IInv, CollectedInv, [Next]_vars PROVE CollectedInv'
  OBVIOUS
<1>1. ASSUME UNCHANGED <<answer, failed>>,
             IF phase' = "raced" THEN decision'.kind # "Pending"
                                 ELSE phase # "raced"
      PROVE  CollectedInv'
  BY <1>1 DEF CollectedInv
<1>2. CASE UNCHANGED <<answer, failed, phase, decision>>
  BY <1>2 DEF CollectedInv
<1>3. ASSUME NEW a \in Arms, Running(a),
             NEW result \in {"Ok", "Invalid", "Unavailable"}, Resolve(a, result)
      PROVE  CollectedInv'
  <2>1. a \notin failed
    BY <1>3 DEF CollectedInv, Running
  <2>2. \A b \in failed : answer'[b] = answer[b]
    BY <1>3, <2>1 DEF Resolve, IInv, TypeOK
  <2> QED
    BY <1>3, <2>2 DEF CollectedInv, Resolve
<1>4. ASSUME NEW a \in Arms, TakeFailure(a)
      PROVE  CollectedInv'
  BY <1>4 DEF TakeFailure, Decides, Ready, WithoutUpgrade, armVars, CollectedInv
<1>5. CASE UNCHANGED vars
  BY <1>2, <1>5 DEF vars
<1>6. ASSUME NEW r \in Request, Receive(r)
      PROVE  CollectedInv'
  BY <1>1, <1>6 DEF Receive, Answers, armVars
<1>7. CASE InnerReplies
  BY <1>1, <1>7 DEF InnerReplies, Answers, armVars
<1>8. CASE ExchangeMints \/ Revoke \/ RolesChange \/ Tick
  BY <1>2, <1>8 DEF ExchangeMints, Revoke, RolesChange, Tick, armVars
<1>9. CASE ExchangeFails
  BY <1>3, <1>9 DEF ExchangeFails, Arms
<1>10. CASE IntrospectReply
  BY <1>3, <1>10 DEF IntrospectReply, Enforced, Arms
<1>11. CASE DirectReply
  BY <1>3, <1>11 DEF DirectReply, Enforced, Arms
<1>12. CASE Poll
  <2>1. CASE DeadlineExceeded
    BY <1>1, <2>1 DEF DeadlineExceeded, Decides, WithoutUpgrade, armVars
  <2>2. ASSUME NEW a \in Arms, TakeSuccess(a)
        PROVE  CollectedInv'
    BY <1>1, <2>2 DEF TakeSuccess, Decides, AuthenticatedBy, armVars
  <2> QED
    BY <1>4, <1>12, <2>1, <2>2 DEF Poll
<1> QED
  BY <1>5, <1>6, <1>7, <1>8, <1>9, <1>10, <1>11, <1>12 DEF Next, Done

LEMMA CollectedHolds == Spec => []CollectedInv
<1>1. Init => CollectedInv
  BY DEF Init, CollectedInv, Arms
<1> QED
  BY <1>1, IInvHolds, CollectedStep, PTL DEF Spec

-----------------------------------------------------------------------------
(* Every step of the race, as AuthRace sees it, keeps the promise.         *)
LEMMA JustifiedDecides ==
  ASSUME NEW kind \in {"Authenticated", "Unauthenticated", "Degraded"},
         Promise!Justified(kind), RaceOutcome = Race!Pending,
         RaceOutcome'.kind = kind, answer' = answer
  PROVE  Promise!Next
<1>1. Promise!Decide(kind)
  BY DEF Promise!Decide, Race!Pending, Race!NotAuthenticated
<1> QED
  BY <1>1 DEF Promise!Next, Promise!Verdict

LEMMA ResolvePromised ==
  ASSUME NEW a \in Arms, Race!Undecided,
         NEW result \in Race!ArmResult, Race!Resolve(a, result)
  PROVE  Promise!Next
<1>1. Promise!Arrive(a, result)
  BY DEF Race!Resolve, Race!Undecided, Race!Pending, Race!NotAuthenticated,
         Promise!Arrive
<1> QED
  BY <1>1 DEF Promise!Next, Promise!ArmAnswer, Promise!ArmFailure,
              Race!ArmResult, Race!ArmFailure

LEMMA TakeSuccessPromised ==
  ASSUME NEW a \in Arms, Race!TakeSuccess(a)
  PROVE  Promise!Next
<1>1. /\ answer[a] = "Ok" /\ RaceOutcome = Race!Pending
      /\ RaceOutcome'.kind = "Authenticated" /\ answer' = answer
  BY DEF Race!TakeSuccess, Race!Undecided, Race!AuthenticatedBy
<1>2. Promise!Justified("Authenticated")
  BY <1>1 DEF Promise!Justified
<1> QED
  BY <1>1, <1>2, JustifiedDecides

LEMMA TakeFailurePromised ==
  ASSUME CollectedInv', NEW a \in Arms, Race!TakeFailure(a)
  PROVE  Promise!Next \/ UNCHANGED promiseVars
<1>1. RaceOutcome = Race!Pending /\ answer' = answer
  BY DEF Race!TakeFailure, Race!Undecided
<1>2. CASE failed' # Arms
  BY <1>1, <1>2 DEF Race!TakeFailure, promiseVars
<1>3. CASE failed' = Arms
  <2>1. RaceOutcome' = Race!VerdictOnFailures
    BY <1>3 DEF Race!TakeFailure
  <2>2. Arms # {} /\ \A b \in Arms : answer[b] \in {"Invalid", "Unavailable"}
    BY <1>1, <1>3 DEF CollectedInv
  <2>3. CASE \A b \in Arms : answer[b] = "Invalid"
    <3>1. RaceOutcome'.kind = "Unauthenticated"
      BY <2>1, <2>3 DEF Race!VerdictOnFailures, Race!NotAuthenticated
    <3>2. Promise!Justified("Unauthenticated")
      BY <2>2, <2>3 DEF Promise!Justified
    <3> QED
      BY <1>1, <3>1, <3>2, JustifiedDecides
  <2>4. CASE ~ \A b \in Arms : answer[b] = "Invalid"
    <3>1. RaceOutcome'.kind = "Degraded"
      BY <2>1, <2>4 DEF Race!VerdictOnFailures, Race!NotAuthenticated
    <3>2. Promise!Justified("Degraded")
      BY <2>2, <2>4 DEF Promise!Justified
    <3> QED
      BY <1>1, <3>1, <3>2, JustifiedDecides
  <2> QED
    BY <2>3, <2>4
<1> QED
  BY <1>2, <1>3

LEMMA DeadlinePromised ==
  ASSUME TypeOK, CollectedInv, failed # Arms, Race!DeadlineExceeded
  PROVE  Promise!Next
<1>1. /\ RaceOutcome = Race!Pending /\ RaceOutcome'.kind = "Degraded"
      /\ answer' = answer
      /\ \A a \in Arms \ failed : answer[a] = "Running"
  BY DEF Race!DeadlineExceeded, Race!Undecided, Race!Ready,
         Race!NotAuthenticated
<1>2. PICK a \in Arms : a \notin failed
  BY DEF TypeOK
<1>3. Promise!Justified("Degraded")
  BY <1>1, <1>2 DEF CollectedInv, Promise!Justified
<1> QED
  BY <1>1, <1>3, JustifiedDecides

LEMMA RaceStepPromised ==
  ASSUME IInv, CollectedInv, CollectedInv', [Race!Next]_(Race!vars)
  PROVE  [Promise!Next]_promiseVars
<1>0. Race!Undecided => failed # Arms
  BY DEF CollectedInv, Race!Undecided, RaceOutcome, Race!Pending,
         Race!NotAuthenticated
<1>1. CASE UNCHANGED Race!vars
  BY <1>1 DEF Race!vars, promiseVars
<1>2. ASSUME NEW a \in Arms, NEW result \in Race!ArmResult,
             Race!Resolve(a, result)
      PROVE  Promise!Next
  BY <1>2, ResolvePromised DEF Race!Resolve
<1>3. CASE Race!Tick
  BY <1>3 DEF Race!Tick, promiseVars
<1>4. CASE Race!DeadlineExceeded
  BY <1>0, <1>4, DeadlinePromised DEF Race!DeadlineExceeded, IInv
<1>5. ~Race!NoArms
  BY DEF Race!NoArms, Arms
<1>6. CASE Race!Poll
  BY <1>4, <1>5, <1>6, TakeSuccessPromised, TakeFailurePromised DEF Race!Poll
<1>7. CASE Race!Decided
  BY <1>7 DEF Race!Decided, Race!vars, promiseVars
<1> QED
  BY <1>1, <1>2, <1>3, <1>6, <1>7 DEF Race!Next

(* What race.rs promises its callers (its rules 1 to 4 and 6, AuthDecision)*)
(* this guard's own race keeps (session_guard.rs 283-362): one verdict,    *)
(* justified by what the arms have answered by then.  An exchange that has *)
(* minted a session is no answer.                                          *)
THEOREM SessionImplementsDecision == Spec => Promise!Spec
<1>1. Init => Promise!Init
  BY DEF Init, Promise!Init, RaceOutcome
<1>2. /\ IInv /\ CollectedInv /\ CollectedInv' /\ [Next]_vars
      => [Promise!Next]_promiseVars
  BY StepRefines, RaceStepPromised
<1> QED
  BY <1>1, <1>2, IInvHolds, CollectedHolds, PTL
     DEF Spec, Promise!Spec, Promise!vars, promiseVars

(* The answer of a request that was raced is the verdict its arms' answers *)
(* justify, and stays it: no cookie without an Ok, no 401 without two      *)
(* definite noes.                                                          *)
RaceJustified == phase = "raced" => Promise!Justified(decision.kind)

LEMMA VerdictJustified ==
  Promise!Spec =>
    [](RaceOutcome.kind # "Pending" => Promise!Justified(RaceOutcome.kind))
<1> DEFINE J == RaceOutcome.kind # "Pending" => Promise!Justified(RaceOutcome.kind)
<1>1. Promise!Init => J
  BY DEF Promise!Init
<1>2. J /\ [Promise!Next]_promiseVars => J'
  BY DEF Promise!Next, Promise!Arrive, Promise!Decide, Promise!Justified,
         promiseVars
<1> QED
  BY <1>1, <1>2, PTL DEF Promise!Spec, Promise!vars, promiseVars

THEOREM SessionAnswerCorrect == Spec => []RaceJustified
<1>1. /\ CollectedInv
      /\ RaceOutcome.kind # "Pending" => Promise!Justified(RaceOutcome.kind)
      => RaceJustified
  BY DEF CollectedInv, RaceOutcome, RaceJustified
<1> QED
  BY <1>1, CollectedHolds, VerdictJustified, SessionImplementsDecision, PTL
=============================================================================
