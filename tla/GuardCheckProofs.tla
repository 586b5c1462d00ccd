-------------------------- MODULE GuardCheckProofs --------------------------
(***************************************************************************)
(* Proofs about one request through the session guard, and about the race  *)
(* it runs.                                                                *)
(*                                                                         *)
(* The first part is about AuthRace on its own, for any set of arms, any   *)
(* assignment of authorities to them and any deadline; GuardCheck uses two *)
(* arms of it.  AnyRace is that module over the same variables, and its    *)
(* assumptions on the constants are hypotheses of each theorem.  The       *)
(* second part shows that GuardCheck keeps the invariant of KeySetProofs,  *)
(* for the request that is followed and those beside it.  The third is     *)
(* about GuardCheck.  The fourth brings the theorems about the key set to  *)
(* the request and from there to its answer, and says what an answer       *)
(* stands for.                                                             *)
(***************************************************************************)
EXTENDS GuardCheck, TLAPS

CONSTANTS Arms, Authority, AuthorityOf, Claimed

AnyRace == INSTANCE AuthRace

(* What AuthRace assumes of its constants.                                 *)
RaceAssumptions == AnyRace!AuthorityAssumption /\ AnyRace!DeadlineAssumption

(* What the loop has collected are failures, and while the race is         *)
(* undecided there is still an arm to wait for.                            *)
RaceCollected ==
  /\ \A a \in failed : answer[a] \in AnyRace!ArmFailure
  /\ AnyRace!Undecided /\ arms # {} => failed # arms

RaceIInv ==
  /\ AnyRace!TypeOK /\ RaceCollected
  /\ AnyRace!WinnerIsStamped /\ AnyRace!SurvivorDecides

LEMMA RaceInitIInv ==
  ASSUME RaceAssumptions
  PROVE  AnyRace!Init => RaceIInv
BY DEF RaceAssumptions, AnyRace!AuthorityAssumption, AnyRace!DeadlineAssumption,
       AnyRace!Init, RaceIInv, AnyRace!TypeOK, RaceCollected,
       AnyRace!WinnerIsStamped, AnyRace!SurvivorDecides, AnyRace!Undecided,
       AnyRace!Pending, AnyRace!NotAuthenticated, AnyRace!Outcome

(* The type invariant is kept by every step of the race.                   *)
LEMMA RaceTypeOKStep ==
  ASSUME RaceAssumptions
  PROVE  AnyRace!TypeOK /\ [AnyRace!Next]_(AnyRace!vars) => AnyRace!TypeOK'
<1> SUFFICES ASSUME AnyRace!TypeOK, [AnyRace!Next]_(AnyRace!vars) PROVE AnyRace!TypeOK'
  OBVIOUS
<1> USE DEF AnyRace!TypeOK, AnyRace!Outcome, AnyRace!NotAuthenticated
<1>1. CASE AnyRace!NoArms
  BY <1>1 DEF AnyRace!NoArms
<1>2. ASSUME NEW a \in Arms, AnyRace!TakeSuccess(a)
      PROVE  AnyRace!TypeOK'
  BY <1>2
     DEF RaceAssumptions, AnyRace!AuthorityAssumption,
         AnyRace!DeadlineAssumption, AnyRace!TakeSuccess,
         AnyRace!AuthenticatedBy
<1>3. ASSUME NEW a \in Arms, AnyRace!TakeFailure(a)
      PROVE  AnyRace!TypeOK'
  <2>1. failed' \in SUBSET arms
    BY <1>3 DEF AnyRace!TakeFailure, AnyRace!Ready
  <2>2. outcome' \in AnyRace!Outcome
    BY <1>3 DEF AnyRace!TakeFailure, AnyRace!VerdictOnFailures, AnyRace!Pending
  <2> QED
    BY <1>3, <2>1, <2>2 DEF AnyRace!TakeFailure
<1>4. CASE AnyRace!DeadlineExceeded
  BY <1>4 DEF AnyRace!DeadlineExceeded
<1>5. ASSUME NEW a \in Arms, NEW r \in AnyRace!ArmResult, AnyRace!Resolve(a, r)
      PROVE  AnyRace!TypeOK'
  BY <1>5 DEF AnyRace!Resolve
<1>6. CASE AnyRace!Tick
  BY <1>6
     DEF RaceAssumptions, AnyRace!AuthorityAssumption,
         AnyRace!DeadlineAssumption, AnyRace!Tick
<1>7. CASE UNCHANGED AnyRace!vars
  BY <1>7 DEF AnyRace!vars
<1> QED
  BY <1>1, <1>2, <1>3, <1>4, <1>5, <1>6, <1>7
     DEF AnyRace!Next, AnyRace!Poll, AnyRace!Decided

(* The other three parts of the invariant.                                 *)
LEMMA RaceIInvStep ==
  ASSUME RaceAssumptions
  PROVE  RaceIInv /\ [AnyRace!Next]_(AnyRace!vars) => RaceIInv'
<1> SUFFICES ASSUME RaceIInv, [AnyRace!Next]_(AnyRace!vars) PROVE RaceIInv'
  OBVIOUS
<1>0. AnyRace!TypeOK /\ AnyRace!TypeOK'
  BY RaceTypeOKStep DEF RaceIInv
<1> USE DEF AnyRace!Undecided, AnyRace!Pending, AnyRace!NotAuthenticated
<1>1. CASE AnyRace!NoArms
  BY <1>0, <1>1
     DEF AnyRace!NoArms, RaceIInv, AnyRace!TypeOK, RaceCollected,
         AnyRace!WinnerIsStamped, AnyRace!SurvivorDecides
<1>2. ASSUME NEW a \in Arms, AnyRace!TakeSuccess(a)
      PROVE  RaceIInv'
  BY <1>0, <1>2
     DEF AnyRace!TakeSuccess, AnyRace!AuthenticatedBy, AnyRace!Ready, RaceIInv,
         RaceCollected, AnyRace!WinnerIsStamped, AnyRace!SurvivorDecides
<1>3. ASSUME NEW a \in Arms, AnyRace!TakeFailure(a)
      PROVE  RaceIInv'
  <2>1. RaceCollected'
    BY <1>0, <1>3
       DEF AnyRace!TakeFailure, AnyRace!VerdictOnFailures, AnyRace!Ready,
           RaceIInv, RaceCollected, AnyRace!TypeOK
  <2>2. AnyRace!WinnerIsStamped'
    BY <1>3
       DEF AnyRace!TakeFailure, AnyRace!VerdictOnFailures,
           AnyRace!WinnerIsStamped
  <2>3. AnyRace!SurvivorDecides'
    <3> SUFFICES ASSUME outcome'.kind \in {"Unauthenticated", "Degraded"}
                 PROVE  \A b \in arms : answer[b] # "Running"
      BY <1>3 DEF AnyRace!TakeFailure, AnyRace!SurvivorDecides
    <3>1. failed' = arms
      BY <1>3 DEF AnyRace!TakeFailure
    <3> QED
      BY <1>3, <2>1, <3>1
         DEF AnyRace!TakeFailure, RaceCollected, AnyRace!ArmFailure
  <2> QED
    BY <1>0, <2>1, <2>2, <2>3 DEF RaceIInv
<1>4. CASE AnyRace!DeadlineExceeded
  BY <1>0, <1>4
     DEF RaceAssumptions, AnyRace!AuthorityAssumption,
         AnyRace!DeadlineAssumption, AnyRace!DeadlineExceeded, RaceIInv,
         AnyRace!TypeOK, RaceCollected, AnyRace!WinnerIsStamped,
         AnyRace!SurvivorDecides
<1>5. ASSUME NEW a \in Arms, NEW r \in AnyRace!ArmResult, AnyRace!Resolve(a, r)
      PROVE  RaceIInv'
  BY <1>0, <1>5
     DEF AnyRace!Resolve, RaceIInv, AnyRace!TypeOK, RaceCollected,
         AnyRace!WinnerIsStamped, AnyRace!SurvivorDecides, AnyRace!ArmFailure
<1>6. CASE AnyRace!Tick
  BY <1>0, <1>6
     DEF AnyRace!Tick, RaceIInv, RaceCollected, AnyRace!WinnerIsStamped,
         AnyRace!SurvivorDecides
<1>7. CASE UNCHANGED AnyRace!vars
  BY <1>0, <1>7
     DEF AnyRace!vars, RaceIInv, RaceCollected, AnyRace!WinnerIsStamped,
         AnyRace!SurvivorDecides
<1> QED
  BY <1>1, <1>2, <1>3, <1>4, <1>5, <1>6, <1>7
     DEF AnyRace!Next, AnyRace!Poll, AnyRace!Decided

LEMMA RaceIInvHolds ==
  ASSUME RaceAssumptions
  PROVE  AnyRace!Spec => []RaceIInv
BY RaceInitIInv, RaceIInvStep, PTL DEF AnyRace!Spec

(* Every reachable state of the race is well typed.                        *)
THEOREM RaceTypeCorrect ==
  ASSUME RaceAssumptions
  PROVE  AnyRace!Spec => []AnyRace!TypeOK
<1>1. RaceIInv => AnyRace!TypeOK
  BY DEF RaceIInv
<1> QED
  BY <1>1, RaceIInvHolds, PTL

(* The winner of a race of any number of arms answered Ok and is named on  *)
(* the identity (race.rs 68-75).                                           *)
THEOREM RaceWinnerCorrect ==
  ASSUME RaceAssumptions
  PROVE  AnyRace!Spec => []AnyRace!WinnerIsStamped
<1>1. RaceIInv => AnyRace!WinnerIsStamped
  BY DEF RaceIInv
<1> QED
  BY <1>1, RaceIInvHolds, PTL

(* A failing arm never ends the race before the others have answered or    *)
(* the deadline has passed (race.rs 66-91).                                *)
THEOREM RaceSurvivorCorrect ==
  ASSUME RaceAssumptions
  PROVE  AnyRace!Spec => []AnyRace!SurvivorDecides
<1>1. RaceIInv => AnyRace!SurvivorDecides
  BY DEF RaceIInv
<1> QED
  BY <1>1, RaceIInvHolds, PTL

-----------------------------------------------------------------------------
(* Every step of the race is a step of the abstract decision or changes    *)
(* nothing the caller sees.                                                *)
LEMMA RaceStepImplements ==
  ASSUME RaceIInv, [AnyRace!Next]_(AnyRace!vars)
  PROVE  [AnyRace!Decision!Next]_<<arms, answer, outcome.kind>>
<1> USE DEF AnyRace!Undecided, AnyRace!Pending, AnyRace!NotAuthenticated
<1> DEFINE absVars == <<arms, answer, outcome.kind>>
<1>1. CASE AnyRace!NoArms
  <2>1. AnyRace!Decision!Decide("Degraded")
    BY <1>1
       DEF AnyRace!NoArms, AnyRace!Decision!Decide, AnyRace!Decision!Justified
  <2> QED
    BY <2>1 DEF AnyRace!Decision!Next, AnyRace!Decision!Verdict
<1>2. ASSUME NEW a \in Arms, AnyRace!TakeSuccess(a)
      PROVE  AnyRace!Decision!Next
  <2>1. AnyRace!Decision!Decide("Authenticated")
    BY <1>2
       DEF AnyRace!TakeSuccess, AnyRace!AuthenticatedBy, AnyRace!Ready,
           AnyRace!Decision!Decide, AnyRace!Decision!Justified
  <2> QED
    BY <2>1 DEF AnyRace!Decision!Next, AnyRace!Decision!Verdict
<1>3. ASSUME NEW a \in Arms, AnyRace!TakeFailure(a)
      PROVE  AnyRace!Decision!Next \/ UNCHANGED absVars
  <2>1. CASE failed' # arms
    BY <1>3, <2>1 DEF AnyRace!TakeFailure
  <2>2. CASE failed' = arms
    <3>1. \A b \in arms : answer[b] \in AnyRace!ArmFailure
      BY <1>3, <2>2 DEF AnyRace!TakeFailure, RaceIInv, RaceCollected
    <3>2. a \in arms
      BY <1>3 DEF AnyRace!TakeFailure, AnyRace!Ready
    <3>3. outcome' = AnyRace!VerdictOnFailures
      BY <1>3, <2>2 DEF AnyRace!TakeFailure
    <3>4. CASE \A b \in arms : answer[b] = "Invalid"
      <4>1. AnyRace!Decision!Decide("Unauthenticated")
        BY <1>3, <3>2, <3>3, <3>4
           DEF AnyRace!TakeFailure, AnyRace!VerdictOnFailures,
               AnyRace!Decision!Decide, AnyRace!Decision!Justified
      <4> QED
        BY <4>1 DEF AnyRace!Decision!Next, AnyRace!Decision!Verdict
    <3>5. CASE ~ \A b \in arms : answer[b] = "Invalid"
      <4>1. AnyRace!Decision!Decide("Degraded")
        BY <1>3, <3>1, <3>3, <3>5
           DEF AnyRace!TakeFailure, AnyRace!VerdictOnFailures,
               AnyRace!ArmFailure, AnyRace!Decision!Decide,
               AnyRace!Decision!Justified
      <4> QED
        BY <4>1 DEF AnyRace!Decision!Next, AnyRace!Decision!Verdict
    <3> QED
      BY <3>4, <3>5
  <2> QED
    BY <2>1, <2>2
<1>4. CASE AnyRace!DeadlineExceeded
  <2>1. \A a \in arms : answer[a] # "Ok"
    BY <1>4
       DEF AnyRace!DeadlineExceeded, AnyRace!Ready, RaceIInv, RaceCollected,
           AnyRace!ArmFailure
  <2>2. \E a \in arms : answer[a] # "Invalid"
    <3>1. PICK a \in arms : a \notin failed
      BY <1>4
         DEF AnyRace!DeadlineExceeded, RaceIInv, RaceCollected, AnyRace!TypeOK
    <3>2. answer[a] = "Running"
      BY <1>4, <3>1 DEF AnyRace!DeadlineExceeded, AnyRace!Ready
    <3> QED
      BY <3>2
  <2>3. AnyRace!Decision!Decide("Degraded")
    BY <1>4, <2>1, <2>2
       DEF AnyRace!DeadlineExceeded, AnyRace!Decision!Decide,
           AnyRace!Decision!Justified
  <2> QED
    BY <2>3 DEF AnyRace!Decision!Next, AnyRace!Decision!Verdict
<1>5. ASSUME NEW a \in Arms, NEW r \in AnyRace!ArmResult, AnyRace!Resolve(a, r)
      PROVE  AnyRace!Decision!Next
  <2>1. AnyRace!Decision!Arrive(a, r)
    BY <1>5 DEF AnyRace!Resolve, AnyRace!Decision!Arrive
  <2> QED
    BY <2>1
       DEF AnyRace!Decision!Next, AnyRace!Decision!ArmAnswer,
           AnyRace!Decision!ArmFailure, AnyRace!ArmResult, AnyRace!ArmFailure
<1>6. CASE AnyRace!Tick
  BY <1>6 DEF AnyRace!Tick
<1>7. CASE UNCHANGED AnyRace!vars
  BY <1>7 DEF AnyRace!vars
<1> QED
  BY <1>1, <1>2, <1>3, <1>4, <1>5, <1>6, <1>7
     DEF AnyRace!Next, AnyRace!Poll, AnyRace!Decided

(* The race implements the abstract decision: what holds of AuthDecision   *)
(* holds of race_many for every number of arms and every deadline.         *)
THEOREM RaceImplementsDecision ==
  ASSUME RaceAssumptions
  PROVE  AnyRace!Spec => AnyRace!ImplementsDecision
<1>1. AnyRace!Init => AnyRace!Decision!Init
  BY DEF AnyRace!Init, AnyRace!Decision!Init, AnyRace!Pending,
         AnyRace!NotAuthenticated
<1>2. RaceIInv /\ [AnyRace!Next]_(AnyRace!vars)
        => [AnyRace!Decision!Next]_<<arms, answer, outcome.kind>>
  BY RaceStepImplements
<1> QED
  BY <1>1, <1>2, RaceIInvHolds, PTL
     DEF AnyRace!Spec, AnyRace!ImplementsDecision, AnyRace!Decision!Spec,
         AnyRace!Decision!vars

-----------------------------------------------------------------------------
(* The key set as everyone uses it.                                        *)
(*                                                                         *)
(* KeySetProofs, for Me and the others: what GuardJwks assumes of its      *)
(* constants holds of those of GuardCheck, and every step of GuardCheck is *)
(* a step of GuardJwks, of whoever verifies, or leaves the key set and the *)
(* calls alone.  (The second part of KeySetProofs, about ProviderJwks, is  *)
(* not used: its parameters get any value.)                                *)
KeyProofs ==
  INSTANCE KeySetProofs WITH Callers <- Everyone, Sets <- {}, Throttle <- 0,
                             HttpTimeout <- 0, since <- lastSeen, cleared <- now

USE ArmsAssumption, PartsAssumption

LEMMA KeySetAssumptions ==
  KeyProofs!TimeAssumption /\ KeyProofs!NoneAssumption /\ KeyProofs!PinAssumption
BY DEF KeyProofs!TimeAssumption, KeyProofs!NoneAssumption,
       KeyProofs!PinAssumption, Keys!Token, KeyProofs!Token

USE KeySetAssumptions
    DEF KeyProofs!TimeAssumption, KeyProofs!NoneAssumption, KeyProofs!PinAssumption

(* The steps of verify_ours, of the authority and of the clock are those   *)
(* of GuardJwks.                                                           *)
LEMMA SamePieces ==
  ASSUME NEW c, NEW keys, NEW t, NEW v, NEW justFetched, NEW down
  PROVE  /\ Keys!Fresh = KeyProofs!Fresh /\ Keys!Usable = KeyProofs!Usable
         /\ Keys!Verify(t, keys) = KeyProofs!Verify(t, keys)
         /\ Keys!Finish(c) <=> KeyProofs!Finish(c)
         /\ Keys!Returns(c, v, down) <=> KeyProofs!Returns(c, v, down)
         /\ Keys!WaitForLock(c, v, down) <=> KeyProofs!WaitForLock(c, v, down)
         /\ Keys!UseKeys(c, keys, justFetched, down)
              <=> KeyProofs!UseKeys(c, keys, justFetched, down)
BY DEF Keys!Fresh, KeyProofs!Fresh, Keys!Usable, KeyProofs!Usable,
       Keys!Verify, KeyProofs!Verify, Keys!Finish, KeyProofs!Finish,
       Keys!NoReply, KeyProofs!NoReply, Keys!Returns, KeyProofs!Returns,
       Keys!WaitForLock, KeyProofs!WaitForLock, Keys!UseKeys, KeyProofs!UseKeys

LEMMA SameCalls ==
  ASSUME NEW c \in Everyone
  PROVE  /\ \A t \in Keys!Token : Keys!Begin(c, t) => KeyProofs!Next
         /\ Keys!Read(c) \/ Keys!Acquire(c) \/ Keys!Serve(c) \/ Keys!FetchEnds(c)
              => KeyProofs!Next
         /\ Keys!Drop(c) => KeyProofs!Next
<1> USE DEF KeyProofs!envVars, Keys!envVars
<1>1. Keys!Token = KeyProofs!Token
  BY DEF Keys!Token, KeyProofs!Token
<1>2. \A t \in Keys!Token : Keys!Begin(c, t) => KeyProofs!Begin(c, t)
  BY DEF Keys!Begin, KeyProofs!Begin
<1>3. Keys!Read(c) => KeyProofs!Read(c)
  BY SamePieces
     DEF Keys!Read, Keys!UsePinned, Keys!ReadCache,
         KeyProofs!Read, KeyProofs!UsePinned, KeyProofs!ReadCache
<1>4. Keys!Acquire(c) => KeyProofs!Acquire(c)
  BY SamePieces
     DEF Keys!Acquire, Keys!FoundRefreshed, Keys!StartFetch,
         KeyProofs!Acquire, KeyProofs!FoundRefreshed, KeyProofs!StartFetch
<1>5. Keys!Serve(c) => KeyProofs!Serve(c)
  BY DEF Keys!Serve, KeyProofs!Serve
<1>6. Keys!FetchEnds(c) => KeyProofs!FetchEnds(c)
  BY SamePieces
     DEF Keys!FetchEnds, Keys!FetchSucceeds, Keys!FetchFails,
         KeyProofs!FetchEnds, KeyProofs!FetchSucceeds, KeyProofs!FetchFails
<1>7. Keys!Drop(c) => KeyProofs!Drop(c)
  BY SamePieces DEF Keys!Drop, KeyProofs!Drop
<1> QED
  BY <1>1, <1>2, <1>3, <1>4, <1>5, <1>6, <1>7 DEF KeyProofs!Next

LEMMA SameWorld ==
  /\ \A S \in SUBSET Kids : Keys!Publish(S) => KeyProofs!Next
  /\ Keys!Tick => KeyProofs!Next
<1> USE DEF KeyProofs!Next, KeyProofs!envVars, Keys!envVars
<1>1. ASSUME NEW S \in SUBSET Kids, Keys!Publish(S)
      PROVE  KeyProofs!Next
  BY <1>1 DEF Keys!Publish, KeyProofs!Publish
<1>2. Keys!Tick => KeyProofs!Next
  BY DEF Keys!Tick, KeyProofs!Tick, Keys!callVars, KeyProofs!callVars
<1> QED
  BY <1>1, <1>2

LEMMA StepOfKeySet ==
  ASSUME [Next]_vars
  PROVE  [KeyProofs!Next]_(KeyProofs!vars)
<1>1. UNCHANGED keyVars => UNCHANGED KeyProofs!vars
  BY DEF keyVars, KeyProofs!vars, KeyProofs!envVars, KeyProofs!callVars
<1>2. Me \in Everyone /\ Others \subseteq Everyone
  BY DEF Everyone
<1>3. ASSUME NEW r \in Request, Receive(r)
      PROVE  KeyProofs!Next \/ UNCHANGED keyVars
  BY <1>2, <1>3, SameCalls DEF Receive, Request
<1>4. CASE VerifyOurs
  BY <1>2, <1>4, SameCalls DEF VerifyOurs
<1>5. CASE Abandon
  BY <1>1, <1>2, <1>5, SameCalls DEF Abandon
<1>6. ASSUME NEW c \in Others, OtherSteps(c)
      PROVE  KeyProofs!Next
  BY <1>2, <1>6, SameCalls DEF OtherSteps
<1>7. CASE World
  BY <1>7, SameWorld DEF World
<1>8. ASSUME \/ ExchangeMints \/ (\E a \in BothArms : ArmAnswers(a))
             \/ RacePoll \/ RaceTick \/ Done \/ UNCHANGED vars
      PROVE  UNCHANGED keyVars
  BY <1>8 DEF ExchangeMints, ArmAnswers, RacePoll, RaceTick, Done, vars
<1> QED
  BY <1>1, <1>3, <1>4, <1>5, <1>6, <1>7, <1>8 DEF Next

(* The invariant of KeySetProofs holds of the cache and of every call.     *)
KeyInv == KeyProofs!IInv

LEMMA KeyInvInit == Init => KeyInv
<1>1. Init => KeyProofs!Init
  BY DEF Init, Keys!Init, KeyProofs!Init, Keys!NoKeySet, KeyProofs!NoKeySet,
         Keys!NoReply, KeyProofs!NoReply, Keys!Never, KeyProofs!Never
<1> QED
  BY <1>1, KeyProofs!InitIInv DEF KeyInv

LEMMA KeyInvStep == KeyInv /\ [Next]_vars => KeyInv'
BY StepOfKeySet, KeyProofs!IInvStep DEF KeyInv

LEMMA KeyInvHolds == Spec => []KeyInv
BY KeyInvInit, KeyInvStep, PTL DEF Spec

LEMMA KeyTypes == KeyInv => Keys!TypeOK
BY DEF KeyInv, KeyProofs!IInv, KeyProofs!TypeOK, Keys!TypeOK,
       KeyProofs!KeySet, Keys!KeySet, KeyProofs!Reply, Keys!Reply,
       KeyProofs!Token, Keys!Token, KeyProofs!Never, Keys!Never,
       KeyProofs!Return, Keys!Return, KeyProofs!Verified, Keys!Verified

(* Where a step of verify_ours leaves the call of Me: it waits, with the   *)
(* token it began with, or it has returned.                                *)
Proceeds ==
  \/ returned' = NoReturn /\ pc'[Me] # "idle" /\ token'[Me] = token[Me]
  \/ /\ returned' # NoReturn /\ pc'[Me] = "idle"
     /\ returned'.caller = Me /\ returned'.verdict \in Keys!Verified

LEMMA VerifyType ==
  ASSUME NEW t, NEW keys
  PROVE  Keys!Verify(t, keys) \in Keys!Verified
BY DEF Keys!Verify, Keys!Verified

LEMMA VerifyProceeds ==
  ASSUME KeyInv, Keys!Read(Me) \/ Keys!Acquire(Me) \/ Keys!Serve(Me) \/ Keys!FetchEnds(Me)
  PROVE  Proceeds
<1>1. /\ Me \in Everyone /\ outage[Me] \in BOOLEAN /\ TRUE \in BOOLEAN
      /\ pc \in [Everyone -> {"idle", "read", "lock", "fetch"}]
  BY KeyTypes DEF Keys!TypeOK, Everyone
<1>2. ASSUME NEW v \in Keys!Verified, NEW down \in BOOLEAN, Keys!Returns(Me, v, down)
      PROVE  Proceeds
  BY <1>1, <1>2 DEF Keys!Returns, Keys!Return, Keys!Finish, Proceeds
<1>3. ASSUME NEW force, NEW down, Keys!WaitForLock(Me, force, down)
      PROVE  Proceeds
  BY <1>1, <1>3 DEF Keys!WaitForLock, Proceeds
<1>4. ASSUME NEW keys, NEW justFetched \in BOOLEAN, NEW down \in BOOLEAN,
             Keys!UseKeys(Me, keys, justFetched, down)
      PROVE  Proceeds
  BY <1>2, <1>3, <1>4, VerifyType DEF Keys!UseKeys
<1>5. "Unavailable" \in Keys!Verified
  BY DEF Keys!Verified
<1>6. CASE Keys!Read(Me)
  BY <1>1, <1>3, <1>4, <1>6 DEF Keys!Read, Keys!UsePinned, Keys!ReadCache
<1>7. CASE Keys!FoundRefreshed(Me)
  BY <1>1, <1>4, <1>7 DEF Keys!FoundRefreshed
<1>8. CASE Keys!StartFetch(Me)
  BY <1>1, <1>8 DEF Keys!StartFetch, Proceeds
<1>9. CASE Keys!Serve(Me)
  BY <1>9 DEF Keys!Serve, Proceeds
<1>10. CASE Keys!FetchEnds(Me)
  BY <1>1, <1>2, <1>4, <1>5, <1>10
     DEF Keys!FetchEnds, Keys!FetchSucceeds, Keys!FetchFails
<1> QED
  BY <1>6, <1>7, <1>8, <1>9, <1>10 DEF Keys!Acquire

(* The other requests, the authority and the clock leave the call of Me    *)
(* where it is.                                                            *)
LEMMA CallLeftAlone ==
  ASSUME KeyInv, (\E c \in Others : OtherSteps(c)) \/ World
  PROVE  pc'[Me] = pc[Me] /\ token'[Me] = token[Me]
<1>1. /\ Me \in Everyone /\ Me \notin Others
      /\ pc \in [Everyone -> {"idle", "read", "lock", "fetch"}]
      /\ token \in [Everyone -> Keys!Token \cup {NoToken}]
  BY KeyTypes DEF Keys!TypeOK, Everyone
<1>2. ASSUME NEW c \in Others, OtherSteps(c)
      PROVE  pc'[Me] = pc[Me] /\ token'[Me] = token[Me]
  <2>1. ASSUME NEW v, NEW down, Keys!Returns(c, v, down)
        PROVE  pc'[Me] = pc[Me] /\ token'[Me] = token[Me]
    BY <1>1, <2>1 DEF Keys!Returns, Keys!Finish
  <2>2. ASSUME NEW force, NEW down, Keys!WaitForLock(c, force, down)
        PROVE  pc'[Me] = pc[Me] /\ token'[Me] = token[Me]
    BY <1>1, <2>2 DEF Keys!WaitForLock
  <2>3. ASSUME NEW keys, NEW justFetched, NEW down,
               Keys!UseKeys(c, keys, justFetched, down)
        PROVE  pc'[Me] = pc[Me] /\ token'[Me] = token[Me]
    BY <2>1, <2>2, <2>3 DEF Keys!UseKeys
  <2>4. CASE \E t \in OtherTokens : Keys!Begin(c, t)
    BY <1>1, <2>4 DEF Keys!Begin
  <2>5. CASE Keys!Read(c)
    BY <2>2, <2>3, <2>5 DEF Keys!Read, Keys!UsePinned, Keys!ReadCache
  <2>6. CASE Keys!Acquire(c)
    BY <1>1, <2>3, <2>6 DEF Keys!Acquire, Keys!FoundRefreshed, Keys!StartFetch
  <2>7. CASE Keys!Serve(c)
    BY <2>7 DEF Keys!Serve
  <2>8. CASE Keys!FetchEnds(c)
    BY <2>1, <2>3, <2>8 DEF Keys!FetchEnds, Keys!FetchSucceeds, Keys!FetchFails
  <2>9. CASE Keys!Drop(c)
    BY <1>1, <2>9 DEF Keys!Drop, Keys!Finish
  <2> QED
    BY <1>2, <2>4, <2>5, <2>6, <2>7, <2>8, <2>9 DEF OtherSteps
<1>3. CASE World
  BY <1>3 DEF World, Keys!Publish, Keys!Tick, Keys!callVars
<1> QED
  BY <1>2, <1>3

-----------------------------------------------------------------------------
(* GuardCheck.                                                             *)
(*                                                                         *)
(* A request is verifying a token of ours, or racing, or neither.          *)
PhaseInv ==
  /\ phase = "ours" <=> pc[Me] # "idle"
  /\ phase \in {"new", "ours"} => arms = {}
  /\ phase = "race" => arms # {} /\ Race!Undecided
  /\ arms # {} => request.provider

(* The race has both arms or has not begun, a switched-off direct arm has  *)
(* answered, and what the loop has collected are failures.                 *)
RaceInv ==
  /\ arms \in {{}, BothArms}
  /\ arms = {} => /\ failed = {} /\ ~minted /\ Race!Undecided
                  /\ elapsed = 0
  /\ \A a \in failed : answer[a] \in Race!ArmFailure
  /\ arms # {} /\ Race!Undecided => failed # arms
  /\ arms # {} /\ ~project => answer[Userinfo] = "Unavailable"
  /\ answer[Exchange] = "Invalid" /\ request.route # "authorize" => ~minted

(* What a decided race rests on.                                           *)
VerdictInv ==
  /\ outcome.kind = "Unauthenticated" => \A a \in arms : answer[a] = "Invalid"
  /\ outcome.kind = "Degraded" =>
       /\ \A a \in arms : answer[a] # "Ok"
       /\ (\A a \in arms : answer[a] # "Running") \/ elapsed = Deadline

(* What the answer rests on: the race, or the token of ours alone.         *)
AnswerInv ==
  /\ phase = "replied" <=> response # NoResponse
  /\ phase = "replied" =>
       /\ response.status = 401 => response.outcome \in {"Anonymous", "Unauthenticated"}
       /\ response.status = 503 <=> response.outcome = "Degraded"
       /\ arms # {} => /\ response.outcome = outcome.kind
                       /\ response.outcome \notin {"Anonymous", "Pending"}
       /\ arms = {} /\ response.outcome = "Unauthenticated" =>
            ~request.provider /\ ours = "Invalid"

MyTypes ==
  /\ project \in BOOLEAN
  /\ phase \in {"new", "ours", "race", "replied", "gone"}
  /\ request \in Request /\ ours \in Ours /\ minted \in BOOLEAN
  /\ machine \in SUBSET {SharedAuth, Exchange} /\ response \in Response

IInv ==
  /\ KeyInv /\ Race!TypeOK /\ MyTypes
  /\ PhaseInv /\ RaceInv /\ VerdictInv /\ AnswerInv
-----------------------------------------------------------------------------
LEMMA InitIInv == Init => IInv
<1> SUFFICES ASSUME Init PROVE IInv
  OBVIOUS
<1>1. KeyInv /\ pc[Me] = "idle"
  BY KeyInvInit DEF Init, Keys!Init, Everyone
<1>3. Race!TypeOK
  BY DEF Init, Race!Init, Race!TypeOK, Race!Pending, Race!NotAuthenticated,
         Race!Outcome
<1>4. MyTypes
  BY DEF Init, MyTypes, NoRequest, Request, Route, NoResponse, Response, Ours
<1>5. PhaseInv /\ RaceInv
  BY <1>1 DEF Init, Race!Init, PhaseInv, RaceInv, Race!Undecided, BothArms
<1>6. VerdictInv /\ AnswerInv
  BY DEF Init, Race!Init, VerdictInv, AnswerInv, Race!Pending,
         Race!NotAuthenticated
<1> QED
  BY <1>1, <1>3, <1>4, <1>5, <1>6 DEF IInv

-----------------------------------------------------------------------------
(* An answer, and the code it is rendered as.                              *)
LEMMA AnsweredGives ==
  ASSUME NEW route \in Route,
         NEW kind \in {"Anonymous", "Authenticated", "Unauthenticated", "Degraded"},
         NEW sandboxed \in BOOLEAN, Answered(route, kind, sandboxed)
  PROVE  /\ phase' = "replied" /\ response' \in Response /\ response' # NoResponse
         /\ response'.outcome = kind
         /\ response'.status = 401 <=> kind \in {"Anonymous", "Unauthenticated"}
         /\ response'.status = 503 <=> kind = "Degraded"
<1> DEFINE s == Status(route, kind, sandboxed)
<1>1. /\ s \in {200, 401, 403, 503}
      /\ s = 401 <=> kind \in {"Anonymous", "Unauthenticated"}
      /\ s = 503 <=> kind = "Degraded"
  <2>1. CASE kind = "Authenticated" /\ sandboxed /\ route = "require"
    BY <2>1 DEF Status
  <2>2. CASE kind = "Authenticated" /\ ~(sandboxed /\ route = "require")
    BY <2>2 DEF Status
  <2>3. CASE kind \in {"Anonymous", "Unauthenticated"}
    BY <2>3 DEF Status
  <2>4. CASE kind = "Degraded"
    BY <2>4 DEF Status
  <2> QED
    BY <2>1, <2>2, <2>3, <2>4
<1> HIDE DEF s
<1>2. /\ phase' = "replied"
      /\ response' = [outcome |-> kind, sandboxed |-> sandboxed, status |-> s]
  BY DEF Answered, s
<1> QED
  BY <1>1, <1>2 DEF Response, NoResponse

(* What is answered without a race.                                        *)
LEMMA AnswerWithoutRace ==
  ASSUME arms = {}, UNCHANGED raceVars, NEW route \in Route, NEW sandboxed \in BOOLEAN,
         NEW kind \in {"Anonymous", "Authenticated", "Unauthenticated", "Degraded"},
         Answered(route, kind, sandboxed),
         kind = "Unauthenticated" => ~request'.provider /\ ours' = "Invalid"
  PROVE  AnswerInv' /\ response' \in Response /\ phase' = "replied" /\ arms' = {}
BY AnsweredGives DEF AnswerInv, raceVars

(* Both arms start: the direct one may be switched off.                    *)
LEMMA StartKeeps ==
  ASSUME IInv, arms = {}, phase \in {"new", "ours"}, StartRace,
         UNCHANGED <<project, minted>>, request'.provider, pc'[Me] = "idle"
  PROVE  /\ Race!TypeOK' /\ PhaseInv' /\ RaceInv' /\ VerdictInv' /\ AnswerInv'
         /\ phase' = "race" /\ response' = response
<1> USE DEF IInv, StartRace
<1>1. /\ answer'[Exchange] = "Running"
      /\ answer'[Userinfo] = IF project THEN "Running" ELSE "Unavailable"
      /\ answer' \in [BothArms -> {"Running"} \cup Race!ArmResult]
  BY DEF FirstAnswers, BothArms, Race!ArmResult, Race!ArmFailure
<1>2. failed = {} /\ Race!Undecided /\ elapsed = 0 /\ outcome = Race!Pending
  BY DEF RaceInv, Race!Undecided
<1>3. Race!TypeOK'
  BY <1>1, <1>2 DEF Race!TypeOK
<1>4. PhaseInv' /\ RaceInv'
  BY <1>1, <1>2 DEF PhaseInv, RaceInv, BothArms, Race!Undecided, Race!ArmFailure
<1>5. VerdictInv' /\ AnswerInv'
  BY <1>2 DEF VerdictInv, AnswerInv, Race!Pending, Race!NotAuthenticated
<1> QED
  BY <1>3, <1>4, <1>5

-----------------------------------------------------------------------------
LEMMA ReceiveStep ==
  ASSUME IInv, KeyInv', NEW r \in Request, Receive(r)
  PROVE  IInv'
<1>1. /\ phase = "new" /\ arms = {} /\ pc[Me] = "idle" /\ response = NoResponse
      /\ request' = r /\ UNCHANGED <<project, ours, minted, machine>> /\ r.route \in Route
  BY DEF Receive, IInv, PhaseInv, AnswerInv, Request
<1>2. CASE Answered(r.route, "Anonymous", FALSE) /\ UNCHANGED <<keyVars, raceVars>>
  <2>1. AnswerInv' /\ response' \in Response /\ phase' = "replied" /\ arms' = {}
    BY <1>1, <1>2, AnswerWithoutRace
  <2>2. Race!TypeOK' /\ VerdictInv'
    BY <1>2 DEF IInv, Race!TypeOK, VerdictInv, raceVars
  <2>3. MyTypes'
    BY <1>1, <2>1 DEF IInv, MyTypes
  <2>4. PhaseInv' /\ RaceInv'
    BY <1>1, <1>2, <2>1
       DEF IInv, PhaseInv, RaceInv, Race!Undecided, keyVars, raceVars
  <2> QED
    BY <2>1, <2>2, <2>3, <2>4 DEF IInv
<1>3. CASE /\ r.ore # NoToken /\ Keys!Begin(Me, r.ore) /\ phase' = "ours"
           /\ UNCHANGED <<raceVars, response>>
  <2>2. pc'[Me] = "read"
    BY <1>3, KeyTypes DEF Keys!Begin, IInv, Keys!TypeOK, Everyone
  <2>3. Race!TypeOK' /\ VerdictInv'
    BY <1>3 DEF IInv, Race!TypeOK, VerdictInv, raceVars
  <2>4. MyTypes'
    BY <1>1, <1>3 DEF IInv, MyTypes
  <2>5. PhaseInv' /\ RaceInv'
    BY <1>1, <1>3, <2>2 DEF IInv, PhaseInv, RaceInv, Race!Undecided, raceVars
  <2>6. AnswerInv'
    BY <1>1, <1>3 DEF IInv, AnswerInv
  <2> QED
    BY <2>2, <2>3, <2>4, <2>5, <2>6 DEF IInv
<1>4. CASE r.provider /\ StartRace /\ UNCHANGED keyVars
  <2>2. /\ Race!TypeOK' /\ PhaseInv' /\ RaceInv' /\ VerdictInv' /\ AnswerInv'
        /\ phase' = "race" /\ response' = response
    BY <1>1, <1>4, StartKeeps DEF keyVars
  <2>3. MyTypes'
    BY <1>1, <2>2 DEF IInv, MyTypes
  <2> QED
    BY <2>2, <2>3 DEF IInv
<1> QED
  BY <1>2, <1>3, <1>4 DEF Receive

LEMMA EnforcedType ==
  ASSUME NEW route, NEW sandboxed, NEW granted
  PROVE  /\ Enforced(route, sandboxed, granted) \in {"Ok", "Invalid"}
         /\ route # "authorize" => Enforced(route, sandboxed, granted) = "Ok"
BY DEF Enforced

LEMMA AfterOursStep ==
  ASSUME IInv, phase = "ours", KeyInv', pc'[Me] = "idle",
         NEW v \in Keys!Verified, NEW sandboxed \in BOOLEAN, AfterOurs(v, sandboxed),
         UNCHANGED <<project, request, minted>>
  PROVE  IInv'
<1>1. /\ arms = {} /\ response = NoResponse /\ request.route \in Route
      /\ ours' = v /\ ours' \in Ours /\ machine' \in SUBSET {SharedAuth, Exchange}
  BY DEF IInv, PhaseInv, AnswerInv, MyTypes, Request, AfterOurs, Ours
<1>2. ASSUME NEW kind \in {"Authenticated", "Unauthenticated", "Degraded"},
             NEW b \in BOOLEAN, Answered(request.route, kind, b), UNCHANGED raceVars,
             kind = "Unauthenticated" => ~request.provider /\ v = "Invalid"
      PROVE  IInv'
  <2>1. AnswerInv' /\ response' \in Response /\ phase' = "replied" /\ arms' = {}
    BY <1>1, <1>2, AnswerWithoutRace
  <2>2. Race!TypeOK' /\ VerdictInv'
    BY <1>2 DEF IInv, Race!TypeOK, VerdictInv, raceVars
  <2>3. MyTypes'
    BY <1>1, <2>1 DEF IInv, MyTypes
  <2>4. PhaseInv' /\ RaceInv'
    BY <1>1, <1>2, <2>1 DEF IInv, PhaseInv, RaceInv, Race!Undecided, raceVars
  <2> QED
    BY <2>1, <2>2, <2>3, <2>4 DEF IInv
<1>3. CASE v # "Ok" /\ request.provider /\ StartRace
  <2>1. /\ Race!TypeOK' /\ PhaseInv' /\ RaceInv' /\ VerdictInv' /\ AnswerInv'
        /\ phase' = "race" /\ response' = response
    BY <1>1, <1>3, StartKeeps
  <2>2. MyTypes'
    BY <1>1, <2>1 DEF IInv, MyTypes
  <2> QED
    BY <2>1, <2>2 DEF IInv
<1> QED
  BY <1>2, <1>3 DEF AfterOurs

LEMMA VerifyOursStep ==
  ASSUME IInv, KeyInv', VerifyOurs
  PROVE  IInv'
<1>1. /\ Proceeds /\ phase = "ours" /\ arms = {}
      /\ UNCHANGED <<project, request, minted>>
  BY VerifyProceeds DEF VerifyOurs, IInv, PhaseInv
<1>2. CASE returned' = NoReturn /\ UNCHANGED <<raceVars, phase, ours, machine, response>>
  <2>1. Race!TypeOK' /\ VerdictInv' /\ MyTypes'
    BY <1>1, <1>2 DEF IInv, Race!TypeOK, VerdictInv, MyTypes, raceVars
  <2>2. PhaseInv' /\ RaceInv' /\ AnswerInv'
    BY <1>1, <1>2
       DEF IInv, PhaseInv, RaceInv, AnswerInv, Race!Undecided, raceVars,
           Proceeds
  <2> QED
    BY <1>1, <2>1, <2>2 DEF IInv
<1>3. CASE returned' # NoReturn
  <2>1. pc'[Me] = "idle" /\ returned'.verdict \in Keys!Verified
    BY <1>1, <1>3 DEF Proceeds
  <2>2. CASE returned'.verdict # "Ok" /\ AfterOurs(returned'.verdict, FALSE)
    BY <1>1, <2>1, <2>2, AfterOursStep
  <2>3. CASE \E sandboxed, granted \in BOOLEAN :
               AfterOurs(Enforced(request.route, sandboxed, granted), sandboxed)
    <3>1. PICK sandboxed \in BOOLEAN, granted \in BOOLEAN :
                 AfterOurs(Enforced(request.route, sandboxed, granted), sandboxed)
      BY <2>3
    <3> DEFINE v == Enforced(request.route, sandboxed, granted)
    <3>2. v \in Keys!Verified /\ AfterOurs(v, sandboxed)
      BY <3>1, EnforcedType DEF Keys!Verified
    <3> HIDE DEF v
    <3> QED
      BY <1>1, <2>1, <3>2, AfterOursStep
  <2> QED
    BY <1>3, <2>2, <2>3 DEF VerifyOurs
<1> QED
  BY <1>2, <1>3 DEF VerifyOurs

-----------------------------------------------------------------------------
(* The arms.                                                               *)
LEMMA MintStep ==
  ASSUME IInv, KeyInv', ExchangeMints
  PROVE  IInv'
<1> USE DEF IInv, ExchangeMints
<1>1. Race!TypeOK' /\ VerdictInv'
  BY DEF Race!TypeOK, VerdictInv, raceVars
<1>2. MyTypes'
  BY DEF MyTypes
<1>3. PhaseInv' /\ AnswerInv'
  BY DEF PhaseInv, AnswerInv, Race!Undecided, keyVars, raceVars
<1>4. RaceInv'
  BY DEF PhaseInv, RaceInv, Race!Undecided, raceVars
<1> QED
  BY <1>1, <1>2, <1>3, <1>4

(* An arm says no by itself only if nothing was minted, and the policy     *)
(* says no on authorize only.                                              *)
LEMMA ResolveStep ==
  ASSUME IInv, KeyInv', NEW a \in BothArms, NEW v \in {"Ok", "Invalid", "Unavailable"},
         phase = "race", Race!Resolve(a, v),
         a = Exchange /\ v = "Invalid" /\ request.route # "authorize" => ~minted,
         machine' \in SUBSET {SharedAuth, Exchange},
         UNCHANGED <<keyVars, project, phase, request, ours, minted, response>>
  PROVE  IInv'
<1> USE DEF IInv, Race!Resolve
<1>1. MyTypes'
  BY DEF MyTypes
<1>2. Race!TypeOK'
  BY DEF Race!TypeOK, Race!ArmResult, Race!ArmFailure
<1>3. PhaseInv' /\ AnswerInv'
  BY DEF PhaseInv, AnswerInv, Race!Undecided, keyVars
<1>4. RaceInv'
  BY DEF RaceInv, PhaseInv, Race!TypeOK, Race!Undecided, Race!ArmFailure,
         BothArms
<1>5. VerdictInv'
  BY DEF VerdictInv, PhaseInv, Race!Undecided, Race!Pending,
         Race!NotAuthenticated
<1> QED
  BY <1>1, <1>2, <1>3, <1>4, <1>5

LEMMA ArmAnswersStep ==
  ASSUME IInv, KeyInv', NEW a \in BothArms, ArmAnswers(a)
  PROVE  IInv'
<1>1. /\ phase = "race" /\ machine \in SUBSET {SharedAuth, Exchange}
      /\ UNCHANGED <<keyVars, project, phase, request, ours, minted, response>>
  BY DEF ArmAnswers, IInv, MyTypes
<1>2. ASSUME NEW v \in Race!ArmFailure, MayAnswer(a, v), Race!Resolve(a, v),
             UNCHANGED machine
      PROVE  IInv'
  <2>1. v \in {"Ok", "Invalid", "Unavailable"}
    BY DEF Race!ArmFailure
  <2>2. a = Exchange /\ v = "Invalid" => ~minted
    BY <1>2 DEF MayAnswer
  <2> QED
    BY <1>1, <1>2, <2>1, <2>2, ResolveStep
<1>3. ASSUME NEW sandboxed \in BOOLEAN, NEW granted \in BOOLEAN,
             a = Userinfo => ~sandboxed,
             Race!Resolve(a, Enforced(request.route, sandboxed, granted)),
             machine' = IF sandboxed THEN machine \cup {a} ELSE machine
      PROVE  IInv'
  <2>1. machine' \in SUBSET {SharedAuth, Exchange}
    BY <1>1, <1>3 DEF BothArms
  <2> QED
    BY <1>1, <1>3, <2>1, EnforcedType, ResolveStep
<1> QED
  BY <1>2, <1>3 DEF ArmAnswers

-----------------------------------------------------------------------------
(* The race.                                                               *)
LEMMA PollTypes ==
  ASSUME IInv, phase = "race", Race!Poll
  PROVE  /\ Race!TypeOK' /\ UNCHANGED <<arms, answer, elapsed>>
         /\ \A a \in failed' : answer[a] \in Race!ArmFailure
         /\ outcome'.kind \in {"Pending", "Authenticated", "Unauthenticated", "Degraded"}
         /\ outcome' = Race!Pending <=> outcome'.kind = "Pending"
         /\ outcome' = Race!Pending => failed' # arms
         /\ VerdictInv'
<1>1. arms = BothArms /\ arms # {} /\ Race!Undecided
  BY DEF IInv, PhaseInv, RaceInv
<1> USE DEF IInv, Race!Undecided, Race!Pending, Race!NotAuthenticated
<1>2. ASSUME NEW a \in BothArms, Race!TakeSuccess(a)
      PROVE  /\ UNCHANGED <<arms, answer, elapsed, failed>>
             /\ outcome' = Race!AuthenticatedBy(a)
             /\ Race!AuthenticatedBy(a) \in Race!Outcome
             /\ outcome'.kind = "Authenticated"
  BY <1>2
     DEF Race!TakeSuccess, Race!AuthenticatedBy, Race!Outcome, ByArm, BothArms
<1>3. ASSUME NEW a \in BothArms, Race!TakeFailure(a)
      PROVE  /\ UNCHANGED <<arms, answer, elapsed>> /\ failed' = failed \cup {a}
             /\ a \in arms /\ answer[a] \in Race!ArmFailure
             /\ outcome' = IF failed' = arms THEN Race!VerdictOnFailures ELSE Race!Pending
             /\ Race!VerdictOnFailures \in Race!Outcome
             /\ Race!VerdictOnFailures.kind \in {"Unauthenticated", "Degraded"}
             /\ Race!VerdictOnFailures.kind = "Unauthenticated"
                  => \A b \in arms : answer[b] = "Invalid"
  BY <1>3 DEF Race!TakeFailure, Race!Ready, Race!VerdictOnFailures, Race!Outcome
<1>4. ASSUME Race!DeadlineExceeded
      PROVE  /\ UNCHANGED <<arms, answer, elapsed, failed>> /\ elapsed = Deadline
             /\ outcome' = Race!NotAuthenticated("Degraded")
             /\ outcome' \in Race!Outcome
             /\ \A a \in arms \ failed : answer[a] = "Running"
  BY <1>4 DEF Race!DeadlineExceeded, Race!Ready, Race!Outcome
<1>5. CASE \E a \in BothArms : Race!TakeSuccess(a)
  BY <1>1, <1>2, <1>5 DEF Race!TypeOK, RaceInv, VerdictInv
<1>6. CASE \E a \in BothArms : Race!TakeFailure(a)
  <2>1. PICK a \in BothArms : Race!TakeFailure(a)
    BY <1>6
  <2>2. \A b \in failed' : answer[b] \in Race!ArmFailure
    BY <1>3, <2>1 DEF RaceInv
  <2>3. Race!TypeOK'
    BY <1>3, <2>1 DEF Race!TypeOK, Race!Outcome
  <2>4. CASE failed' = arms
    BY <1>1, <1>3, <2>1, <2>2, <2>3, <2>4 DEF VerdictInv, Race!ArmFailure
  <2>5. CASE failed' # arms
    BY <1>1, <1>3, <2>1, <2>2, <2>3, <2>5 DEF VerdictInv
  <2> QED
    BY <2>4, <2>5
<1>7. CASE Race!DeadlineExceeded
  BY <1>1, <1>4, <1>7 DEF Race!TypeOK, RaceInv, VerdictInv, Race!ArmFailure
<1>8. CASE Race!NoArms
  BY <1>1, <1>8 DEF Race!NoArms
<1> QED
  BY <1>5, <1>6, <1>7, <1>8 DEF Race!Poll

LEMMA RacePollStep ==
  ASSUME IInv, KeyInv', RacePoll
  PROVE  IInv'
<1>1. /\ phase = "race" /\ arms = BothArms /\ arms # {} /\ response = NoResponse
      /\ request.provider /\ request.route \in Route
      /\ UNCHANGED <<keyVars, project, request, ours, minted, machine>>
  BY DEF RacePoll, IInv, PhaseInv, RaceInv, AnswerInv, MyTypes, Request
<1>2. /\ Race!TypeOK' /\ UNCHANGED <<arms, answer, elapsed>>
      /\ \A a \in failed' : answer[a] \in Race!ArmFailure
      /\ outcome'.kind \in {"Pending", "Authenticated", "Unauthenticated", "Degraded"}
      /\ outcome' = Race!Pending <=> outcome'.kind = "Pending"
      /\ outcome' = Race!Pending => failed' # arms
      /\ VerdictInv'
  BY <1>1, PollTypes DEF RacePoll
<1>4. RaceInv'
  BY <1>1, <1>2 DEF IInv, RaceInv, Race!Undecided, Race!Pending
<1>5. CASE outcome' = Race!Pending /\ UNCHANGED <<phase, response>>
  <2>1. MyTypes' /\ PhaseInv' /\ AnswerInv'
    BY <1>1, <1>2, <1>5
       DEF IInv, MyTypes, PhaseInv, AnswerInv, Race!Undecided, Race!Pending,
           keyVars
  <2> QED
    BY <1>2, <1>4, <2>1 DEF IInv
<1>6. CASE /\ outcome' # Race!Pending
           /\ Answered(request.route, outcome'.kind,
                       outcome'.authority = SharedAuth /\ Exchange \in machine)
  <2> DEFINE sandboxed == outcome'.authority = SharedAuth /\ Exchange \in machine
  <2>1. outcome'.kind \in {"Anonymous", "Authenticated", "Unauthenticated", "Degraded"}
        /\ sandboxed \in BOOLEAN /\ outcome'.kind # "Anonymous"
    BY <1>2, <1>6
  <2> HIDE DEF sandboxed
  <2>5. Answered(request.route, outcome'.kind, sandboxed)
    BY <1>6 DEF sandboxed
  <2>2. /\ phase' = "replied" /\ response' \in Response /\ response' # NoResponse
        /\ response'.outcome = outcome'.kind
        /\ response'.status = 401 <=> outcome'.kind \in {"Anonymous", "Unauthenticated"}
        /\ response'.status = 503 <=> outcome'.kind = "Degraded"
    BY <1>1, <2>1, <2>5, AnsweredGives
  <2>3. MyTypes' /\ PhaseInv'
    BY <1>1, <1>2, <2>2 DEF IInv, MyTypes, PhaseInv, keyVars
  <2>4. AnswerInv'
    BY <1>1, <1>2, <2>1, <2>2 DEF AnswerInv
  <2> QED
    BY <1>2, <1>4, <2>3, <2>4 DEF IInv
<1> QED
  BY <1>5, <1>6 DEF RacePoll, AfterRace

LEMMA RaceTickStep ==
  ASSUME IInv, KeyInv', RaceTick
  PROVE  IInv'
<1> USE DEF IInv, RaceTick, Race!Tick, myVars
<1>1. MyTypes'
  BY DEF MyTypes
<1>2. Race!TypeOK'
  BY DEF Race!TypeOK
<1>3. PhaseInv' /\ AnswerInv'
  BY DEF PhaseInv, AnswerInv, Race!Undecided, keyVars
<1>4. RaceInv' /\ VerdictInv'
  BY DEF PhaseInv, RaceInv, VerdictInv, Race!Undecided, Race!Pending,
         Race!NotAuthenticated
<1> QED
  BY <1>1, <1>2, <1>3, <1>4

-----------------------------------------------------------------------------
LEMMA AbandonStep ==
  ASSUME IInv, KeyInv', Abandon
  PROVE  IInv'
<1>1. /\ phase \in {"ours", "race"} /\ phase' = "gone"
      /\ UNCHANGED <<raceVars, project, request, ours, minted, machine, response>>
  BY DEF Abandon
<1>2. pc'[Me] = "idle"
  BY KeyTypes DEF Abandon, IInv, PhaseInv, Keys!TypeOK, Keys!Drop, Keys!Finish,
                  keyVars, Everyone
<1>3. Race!TypeOK' /\ VerdictInv' /\ MyTypes'
  BY <1>1 DEF IInv, Race!TypeOK, VerdictInv, MyTypes, raceVars
<1>4. PhaseInv' /\ RaceInv' /\ AnswerInv'
  BY <1>1, <1>2 DEF IInv, PhaseInv, RaceInv, AnswerInv, Race!Undecided, raceVars
<1> QED
  BY <1>2, <1>3, <1>4 DEF IInv

LEMMA MeanwhileStep ==
  ASSUME IInv, KeyInv', (\E c \in Others : OtherSteps(c)) \/ World
  PROVE  IInv'
<1>1. pc'[Me] = pc[Me] /\ UNCHANGED <<raceVars, project, myVars>>
  BY CallLeftAlone DEF OtherSteps, World, Meanwhile, IInv
<1>2. Race!TypeOK' /\ VerdictInv' /\ MyTypes'
  BY <1>1 DEF IInv, Race!TypeOK, VerdictInv, MyTypes, raceVars, myVars
<1>3. PhaseInv' /\ RaceInv' /\ AnswerInv'
  BY <1>1
     DEF IInv, PhaseInv, RaceInv, AnswerInv, Race!Undecided, raceVars, myVars
<1> QED
  BY <1>2, <1>3 DEF IInv

LEMMA IInvStep == IInv /\ [Next]_vars => IInv'
<1> SUFFICES ASSUME IInv, [Next]_vars PROVE IInv'
  OBVIOUS
<1>1. KeyInv'
  BY KeyInvStep DEF IInv
<1>2. CASE UNCHANGED vars
  <2>1. Race!TypeOK' /\ MyTypes'
    BY <1>2 DEF vars, raceVars, myVars, IInv, Race!TypeOK, MyTypes
  <2>2. PhaseInv' /\ RaceInv' /\ VerdictInv' /\ AnswerInv'
    BY <1>2
       DEF vars, keyVars, raceVars, myVars, IInv, PhaseInv, RaceInv, VerdictInv,
           AnswerInv, Race!Undecided
  <2> QED
    BY <1>1, <2>1, <2>2 DEF IInv
<1>3. CASE Next
  BY <1>1, <1>2, <1>3, ReceiveStep, VerifyOursStep, MintStep, ArmAnswersStep,
     RacePollStep, RaceTickStep, AbandonStep, MeanwhileStep
     DEF Next, Done
<1> QED
  BY <1>2, <1>3

LEMMA IInvHolds == Spec => []IInv
BY InitIInv, IInvStep, PTL DEF Spec

(* Every reachable state of a request is well typed; in particular it      *)
(* races only with a provider token and is answered once.                  *)
THEOREM TypeCorrect == Spec => []TypeOK
<1>1. IInv => TypeOK
  BY KeyTypes DEF IInv, MyTypes, PhaseInv, AnswerInv, TypeOK
<1> QED
  BY <1>1, IInvHolds, PTL

(* A 401 rests on a definite no of every authority that judged the request *)
(* last, and never follows an exchange that succeeded, unless the policy   *)
(* refused the identity (guard.rs 243-270, 300-313, authority.rs 373-376): *)
(* for any keys, any ttl and grace, and any deadline.                      *)
THEOREM RefusalCorrect == Spec => []RefusedOnEvidence
<1>1. IInv => RefusedOnEvidence
  <2> SUFFICES ASSUME IInv, Refused PROVE RefusedOnEvidence
    BY DEF RefusedOnEvidence
  <2>1. CASE arms = {}
    BY <2>1 DEF IInv, RaceInv, AnswerInv, Refused, RefusedOnEvidence
  <2>2. CASE arms # {}
    <3>1. arms = BothArms /\ response.outcome = "Unauthenticated" /\ request.provider
      BY <2>2 DEF IInv, PhaseInv, RaceInv, AnswerInv, Refused
    <3>2. \A a \in BothArms : answer[a] = "Invalid"
      BY <2>2, <3>1 DEF IInv, AnswerInv, VerdictInv, Refused
    <3>3. answer[Userinfo] = "Invalid" /\ answer[Exchange] = "Invalid"
      BY <3>2 DEF BothArms
    <3>4. project
      BY <2>2, <3>3 DEF IInv, RaceInv
    <3> QED
      BY <3>1, <3>2, <3>3, <3>4 DEF IInv, RaceInv, RefusedOnEvidence
  <2> QED
    BY <2>1, <2>2
<1> QED
  BY <1>1, IInvHolds, PTL

(* A request that raced is refused only when no arm runs any more, and     *)
(* left undecided while one runs only at the deadline; no arm that said    *)
(* Ok is passed over (guard.rs 452-456): for any deadline.                 *)
THEOREM GrantCorrect == Spec => []GrantNotMasked
<1>1. IInv => GrantNotMasked
  <2> SUFFICES ASSUME IInv, phase = "replied", arms # {}, response.status \in {401, 503}
               PROVE  /\ \A a \in arms : answer[a] # "Ok"
                      /\ \/ \A a \in arms : answer[a] # "Running"
                         \/ response.status = 503 /\ elapsed = Deadline
    BY DEF GrantNotMasked
  <2>1. response.outcome = outcome.kind /\ response.outcome # "Anonymous"
    BY DEF IInv, AnswerInv
  <2>2. CASE response.status = 401
    BY <2>1, <2>2 DEF IInv, AnswerInv, VerdictInv
  <2>3. CASE response.status = 503
    BY <2>1, <2>3 DEF IInv, AnswerInv, VerdictInv
  <2> QED
    BY <2>2, <2>3
<1> QED
  BY <1>1, IInvHolds, PTL

-----------------------------------------------------------------------------
(* What the two arms of a request come to, as AuthDecision states it: they *)
(* are the arms from the start, and answer nothing until the race begins.  *)
Decision ==
  INSTANCE AuthDecision WITH Arms <- BothArms, arms <- BothArms,
                             verdict <- outcome.kind
decisionVars == <<BothArms, answer, outcome.kind>>

StartInv ==
  arms = {} => answer = [a \in BothArms |-> "Running"] /\ Race!Undecided

LEMMA StartInvHolds == Spec => []StartInv
<1>1. Init => StartInv
  BY DEF Init, Race!Init, StartInv, Race!Undecided
<1>2. IInv /\ StartInv /\ [Next]_vars => StartInv'
  <2> SUFFICES ASSUME IInv, StartInv, [Next]_vars, arms' = {}
               PROVE  UNCHANGED <<arms, answer, outcome>>
    BY DEF StartInv, Race!Undecided
  <2>1. BothArms # {}
    BY DEF BothArms
  <2>2. ~ StartRace
    BY <2>1 DEF StartRace
  <2>3. CASE VerifyOurs
    BY <2>2, <2>3 DEF VerifyOurs, AfterOurs, raceVars
  <2>4. CASE \E r \in Request : Receive(r)
    BY <2>2, <2>4 DEF Receive, raceVars
  <2>5. CASE \E a \in BothArms : ArmAnswers(a)
    BY <2>5 DEF ArmAnswers, Race!Resolve
  <2>6. CASE RacePoll
    <3>1. phase = "race" /\ UNCHANGED arms
      BY <2>6, PollTypes DEF RacePoll
    <3> QED
      BY <3>1 DEF IInv, PhaseInv
  <2>7. CASE RaceTick
    BY <2>7 DEF RaceTick, Race!Tick
  <2>8. CASE ExchangeMints \/ Abandon \/ Meanwhile \/ Done \/ UNCHANGED vars
    BY <2>8 DEF ExchangeMints, Abandon, Meanwhile, Done, vars, raceVars
  <2> QED
    BY <2>3, <2>4, <2>5, <2>6, <2>7, <2>8 DEF Next, OtherSteps, World
<1> QED
  BY <1>1, <1>2, IInvHolds, PTL DEF Spec

(* The race begins: a direct arm that is switched off answers at once.     *)
LEMMA StartImplements ==
  ASSUME StartInv, arms = {}, project \in BOOLEAN, StartRace
  PROVE  Decision!Next \/ UNCHANGED decisionVars
<1>1. /\ answer = [a \in BothArms |-> "Running"] /\ outcome.kind = "Pending"
      /\ answer' = FirstAnswers /\ UNCHANGED outcome
  BY DEF StartInv, StartRace, Race!Undecided, Race!Pending,
         Race!NotAuthenticated
<1>2. CASE project
  BY <1>1, <1>2 DEF FirstAnswers, decisionVars
<1>3. CASE ~project
  <2>1. answer' = [answer EXCEPT ![Userinfo] = "Unavailable"]
    BY <1>1, <1>3 DEF FirstAnswers
  <2>2. Decision!Arrive(Userinfo, "Unavailable")
    BY <1>1, <2>1 DEF Decision!Arrive, BothArms
  <2> QED
    BY <2>2 DEF Decision!Next, Decision!ArmAnswer, Decision!ArmFailure, BothArms
<1> QED
  BY <1>2, <1>3

(* A poll of the race decides as the answers justify, or only collects.    *)
LEMMA PollImplements ==
  ASSUME IInv, RacePoll
  PROVE  Decision!Next \/ UNCHANGED decisionVars
<1>1. /\ phase = "race" /\ Race!Poll /\ arms = BothArms
      /\ outcome.kind = "Pending"
      /\ UNCHANGED <<arms, answer>>
      /\ \A a \in failed' : answer[a] \in Race!ArmFailure
      /\ outcome' = Race!Pending <=> outcome'.kind = "Pending"
  BY PollTypes
     DEF RacePoll, IInv, PhaseInv, RaceInv, Race!Undecided, Race!Pending,
         Race!NotAuthenticated
<1>2. ASSUME NEW v \in {"Authenticated", "Unauthenticated", "Degraded"},
             Decision!Justified(v), outcome'.kind = v
      PROVE  Decision!Next
  <2>1. Decision!Decide(v)
    BY <1>1, <1>2 DEF Decision!Decide
  <2> QED
    BY <2>1 DEF Decision!Next, Decision!Verdict
<1>3. ASSUME NEW a \in BothArms, Race!TakeSuccess(a)
      PROVE  Decision!Next
  <2>1. outcome'.kind = "Authenticated" /\ answer[a] = "Ok"
    BY <1>3 DEF Race!TakeSuccess, Race!AuthenticatedBy
  <2>2. Decision!Justified("Authenticated")
    BY <2>1 DEF Decision!Justified
  <2> QED
    BY <1>2, <2>1, <2>2
<1>4. ASSUME NEW a \in BothArms, Race!TakeFailure(a)
      PROVE  Decision!Next \/ UNCHANGED decisionVars
  <2>1. CASE failed' # arms
    BY <1>1, <1>4, <2>1
       DEF Race!TakeFailure, Race!Pending, Race!NotAuthenticated, decisionVars
  <2>2. CASE failed' = arms
    <3>1. outcome' = Race!VerdictOnFailures
      BY <1>4, <2>2 DEF Race!TakeFailure
    <3>2. \A b \in BothArms : answer[b] \in {"Invalid", "Unavailable"}
      BY <1>1, <2>2 DEF Race!ArmFailure
    <3>3. CASE \A b \in arms : answer[b] = "Invalid"
      <4>1. outcome'.kind = "Unauthenticated"
        BY <1>1, <3>1, <3>3
           DEF Race!VerdictOnFailures, Race!NotAuthenticated
      <4>2. Decision!Justified("Unauthenticated")
        BY <1>1, <3>3 DEF Decision!Justified, BothArms
      <4> QED
        BY <1>2, <4>1, <4>2
    <3>4. CASE ~ \A b \in arms : answer[b] = "Invalid"
      <4>1. outcome'.kind = "Degraded"
        BY <1>1, <3>1, <3>4
           DEF Race!VerdictOnFailures, Race!NotAuthenticated
      <4>2. Decision!Justified("Degraded")
        BY <1>1, <3>2, <3>4 DEF Decision!Justified
      <4> QED
        BY <1>2, <4>1, <4>2
    <3> QED
      BY <3>3, <3>4
  <2> QED
    BY <2>1, <2>2
<1>5. CASE Race!DeadlineExceeded
  <2>1. /\ outcome'.kind = "Degraded"
        /\ \A a \in BothArms \ failed : answer[a] = "Running"
    BY <1>1, <1>5
       DEF Race!DeadlineExceeded, Race!Ready, Race!NotAuthenticated
  <2>2. PICK a \in BothArms : a \notin failed
    BY <1>1, <1>5
       DEF IInv, Race!TypeOK, PhaseInv, RaceInv, Race!DeadlineExceeded
  <2>3. \A b \in BothArms : answer[b] # "Ok"
    BY <2>1 DEF IInv, RaceInv, Race!ArmFailure
  <2>4. Decision!Justified("Degraded")
    BY <2>1, <2>2, <2>3 DEF Decision!Justified
  <2> QED
    BY <1>2, <2>1, <2>4
<1>6. ~Race!NoArms
  BY <1>1 DEF Race!NoArms, BothArms
<1> QED
  BY <1>1, <1>3, <1>4, <1>5, <1>6 DEF Race!Poll

LEMMA ArmImplements ==
  ASSUME IInv, NEW a \in BothArms, ArmAnswers(a)
  PROVE  Decision!Next
<1>1. PICK v \in {"Ok", "Invalid", "Unavailable"} : Race!Resolve(a, v)
  BY EnforcedType DEF ArmAnswers, Race!ArmFailure
<1>2. Decision!Arrive(a, v)
  BY <1>1
     DEF Race!Resolve, Race!Undecided, Race!Pending, Race!NotAuthenticated,
         Decision!Arrive
<1> QED
  BY <1>2 DEF Decision!Next, Decision!ArmAnswer, Decision!ArmFailure

LEMMA RequestStepImplements ==
  ASSUME IInv, StartInv, [Next]_vars
  PROVE  [Decision!Next]_decisionVars
<1>1. project \in BOOLEAN /\ (phase \in {"new", "ours"} => arms = {})
  BY DEF IInv, MyTypes, PhaseInv
<1>2. CASE \E r \in Request : Receive(r)
  BY <1>1, <1>2, StartImplements DEF Receive, raceVars, decisionVars
<1>3. CASE VerifyOurs
  BY <1>1, <1>3, StartImplements
     DEF VerifyOurs, AfterOurs, raceVars, decisionVars
<1>4. CASE \E a \in BothArms : ArmAnswers(a)
  BY <1>4, ArmImplements
<1>5. CASE RacePoll
  BY <1>5, PollImplements
<1>6. CASE RaceTick
  BY <1>6 DEF RaceTick, Race!Tick, decisionVars
<1>7. CASE ExchangeMints \/ Abandon \/ Meanwhile \/ Done \/ UNCHANGED vars
  BY <1>7
     DEF ExchangeMints, Abandon, Meanwhile, Done, vars, raceVars, decisionVars
<1> QED
  BY <1>2, <1>3, <1>4, <1>5, <1>6, <1>7 DEF Next, OtherSteps, World

(* The two arms of a request, policy, second stage and switched-off direct *)
(* arm included, decide as AuthDecision promises (guard.rs 243-270,        *)
(* race.rs rules 1 to 4): whatever the client, the other requests and the  *)
(* keys do.                                                                *)
THEOREM RequestImplementsDecision == Spec => Decision!Spec
<1>1. Init => Decision!Init
  BY DEF Init, Race!Init, Race!Pending, Race!NotAuthenticated, Decision!Init
<1>2. IInv /\ StartInv /\ [Next]_vars => [Decision!Next]_decisionVars
  BY RequestStepImplements
<1> QED
  BY <1>1, <1>2, IInvHolds, StartInvHolds, PTL
     DEF Spec, Decision!Spec, Decision!vars, decisionVars

-----------------------------------------------------------------------------
(* Every step keeps what KeySetProofs says of a step of GuardJwks.         *)
LEMMA KeySetStep ==
  ASSUME KeyInv, [Next]_vars
  PROVE  /\ [Keys!AcceptedInWindow]_(Keys!vars)
         /\ [Keys!UndecidedOnlyInOutage]_(Keys!vars)
         /\ cache'.servedAt >= cache.servedAt
<1>1. /\ Keys!AcceptedInWindow <=> KeyProofs!AcceptedInWindow
      /\ Keys!UndecidedOnlyInOutage <=> KeyProofs!UndecidedOnlyInOutage
      /\ UNCHANGED KeyProofs!vars => UNCHANGED Keys!vars
  BY DEF Keys!AcceptedInWindow, KeyProofs!AcceptedInWindow, Keys!Age,
         KeyProofs!Age, Keys!Never, KeyProofs!Never,
         Keys!UndecidedOnlyInOutage, KeyProofs!UndecidedOnlyInOutage,
         Keys!vars, Keys!envVars, Keys!callVars,
         KeyProofs!vars, KeyProofs!envVars, KeyProofs!callVars
<1>2. KeyProofs!IInv /\ [KeyProofs!Next]_(KeyProofs!vars)
  BY StepOfKeySet DEF KeyInv
<1>3. /\ [KeyProofs!AcceptedInWindow]_(KeyProofs!vars)
      /\ [KeyProofs!UndecidedOnlyInOutage]_(KeyProofs!vars)
      /\ cache'.servedAt >= cache.servedAt
  BY <1>2, KeyProofs!AcceptStep, KeyProofs!SeamlessStep, KeyProofs!CacheStep
<1> QED
  BY <1>1, <1>3

(* Whatever requests are beside it at the cache and the lock, fetching,    *)
(* forcing a fetch, failing in one or dropped in the middle of it, a       *)
(* request trusts a withdrawn key for one fetch plus jwks_ttl, or plus     *)
(* jwks_grace when a fetch of its own has failed (guard.rs 373-432).       *)
THEOREM RequestKeepsWindow == Spec => Keys!RevocationWindow
<1>1. KeyInv /\ [Next]_vars => [Keys!AcceptedInWindow]_(Keys!vars)
  BY KeySetStep
<1> QED
  BY <1>1, KeyInvHolds, PTL DEF Spec, Keys!RevocationWindow

(* A rotation alone never leaves a request undecided (guard.rs 351-369),   *)
(* whatever set another request stored meanwhile, late or forced.          *)
THEOREM RequestKeepsRotation == Spec => Keys!RotationIsSeamless
<1>1. KeyInv /\ [Next]_vars => [Keys!UndecidedOnlyInOutage]_(Keys!vars)
  BY KeySetStep
<1> QED
  BY <1>1, KeyInvHolds, PTL DEF Spec, Keys!RotationIsSeamless

(* The cache does not go back in time, whoever stores and however late its *)
(* answer arrives (guard.rs 387, 416-420).                                 *)
THEOREM RequestKeepsCache == Spec => Keys!CacheNeverRegresses
<1>1. KeyInv /\ [Next]_vars => [cache'.servedAt >= cache.servedAt]_(Keys!vars)
  BY KeySetStep
<1> QED
  BY <1>1, KeyInvHolds, PTL DEF Spec, Keys!CacheNeverRegresses

-----------------------------------------------------------------------------
(* From the key set to the answer.                                         *)
(*                                                                         *)
(* The token under verification is the one the request carries.            *)
TokenInv == phase = "ours" => token[Me] = request.ore

LEMMA TokenInvHolds == Spec => []TokenInv
<1>1. Init => TokenInv
  BY DEF Init, TokenInv
<1>2. IInv /\ IInv' /\ TokenInv /\ [Next]_vars => TokenInv'
  <2> SUFFICES ASSUME IInv, IInv', TokenInv, [Next]_vars, phase' = "ours"
               PROVE  token'[Me] = request'.ore
    BY DEF TokenInv
  <2>1. pc'[Me] # "idle" /\ KeyInv
    BY DEF IInv, PhaseInv
  <2>2. ASSUME NEW r \in Request, Receive(r)
        PROVE  token'[Me] = request'.ore
    BY <2>1, <2>2, KeyTypes
       DEF Receive, Answered, StartRace, Keys!Begin, Keys!TypeOK, Everyone
  <2>3. CASE VerifyOurs
    BY <2>1, <2>3, VerifyProceeds DEF VerifyOurs, TokenInv, Proceeds
  <2>4. CASE (\E c \in Others : OtherSteps(c)) \/ World
    BY <2>1, <2>4, CallLeftAlone
       DEF OtherSteps, World, Meanwhile, myVars, TokenInv
  <2>5. ASSUME \/ ExchangeMints \/ (\E a \in BothArms : ArmAnswers(a))
               \/ RacePoll \/ RaceTick \/ Abandon
        PROVE  FALSE
    BY <2>5
       DEF ExchangeMints, ArmAnswers, RacePoll, AfterRace, Answered, RaceTick,
           Abandon, myVars
  <2>6. CASE Done \/ UNCHANGED vars
    BY <2>6 DEF Done, vars, keyVars, myVars, TokenInv
  <2> QED
    BY <2>2, <2>3, <2>4, <2>5, <2>6 DEF Next
<1> QED
  BY <1>1, <1>2, IInvHolds, PTL DEF Spec

(* The answer on a token of ours says what verify_ours returned in that    *)
(* step, about the token of the request.                                   *)
LEMMA AnsweredByKeys ==
  ASSUME IInv, TokenInv, [Next]_vars, phase = "ours",
         response'.outcome \in {"Authenticated", "Degraded"}
  PROVE  /\ returned' # NoReturn /\ returned'.caller = Me
         /\ token[Me] = request.ore /\ ~ UNCHANGED Keys!vars
         /\ response'.outcome = "Authenticated" => returned'.verdict = "Ok"
         /\ response'.outcome = "Degraded" => returned'.verdict = "Unavailable"
<1>1. response = NoResponse /\ pc[Me] # "idle" /\ token[Me] = request.ore
  BY DEF IInv, PhaseInv, AnswerInv, TokenInv
<1>2. response' # response
  BY <1>1 DEF NoResponse
<1>3. VerifyOurs
  BY <1>2 DEF Next, Receive, ExchangeMints, ArmAnswers, RacePoll, RaceTick,
              Abandon, OtherSteps, World, Meanwhile, Done, vars, myVars
<1>4. Proceeds
  BY <1>3, VerifyProceeds DEF VerifyOurs, IInv
<1>5. /\ returned' # NoReturn /\ pc'[Me] = "idle" /\ returned'.caller = Me
      /\ returned'.verdict \in Keys!Verified
  BY <1>2, <1>3, <1>4 DEF VerifyOurs, Proceeds
<1>7. ASSUME NEW v, NEW sandboxed, AfterOurs(v, sandboxed),
             v \in {"Ok", "Invalid", "Unavailable"}
      PROVE  /\ response'.outcome = "Authenticated" => v = "Ok"
             /\ response'.outcome = "Degraded" => v = "Unavailable"
  <2>1. ~ StartRace
    BY <1>2 DEF StartRace
  <2>2. ASSUME NEW kind, NEW wide, Answered(request.route, kind, wide)
        PROVE  response'.outcome = kind
    BY <2>2 DEF Answered
  <2> QED
    BY <1>7, <2>1, <2>2 DEF AfterOurs
<1>8. /\ response'.outcome = "Authenticated" => returned'.verdict = "Ok"
      /\ response'.outcome = "Degraded" => returned'.verdict = "Unavailable"
  <2>1. CASE returned'.verdict # "Ok"
    <3>1. AfterOurs(returned'.verdict, FALSE)
      BY <1>3, <1>5, <2>1 DEF VerifyOurs
    <3> QED
      BY <1>5, <1>7, <3>1 DEF Keys!Verified
  <2>2. CASE returned'.verdict = "Ok"
    <3>1. PICK sandboxed \in BOOLEAN, granted \in BOOLEAN :
            AfterOurs(Enforced(request.route, sandboxed, granted), sandboxed)
      BY <1>3, <1>5, <2>2 DEF VerifyOurs
    <3>2. Enforced(request.route, sandboxed, granted) \in {"Ok", "Invalid"}
      BY EnforcedType
    <3>3. response'.outcome # "Degraded"
      BY <1>7, <3>1, <3>2
    <3> QED
      BY <2>2, <3>3
  <2> QED
    BY <2>1, <2>2
<1> QED
  BY <1>1, <1>5, <1>8 DEF Keys!vars, Keys!callVars

(* Whoever is let in on a token of ours: its key was published at most one *)
(* fetch plus jwks_ttl ago, or plus jwks_grace in an outage.               *)
LetInOnLiveKey ==
  LET kid == request.ore.kid IN
  phase = "ours" /\ response'.outcome = "Authenticated" /\ pinned = NoPin =>
    /\ lastSeen[kid] # Keys!Never
    /\ \/ Keys!Age(kid) <= ArmTimeout
       \/ Keys!Age(kid) < ArmTimeout + Ttl
       \/ returned'.outage /\ Keys!Age(kid) < ArmTimeout + Grace

(* A 503 on a token of ours alone, whose key was published all along,      *)
(* means that a fetch of this request failed.                              *)
UndecidedInOutage ==
  phase = "ours" /\ response'.outcome = "Degraded" /\ pinned = NoPin /\ steady[Me]
    => returned'.outage

(* From the authority's key set to the 200: check lets nobody in on a key  *)
(* withdrawn for longer than the window (guard.rs 204-241, 373-432).       *)
THEOREM LetInCorrect == Spec => [][LetInOnLiveKey]_vars
<1>1. /\ IInv /\ TokenInv /\ KeyInv /\ [Next]_vars
      => [LetInOnLiveKey]_vars
  <2> SUFFICES ASSUME IInv, TokenInv, KeyInv, [Next]_vars,
                      phase = "ours", response'.outcome = "Authenticated"
               PROVE  LetInOnLiveKey
    BY DEF LetInOnLiveKey
  <2>1. Keys!AcceptedInWindow
    BY KeySetStep, AnsweredByKeys
  <2> QED
    BY <2>1, AnsweredByKeys DEF Keys!AcceptedInWindow, LetInOnLiveKey
<1> QED
  BY <1>1, IInvHolds, TokenInvHolds, KeyInvHolds, PTL DEF Spec

(* From a rotation to the 503: none (guard.rs 351-369, 262-270).           *)
THEOREM UndecidedCorrect == Spec => [][UndecidedInOutage]_vars
<1>1. /\ IInv /\ TokenInv /\ KeyInv /\ [Next]_vars
      => [UndecidedInOutage]_vars
  <2> SUFFICES ASSUME IInv, TokenInv, KeyInv, [Next]_vars,
                      phase = "ours", response'.outcome = "Degraded"
               PROVE  UndecidedInOutage
    BY DEF UndecidedInOutage
  <2>1. Keys!UndecidedOnlyInOutage
    BY KeySetStep, AnsweredByKeys
  <2> QED
    BY <2>1, AnsweredByKeys DEF Keys!UndecidedOnlyInOutage, UndecidedInOutage
<1> QED
  BY <1>1, IInvHolds, TokenInvHolds, KeyInvHolds, PTL DEF Spec

-----------------------------------------------------------------------------
(* What an answer stands for.                                              *)
(*                                                                         *)
(* A verdict of AuthDecision is justified by the answers it was given on,  *)
(* and stays so: no answer is added once there is one.                     *)
LEMMA VerdictJustified ==
  Decision!Spec => [](outcome.kind # "Pending" => Decision!Justified(outcome.kind))
<1> DEFINE J == outcome.kind # "Pending" => Decision!Justified(outcome.kind)
<1>1. Decision!Init => J
  BY DEF Decision!Init
<1>2. J /\ [Decision!Next]_decisionVars => J'
  BY DEF Decision!Next, Decision!Arrive, Decision!Decide, Decision!Justified,
         decisionVars
<1> QED
  BY <1>1, <1>2, PTL DEF Decision!Spec, Decision!vars, decisionVars

(* The answer of a request that raced is the verdict that the answers of   *)
(* its arms justify, a yes included (guard.rs 243-270, race.rs rules 1 to  *)
(* 4): nothing between the race and the caller changes it.                 *)
AnswerJustified ==
  phase = "replied" /\ arms # {} => Decision!Justified(response.outcome)

THEOREM AnswerCorrect == Spec => []AnswerJustified
<1>1. /\ IInv /\ (outcome.kind # "Pending" => Decision!Justified(outcome.kind))
      => AnswerJustified
  BY DEF IInv, AnswerInv, MyTypes, Response, NoResponse, AnswerJustified
<1> QED
  BY <1>1, IInvHolds, VerdictJustified, RequestImplementsDecision, PTL

(* A token of ours that is alone decides by itself: what verify_ours and   *)
(* the policy made of it is the answer (guard.rs 217-241, 258-270).        *)
LoneTokenDecides ==
  phase = "replied" /\ request.ore # NoToken /\ ~request.provider =>
    \/ ours = "Ok" /\ response.outcome = "Authenticated"
    \/ ours = "Invalid" /\ response.outcome = "Unauthenticated"
    \/ ours = "Unavailable" /\ response.outcome = "Degraded"

(* A machine is never let into a human page or through authorize (guard.rs *)
(* 108-111, 452-456), whichever authority vouches for it first and         *)
(* whatever the other one said.                                            *)
MachinesKeptOut ==
  phase = "replied" /\ response.status = 200 /\ request.route # "require_any"
    => ~response.sandboxed

(* A session that carries a cred is a no on authorize, and shared-auth     *)
(* wins only with a session it has said yes to.                            *)
WinnerInv ==
  /\ phase \in {"new", "ours"} => machine = {}
  /\ arms # {} /\ request.route = "authorize" /\ Exchange \in machine =>
       answer[Exchange] = "Invalid"
  /\ outcome.kind = "Authenticated" /\ outcome.authority = SharedAuth =>
       answer[Exchange] = "Ok"

WhoInv == LoneTokenDecides /\ MachinesKeptOut /\ WinnerInv

LEMMA AnsweredOk ==
  ASSUME NEW route \in Route,
         NEW kind \in {"Anonymous", "Authenticated", "Unauthenticated", "Degraded"},
         NEW sandboxed \in BOOLEAN, Answered(route, kind, sandboxed)
  PROVE  /\ phase' = "replied" /\ response'.outcome = kind
         /\ response'.sandboxed = sandboxed
         /\ response'.status = 200 =>
              kind = "Authenticated" /\ ~(sandboxed /\ route = "require")
<1>1. Status(route, kind, sandboxed) = 200 =>
        kind = "Authenticated" /\ ~(sandboxed /\ route = "require")
  <2>1. CASE kind = "Authenticated" /\ sandboxed /\ route = "require"
    BY <2>1 DEF Status
  <2>2. CASE kind \in {"Anonymous", "Unauthenticated"}
    BY <2>2 DEF Status
  <2>3. CASE kind = "Degraded"
    BY <2>3 DEF Status
  <2> QED
    BY <2>1, <2>2, <2>3
<1> QED
  BY <1>1 DEF Answered

(* verify_ours waits, or it has returned and the policy has had its say.   *)
LEMMA VerifyOursEnds ==
  ASSUME IInv, VerifyOurs
  PROVE  \/ UNCHANGED <<raceVars, phase, request, ours, machine, response>>
         \/ \E v \in Keys!Verified, sandboxed \in BOOLEAN :
              /\ AfterOurs(v, sandboxed)
              /\ request.route = "authorize" /\ v = "Ok" => ~sandboxed
<1>1. Proceeds /\ UNCHANGED request
  BY VerifyProceeds DEF VerifyOurs, IInv
<1>2. CASE returned' = NoReturn
  BY <1>1, <1>2 DEF VerifyOurs
<1>3. CASE returned' # NoReturn /\ returned'.verdict # "Ok"
  <2>1. returned'.verdict \in Keys!Verified /\ AfterOurs(returned'.verdict, FALSE)
    BY <1>1, <1>3 DEF VerifyOurs, Proceeds
  <2> QED
    BY <2>1
<1>4. CASE returned' # NoReturn /\ returned'.verdict = "Ok"
  <2>1. PICK sandboxed \in BOOLEAN, granted \in BOOLEAN :
               AfterOurs(Enforced(request.route, sandboxed, granted), sandboxed)
    BY <1>4 DEF VerifyOurs
  <2> DEFINE v == Enforced(request.route, sandboxed, granted)
  <2>2. v \in Keys!Verified /\ AfterOurs(v, sandboxed)
    BY <2>1, EnforcedType DEF Keys!Verified
  <2>3. request.route = "authorize" /\ v = "Ok" => ~sandboxed
    BY DEF Enforced
  <2> HIDE DEF v
  <2> QED
    BY <2>2, <2>3
<1> QED
  BY <1>2, <1>3, <1>4

LEMMA WhoReceive ==
  ASSUME IInv, WhoInv, NEW r \in Request, Receive(r)
  PROVE  WhoInv'
<1>1. phase = "new" /\ request' = r /\ UNCHANGED machine /\ r.route \in Route
  BY DEF Receive, Request
<1>2. arms = {} /\ machine = {} /\ outcome.kind = "Pending"
  BY <1>1 DEF IInv, PhaseInv, RaceInv, WhoInv, WinnerInv, Race!Undecided,
              Race!Pending, Race!NotAuthenticated
<1>3. outcome' = outcome
  BY DEF Receive, StartRace, raceVars
<1>4. WinnerInv'
  BY <1>1, <1>2, <1>3 DEF WinnerInv
<1>5. CASE r.ore = NoToken /\ Answered(r.route, "Anonymous", FALSE)
  BY <1>1, <1>4, <1>5, AnsweredOk DEF WhoInv, LoneTokenDecides, MachinesKeptOut
<1>6. CASE phase' \in {"ours", "race"}
  BY <1>4, <1>6 DEF WhoInv, LoneTokenDecides, MachinesKeptOut
<1> QED
  BY <1>5, <1>6 DEF Receive, StartRace

LEMMA WhoVerifyOurs ==
  ASSUME IInv, WhoInv, VerifyOurs
  PROVE  WhoInv'
<1>1. /\ phase = "ours" /\ arms = {} /\ outcome.kind = "Pending"
      /\ machine = {} /\ request.route \in Route /\ UNCHANGED request
  BY DEF VerifyOurs, IInv, PhaseInv, RaceInv, MyTypes, Request, WhoInv,
         WinnerInv, Race!Undecided, Race!Pending, Race!NotAuthenticated
<1>2. CASE UNCHANGED <<raceVars, phase, request, ours, machine, response>>
  BY <1>1, <1>2
     DEF WhoInv, WinnerInv, LoneTokenDecides, MachinesKeptOut, raceVars
<1>3. ASSUME NEW v \in Keys!Verified, NEW sandboxed \in BOOLEAN,
             AfterOurs(v, sandboxed),
             request.route = "authorize" /\ v = "Ok" => ~sandboxed
      PROVE  WhoInv'
  <2>1. CASE v = "Ok" /\ Answered(request.route, "Authenticated", sandboxed)
             /\ UNCHANGED raceVars
    BY <1>1, <1>3, <2>1, AnsweredOk
       DEF AfterOurs, WhoInv, WinnerInv, LoneTokenDecides, MachinesKeptOut,
           Route, raceVars
  <2>2. CASE v # "Ok" /\ StartRace
    BY <1>1, <1>3, <2>2
       DEF AfterOurs, StartRace, WhoInv, WinnerInv, LoneTokenDecides,
           MachinesKeptOut
  <2>3. CASE /\ v # "Ok" /\ UNCHANGED raceVars
             /\ Answered(request.route,
                         IF v = "Invalid" THEN "Unauthenticated" ELSE "Degraded",
                         FALSE)
    BY <1>1, <1>3, <2>3, AnsweredOk
       DEF AfterOurs, WhoInv, WinnerInv, LoneTokenDecides, MachinesKeptOut,
           raceVars, Keys!Verified
  <2> QED
    BY <1>3, <2>1, <2>2, <2>3 DEF AfterOurs
<1> QED
  BY <1>2, <1>3, VerifyOursEnds

LEMMA WhoArmAnswers ==
  ASSUME IInv, WhoInv, NEW a \in BothArms, ArmAnswers(a)
  PROVE  WhoInv'
<1>1. /\ phase = "race" /\ UNCHANGED <<phase, request, ours, response, outcome>>
      /\ outcome.kind = "Pending" /\ answer[a] = "Running"
      /\ Exchange \in DOMAIN answer
  BY DEF ArmAnswers, Race!Resolve, Race!Undecided, Race!Pending,
         Race!NotAuthenticated, IInv, Race!TypeOK, BothArms
<1>2. LoneTokenDecides' /\ MachinesKeptOut'
  BY <1>1 DEF LoneTokenDecides, MachinesKeptOut
<1>3. ASSUME request.route = "authorize", Exchange \in machine', arms # {}
      PROVE  answer'[Exchange] = "Invalid"
  <2>1. CASE UNCHANGED machine
    BY <1>1, <1>3, <2>1 DEF ArmAnswers, Race!Resolve, WhoInv, WinnerInv
  <2>2. ASSUME NEW sandboxed \in BOOLEAN, NEW granted \in BOOLEAN,
               a = Userinfo => ~sandboxed,
               Race!Resolve(a, Enforced(request.route, sandboxed, granted)),
               machine' = IF sandboxed THEN machine \cup {a} ELSE machine
        PROVE  answer'[Exchange] = "Invalid"
    BY <1>1, <1>3, <2>2 DEF Enforced, Race!Resolve, WhoInv, WinnerInv, BothArms
  <2> QED
    BY <2>1, <2>2 DEF ArmAnswers
<1>4. WinnerInv'
  BY <1>1, <1>3 DEF WinnerInv, ArmAnswers, Race!Resolve
<1> QED
  BY <1>2, <1>4 DEF WhoInv

LEMMA WhoRacePoll ==
  ASSUME IInv, WhoInv, RacePoll
  PROVE  WhoInv'
<1>1. /\ phase = "race" /\ arms = BothArms /\ arms # {} /\ request.provider
      /\ request.route \in Route
      /\ UNCHANGED <<request, machine, answer, arms>>
      /\ outcome'.kind \in {"Pending", "Authenticated", "Unauthenticated", "Degraded"}
      /\ outcome' = Race!Pending <=> outcome'.kind = "Pending"
  BY PollTypes DEF RacePoll, IInv, PhaseInv, RaceInv, MyTypes, Request
<1>2. outcome'.kind = "Authenticated" /\ outcome'.authority = SharedAuth =>
        answer[Exchange] = "Ok"
  BY <1>1
     DEF RacePoll, Race!Poll, Race!NoArms, Race!TakeSuccess, Race!TakeFailure,
         Race!DeadlineExceeded, Race!AuthenticatedBy, Race!VerdictOnFailures,
         Race!NotAuthenticated, Race!Pending, ByArm, BothArms
<1>3. WinnerInv' /\ phase' # "new" /\ phase' # "ours"
  BY <1>1, <1>2 DEF WinnerInv, WhoInv, RacePoll, AfterRace, Answered
<1>4. LoneTokenDecides'
  BY <1>1 DEF LoneTokenDecides
<1>5. MachinesKeptOut'
  <2>1. CASE UNCHANGED phase
    BY <1>1, <2>1 DEF MachinesKeptOut
  <2> DEFINE b == outcome'.authority = SharedAuth /\ Exchange \in machine
  <2>2. CASE /\ outcome' # Race!Pending
             /\ Answered(request.route, outcome'.kind, b)
    <3>1. b \in BOOLEAN
      OBVIOUS
    <3> HIDE DEF b
    <3>2. /\ response'.sandboxed = b
          /\ response'.status = 200 =>
               outcome'.kind = "Authenticated" /\ ~(b /\ request.route = "require")
      BY <1>1, <2>2, <3>1, AnsweredOk
    <3>3. b /\ request.route = "authorize" => outcome'.kind # "Authenticated"
      BY <1>1, <1>2 DEF b, WhoInv, WinnerInv
    <3> QED
      BY <1>1, <3>2, <3>3 DEF MachinesKeptOut, Route
  <2> QED
    BY <2>1, <2>2 DEF RacePoll, AfterRace
<1> QED
  BY <1>3, <1>4, <1>5 DEF WhoInv

LEMMA WhoInvHolds == Spec => []WhoInv
<1>1. Init => WhoInv
  BY DEF Init, Race!Init, WhoInv, WinnerInv, LoneTokenDecides, MachinesKeptOut,
         Race!Pending, Race!NotAuthenticated
<1>2. IInv /\ WhoInv /\ [Next]_vars => WhoInv'
  <2> SUFFICES ASSUME IInv, WhoInv, [Next]_vars PROVE WhoInv'
    OBVIOUS
  <2>1. CASE Abandon
    BY <2>1
       DEF Abandon, raceVars, WhoInv, WinnerInv, LoneTokenDecides,
           MachinesKeptOut
  <2>2. CASE RaceTick
    BY <2>2
       DEF RaceTick, Race!Tick, myVars, WhoInv, WinnerInv, LoneTokenDecides,
           MachinesKeptOut
  <2>3. CASE ExchangeMints \/ Meanwhile \/ Done \/ UNCHANGED vars
    BY <2>3
       DEF ExchangeMints, Meanwhile, Done, vars, raceVars, myVars, WhoInv,
           WinnerInv, LoneTokenDecides, MachinesKeptOut
  <2> QED
    BY <2>1, <2>2, <2>3, WhoReceive, WhoVerifyOurs, WhoArmAnswers, WhoRacePoll
       DEF Next, OtherSteps, World
<1> QED
  BY <1>1, <1>2, IInvHolds, PTL DEF Spec

(* Of a token of ours alone the guard says what verify_ours and the policy *)
(* say of it: the step InnerReplies of SessionGuard takes it at that.      *)
THEOREM LoneTokenCorrect == Spec => []LoneTokenDecides
<1>1. WhoInv => LoneTokenDecides
  BY DEF WhoInv
<1> QED
  BY <1>1, WhoInvHolds, PTL

(* No interleaving of the arms, the policy and the deadline lets a machine *)
(* into a human page or through authorize.                                 *)
THEOREM MachinesCorrect == Spec => []MachinesKeptOut
<1>1. WhoInv => MachinesKeptOut
  BY DEF WhoInv
<1> QED
  BY <1>1, WhoInvHolds, PTL
=============================================================================
