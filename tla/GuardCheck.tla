----------------------------- MODULE GuardCheck ------------------------------
(***************************************************************************)
(* One request through the whole session guard: Guard::check with require  *)
(* and require_any, and AuthGuard::authorize, of langs/rust/src/guard.rs.  *)
(*                                                                         *)
(* The request of Me is followed from its credentials to its answer.  The  *)
(* module composes GuardJwks, where a token of ours is verified against    *)
(* the cached key set, and AuthRace, where a provider token is exchanged   *)
(* at shared-auth and shown to Supabase at once.  The requests of Others   *)
(* are followed through verify_ours alone: it is where they meet Me, at    *)
(* the cached key set and at the lock of its refresh.                      *)
(*                                                                         *)
(* The clock of the key set and the timer of the race are not              *)
(* synchronised: no code compares them.                                    *)
(***************************************************************************)
EXTENDS Integers

CONSTANTS
  NoCaller, NoToken, NoReturn, Kids, Pins, NoPin,
  Ttl, Grace, ArmTimeout, MaxTime,                \* see GuardJwks
  NoAuthority, Deadline,                          \* see AuthRace
  Me,                     \* the request that is followed
  Others,                 \* the requests that verify tokens of ours beside it
  OtherTokens,            \* the tokens these bring
  Exchange, Userinfo,     \* the two arms: POST /auth/exchange, GET /user
  SharedAuth, Supabase    \* their authorities

ASSUME ArmsAssumption == Exchange # Userinfo /\ SharedAuth # Supabase

VARIABLES
  now, published, lastSeen, pinned, cache, lock, pc, token, forced, fetchStart,
  reply, fetches, outage, steady, returned,       \* see GuardJwks
  arms, answer, failed, elapsed, outcome,         \* see AuthRace
  project,       \* is supabase_project configured?
  phase,         \* where check is
  request,       \* what the headers hold, and who asks for it
  ours,          \* what became of the token of ours
  minted,        \* has the exchange succeeded and minted a session?
  machine,       \* the sources whose identity carries a cred
  response       \* the answer

keyVars  == <<now, published, lastSeen, pinned, cache, lock, pc, token, forced,
              fetchStart, reply, fetches, outage, steady, returned>>
raceVars == <<arms, answer, failed, elapsed, outcome>>
myVars   == <<phase, request, ours, minted, machine, response>>
vars     == <<keyVars, raceVars, project, myVars>>

BothArms == {Exchange, Userinfo}
ByArm    == [a \in BothArms |-> IF a = Exchange THEN SharedAuth ELSE Supabase]

Everyone == {Me} \cup Others

Keys == INSTANCE GuardJwks WITH Callers <- Everyone
Race == INSTANCE AuthRace WITH
          Arms <- BothArms, Authority <- {SharedAuth, Supabase},
          AuthorityOf <- ByArm, Claimed <- ByArm

ASSUME PartsAssumption ==
  /\ Ttl \in Nat /\ Grace \in Nat /\ ArmTimeout \in Nat /\ MaxTime \in Nat
  /\ Me \notin Others /\ NoCaller \notin Everyone
  /\ OtherTokens \in SUBSET Keys!Token
  /\ NoToken \notin Keys!Token /\ NoReturn \notin Keys!Return
  /\ Pins \in SUBSET (SUBSET Kids) /\ NoPin \notin Pins
  /\ NoAuthority \notin {SharedAuth, Supabase} /\ Deadline \in Nat

Route == {"require", "require_any", "authorize"}

(* After extraction: at most one token of ours and one provider token.     *)
Request == [ore : Keys!Token \cup {NoToken}, provider : BOOLEAN, route : Route]
NoRequest == [ore |-> NoToken, provider |-> FALSE, route |-> "require"]

(* What became of the token of ours, policy included.                      *)
Ours == {"not_asked"} \cup Keys!Verified

Response ==
  [outcome : {"Pending", "Anonymous", "Authenticated", "Unauthenticated",
              "Degraded"},
   sandboxed : BOOLEAN, status : {0, 200, 401, 403, 503}]
NoResponse == [outcome |-> "Pending", sandboxed |-> FALSE, status |-> 0]

TypeOK ==
  /\ Keys!TypeOK
  /\ Race!TypeOK
  /\ project \in BOOLEAN
  /\ phase \in {"new", "ours", "race", "replied", "gone"}
  /\ request \in Request
  /\ ours \in Ours
  /\ minted \in BOOLEAN
  /\ machine \in SUBSET {SharedAuth, Exchange}
  /\ response \in Response
  /\ arms # {} => phase \in {"race", "replied", "gone"}
  /\ phase = "replied" <=> response # NoResponse

Init ==
  /\ Keys!Init
  /\ Race!Init /\ arms = {}
  /\ project \in BOOLEAN
  /\ phase = "new"
  /\ request = NoRequest
  /\ ours = "not_asked"
  /\ minted = FALSE
  /\ machine = {}
  /\ response = NoResponse

-----------------------------------------------------------------------------
(* require, require_any: the limited page or 200.  A machine is turned     *)
(* away from human pages only.  (What callers of authorize make of its     *)
(* outcome is theirs; the same codes are used for it.)                     *)
Status(route, kind, sandboxed) ==
  CASE kind = "Authenticated" /\ sandboxed /\ route = "require" -> 403
    [] kind = "Authenticated" /\ ~(sandboxed /\ route = "require") -> 200
    [] kind \in {"Anonymous", "Unauthenticated"} -> 401
    [] kind = "Degraded" -> 503

Answered(route, kind, sandboxed) ==
  /\ phase' = "replied"
  /\ response' = [outcome |-> kind, sandboxed |-> sandboxed,
                  status |-> Status(route, kind, sandboxed)]

(* AccessPolicy::enforce, on authorize only: a machine or an identity that *)
(* no grant covers is a definite no.                                       *)
Enforced(route, sandboxed, granted) ==
  IF route = "authorize" /\ (sandboxed \/ ~granted) THEN "Invalid" ELSE "Ok"

(* The first poll of both arms: without a Supabase project the direct arm  *)
(* is switched off and answers at once that it cannot decide.              *)
FirstAnswers ==
  [a \in BothArms |-> IF a = Userinfo /\ ~project THEN "Unavailable"
                                                  ELSE "Running"]

StartRace ==
  /\ phase' = "race"
  /\ arms' = BothArms
  /\ answer' = FirstAnswers
  /\ UNCHANGED <<failed, elapsed, outcome, response>>

-----------------------------------------------------------------------------
(* Headers arrive.  AuthGuard exists only with both authorities configured *)
(* (is_enabled).                                                           *)
Receive(r) ==
  /\ phase = "new"
  /\ r.route = "authorize" => project
  /\ request' = r
  /\ \/ /\ r.ore = NoToken /\ ~r.provider
        /\ Answered(r.route, "Anonymous", FALSE)
        /\ UNCHANGED <<keyVars, raceVars>>
     \/ /\ r.ore # NoToken
        /\ Keys!Begin(Me, r.ore)
        /\ phase' = "ours"
        /\ UNCHANGED <<raceVars, response>>
     \/ /\ r.ore = NoToken /\ r.provider
        /\ StartRace
        /\ UNCHANGED keyVars
  /\ UNCHANGED <<project, ours, minted, machine>>

(* verify_ours returned: v is its verdict with the policy enforced on it,  *)
(* sandboxed whether the identity carries a cred.                          *)
AfterOurs(v, sandboxed) ==
  /\ ours' = v
  /\ machine' = IF v = "Ok" /\ sandboxed THEN {SharedAuth} ELSE {}
  /\ \/ /\ v = "Ok"
        /\ Answered(request.route, "Authenticated", sandboxed)
        /\ UNCHANGED raceVars
     \/ /\ v # "Ok" /\ request.provider
        /\ StartRace
     \/ /\ v # "Ok" /\ ~request.provider
        /\ Answered(request.route,
                    IF v = "Invalid" THEN "Unauthenticated" ELSE "Degraded",
                    FALSE)
        /\ UNCHANGED raceVars

(* A step of verify_ours; when it returns, check goes on without an await. *)
VerifyOurs ==
  /\ phase = "ours"
  /\ Keys!Read(Me) \/ Keys!Acquire(Me) \/ Keys!Serve(Me) \/ Keys!FetchEnds(Me)
  /\ \/ /\ returned' = NoReturn
        /\ UNCHANGED <<raceVars, phase, ours, machine, response>>
     \/ /\ returned' # NoReturn /\ returned'.verdict # "Ok"
        /\ AfterOurs(returned'.verdict, FALSE)
     \/ /\ returned' # NoReturn /\ returned'.verdict = "Ok"
        /\ \E sandboxed, granted \in BOOLEAN :
             AfterOurs(Enforced(request.route, sandboxed, granted), sandboxed)
  /\ UNCHANGED <<project, request, minted>>

-----------------------------------------------------------------------------
(* shared-auth accepts the provider token and mints a session, which the   *)
(* arm then introspects.                                                   *)
ExchangeMints ==
  /\ phase = "race" /\ Race!Undecided
  /\ answer[Exchange] = "Running" /\ ~minted
  /\ minted' = TRUE
  /\ UNCHANGED <<keyVars, raceVars, project, phase, request, ours, machine,
                 response>>

(* Mutant: a failed introspection counts against the credential.           *)
MayAnswerIncoherentIsInvalid(a, v) ==
  CASE v = "Unavailable" -> TRUE
    [] v = "Invalid"     -> TRUE
    [] v = "Ok"          -> a = Exchange => minted

(* What an arm can answer by itself: anything can be Unavailable; only the *)
(* exchange, never the introspection, can refuse; only the introspection   *)
(* or the user lookup can yield an identity.                               *)
MayAnswer(a, v) ==
  CASE v = "Unavailable" -> TRUE
    [] v = "Invalid"     -> a = Exchange => ~minted
    [] v = "Ok"          -> a = Exchange => minted

(* An arm answers.  The policy is enforced on its identity inside the arm. *)
(* Supabase's identities never carry a cred.                               *)
ArmAnswers(a) ==
  /\ phase = "race"
  /\ \/ \E v \in Race!ArmFailure :
          /\ MayAnswer(a, v)
          /\ Race!Resolve(a, v)
          /\ UNCHANGED machine
     \/ /\ MayAnswer(a, "Ok")
        /\ \E sandboxed, granted \in BOOLEAN :
             /\ a = Userinfo => ~sandboxed
             /\ Race!Resolve(a, Enforced(request.route, sandboxed, granted))
             /\ machine' = IF sandboxed THEN machine \cup {a} ELSE machine
  /\ UNCHANGED <<keyVars, project, phase, request, ours, minted, response>>

(* Mutant: the policy is left to the winner, after the race.               *)
AfterRaceThenPolicy ==
  LET refused == outcome'.kind = "Authenticated" /\ request.route = "authorize"
  IN  \/ outcome' = Race!Pending /\ UNCHANGED <<phase, response>>
      \/ /\ outcome' # Race!Pending
         /\ \E granted \in BOOLEAN :
              Answered(request.route,
                       IF refused /\ ~granted THEN "Unauthenticated"
                                              ELSE outcome'.kind,
                       /\ outcome'.authority = SharedAuth
                       /\ Exchange \in machine)

(* What the race decides is the answer.                                    *)
AfterRace ==
  \/ /\ outcome' = Race!Pending
     /\ UNCHANGED <<phase, response>>
  \/ /\ outcome' # Race!Pending
     /\ Answered(request.route, outcome'.kind,
                 outcome'.authority = SharedAuth /\ Exchange \in machine)

(* Mutant: the race has no deadline.                                       *)
RacePollForever ==
  /\ phase = "race"
  /\ \E a \in BothArms : Race!TakeSuccess(a) \/ Race!TakeFailure(a)
  /\ AfterRace
  /\ UNCHANGED <<keyVars, project, request, ours, minted, machine>>

RacePoll ==
  /\ phase = "race"
  /\ Race!Poll
  /\ AfterRace
  /\ UNCHANGED <<keyVars, project, request, ours, minted, machine>>

RaceTick ==
  /\ phase = "race"
  /\ Race!Tick
  /\ UNCHANGED <<keyVars, project, myVars>>

(* Mutant: the answer of a request that is gone is written all the same.   *)
AbandonAnswered ==
  /\ phase = "race"
  /\ phase' = "gone"
  /\ response' = [outcome |-> "Degraded", sandboxed |-> FALSE, status |-> 503]
  /\ UNCHANGED <<keyVars, raceVars, project, request, ours, minted, machine>>

(* The client goes away: everything this request has under way is dropped. *)
Abandon ==
  /\ phase \in {"ours", "race"}
  /\ phase' = "gone"
  /\ \/ phase = "ours" /\ Keys!Drop(Me)
     \/ phase = "race" /\ UNCHANGED keyVars
  /\ UNCHANGED <<raceVars, project, request, ours, minted, machine, response>>

(* What goes on around Me.  Once Me is past verify_ours nothing it does    *)
(* depends on it, and it is left out.                                      *)
Meanwhile ==
  /\ phase \in {"new", "ours"}
  /\ UNCHANGED <<raceVars, project, myVars>>

(* Another request takes a step of its verify_ours, or is dropped in it.   *)
OtherSteps(c) ==
  /\ Meanwhile
  /\ \/ \E t \in OtherTokens : Keys!Begin(c, t)
     \/ Keys!Read(c) \/ Keys!Acquire(c) \/ Keys!Serve(c) \/ Keys!FetchEnds(c)
     \/ Keys!Drop(c)

(* The authority changes its keys, or the clock moves.                     *)
World ==
  /\ Meanwhile
  /\ (\E S \in SUBSET Kids : Keys!Publish(S)) \/ Keys!Tick

Done == phase \in {"replied", "gone"} /\ UNCHANGED vars

Next ==
  \/ \E r \in Request : Receive(r)
  \/ VerifyOurs
  \/ ExchangeMints
  \/ \E a \in BothArms : ArmAnswers(a)
  \/ RacePoll
  \/ RaceTick
  \/ Abandon
  \/ \E c \in Others : OtherSteps(c)
  \/ World
  \/ Done

(* GuardJwks' fairness, for Me, and AuthRace's.  Of the others it is only  *)
(* taken that a fetch ends: one that waits, or is never run again, holds   *)
(* no lock.                                                                *)
Fairness ==
  /\ WF_keyVars(Keys!Read(Me)) /\ SF_keyVars(Keys!Acquire(Me))
  /\ WF_keyVars(Keys!FetchEnds(Me))
  /\ \A c \in Others : WF_vars(Meanwhile /\ Keys!FetchEnds(c))
  /\ WF_vars(RacePoll) /\ WF_vars(RaceTick)

Spec == Init /\ [][Next]_vars
FairSpec == Spec /\ Fairness

-----------------------------------------------------------------------------
Refused == phase = "replied" /\ response.status = 401

(* A credential is refused with 401 only on evidence: of the last stage    *)
(* that judged the request, every authority gave a definite no, and a      *)
(* stage that could not decide is a 503 (guard.rs 243-270, 300-313).  An   *)
(* exchange that succeeded is not evidence against the credential, however *)
(* its introspection ends (authority.rs 373-376), unless the policy        *)
(* refuses the identity it yields; nor is a direct arm that is switched    *)
(* off (guard.rs 252-256).                                                 *)
RefusedOnEvidence ==
  /\ Refused /\ response.outcome = "Unauthenticated" =>
       \/ request.provider /\ project /\ \A a \in BothArms : answer[a] = "Invalid"
       \/ ~request.provider /\ ours = "Invalid"
  /\ Refused /\ request.route # "authorize" => ~minted

(* A fast provider answer that the policy refuses cannot mask a slower     *)
(* shared-auth answer that it grants (guard.rs 452-456): a request is      *)
(* refused only when no arm is still running, and undecided while one is   *)
(* only at the deadline.                                                   *)
GrantNotMasked ==
  phase = "replied" /\ arms # {} /\ response.status \in {401, 503} =>
    /\ \A a \in arms : answer[a] # "Ok"
    /\ \/ \A a \in arms : answer[a] # "Running"
       \/ response.status = 503 /\ elapsed = Deadline

(* Every request is answered or gives up, whatever the authorities do and  *)
(* however often the keys rotate (guard.rs 204-271).                       *)
EveryRequestAnswered ==
  phase \in {"ours", "race"} ~> phase \in {"replied", "gone"}

(* The module's documentation: "could not decide" is never rendered as     *)
(* "logged out" (guard.rs 12-13).                                          *)
UndecidedIsNotLoggedOut ==
  phase = "replied" /\ response.outcome = "Unauthenticated" =>
    ours # "Unavailable"
=============================================================================
