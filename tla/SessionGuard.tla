---------------------------- MODULE SessionGuard -----------------------------
(***************************************************************************)
(* The session-aware guard of langs/rust/src/session_guard.rs: one request *)
(* through authorize_with_upgrade.                                         *)
(*                                                                         *)
(* Exactly one credential speaks for the request.  A token of ours goes    *)
(* through the inner guard (GuardCheck models it, here it is one step).  A *)
(* provider token is raced: the shared arm exchanges it, which mints a     *)
(* session, and introspects that session; the direct arm shows it to the   *)
(* provider.  Only a shared arm that wins hands its session to the browser.*)
(***************************************************************************)
EXTENDS Naturals

CONSTANTS
  Tokens,        \* the tokens a request may carry
  NoToken,       \* no token
  Malformed,     \* something in its place that cannot be used
  NoAuthority,   \* see AuthRace
  Deadline       \* race_deadline, in ticks

(* What a token says and what the authorities know of its owner.  grant:   *)
(* the policy allows a role of the owner, its verified e-mail, or neither. *)
Token == [issuer : {"ours", "provider"}, project : {"ours", "other"},
          grant : {"role", "email", "none"}, machine : BOOLEAN]

ASSUME TokenAssumption ==
  Tokens \in SUBSET Token /\ NoToken \notin Token /\ Malformed \notin Token
ASSUME SessionAssumption ==
  /\ NoToken # Malformed
  /\ NoAuthority \notin {"SharedAuth", "Supabase"}
  /\ Deadline \in Nat

VARIABLES
  phase,         \* where authorize_with_upgrade is
  token,         \* the credential that speaks for the request
  live,          \* would the authorities accept it now?
  exchanged,     \* has /auth/exchange minted a session for this request?
  changed,       \* did the owner's roles change after that?
  answer,        \* what each arm's future has resolved to
  overtaken,     \* history: has the state that the shared arm said Ok on passed?
  failed,        \* the arms whose failure the loop has collected
  elapsed,       \* ticks since the race started
  decision       \* the SessionDecision

vars == <<phase, token, live, exchanged, changed, answer, overtaken, failed,
          elapsed, decision>>

Arms == {"shared", "direct"}
AuthorityOf == [a \in Arms |-> IF a = "shared" THEN "SharedAuth" ELSE "Supabase"]

(* upgrade: the decision carries the access token of the minted session.   *)
Decision == [kind : {"Pending", "Anonymous", "Authenticated",
                     "Unauthenticated", "Degraded"},
             authority : {"SharedAuth", "Supabase", NoAuthority},
             upgrade : BOOLEAN]

WithoutUpgrade(kind) ==
  [kind |-> kind, authority |-> NoAuthority, upgrade |-> FALSE]
Pending == WithoutUpgrade("Pending")

Replied == {"answered", "raced"}

TypeOK ==
  /\ phase \in {"new", "inner", "race"} \cup Replied
  /\ token \in Tokens \cup {NoToken}
  /\ live \in BOOLEAN /\ exchanged \in BOOLEAN /\ changed \in BOOLEAN
  /\ answer \in [Arms -> {"Running", "Ok", "Invalid", "Unavailable"}]
  /\ overtaken \in BOOLEAN
  /\ failed \in SUBSET Arms
  /\ elapsed \in 0 .. Deadline
  /\ decision \in Decision
  /\ phase \in Replied <=> decision # Pending

Init ==
  /\ phase = "new"
  /\ token = NoToken
  /\ live \in BOOLEAN
  /\ exchanged = FALSE /\ changed = FALSE
  /\ answer = [a \in Arms |-> "Running"]
  /\ overtaken = FALSE
  /\ failed = {}
  /\ elapsed = 0
  /\ decision = Pending

armVars == <<exchanged, changed, answer, overtaken>>

-----------------------------------------------------------------------------
(* A source holds nothing, something that cannot be used (a second value,  *)
(* an empty, overlong or unreadable one), or a token.                      *)
Source  == {NoToken, Malformed} \cup Tokens
Request == [authorization : Source, sessionCookie : Source,
            providerHeader : Source, providerCookie : Source]

(* The first source that is present decides, even if it cannot be used.    *)
Speaks(r) ==
  IF r.authorization # NoToken       THEN r.authorization
  ELSE IF r.sessionCookie # NoToken  THEN r.sessionCookie
  ELSE IF r.providerHeader # NoToken THEN r.providerHeader
  ELSE r.providerCookie

(* What is in our session cookie is taken for ours, a bearer token only if *)
(* it says that we issued it.                                              *)
TakenForOurs(r) ==
  IF r.authorization # NoToken THEN r.authorization.issuer = "ours"
                                ELSE r.sessionCookie # NoToken

Answers(d) == phase' = "answered" /\ decision' = d

(* select_credential and the dispatch on it.                               *)
Receive(r) ==
  /\ phase = "new"
  /\ \/ /\ Speaks(r) = NoToken /\ Answers(WithoutUpgrade("Anonymous"))
        /\ UNCHANGED token
     \/ /\ Speaks(r) = Malformed /\ Answers(WithoutUpgrade("Unauthenticated"))
        /\ UNCHANGED token
     \/ /\ Speaks(r) \in Tokens /\ token' = Speaks(r)
        /\ phase' = IF TakenForOurs(r) THEN "inner" ELSE "race"
        /\ UNCHANGED decision
  /\ UNCHANGED <<live, armVars, failed, elapsed>>

-----------------------------------------------------------------------------
(* identity_matches_project.                                               *)
OurProject(t) == t.project = "ours"

(* restrict_outcome_to_project.                                            *)
Restricted(t, d) ==
  IF d.kind = "Authenticated" /\ ~OurProject(t)
    THEN WithoutUpgrade("Unauthenticated") ELSE d

(* Who may say yes to this token inside the inner guard.  A token of ours  *)
(* is verified there with cached keys until it expires, whatever became of *)
(* its session.  What sits in our cookie without being ours is raced       *)
(* there: the exchange accepts every project, the provider only its own,   *)
(* and knows neither roles nor the credential class.                       *)
InnerWinners(t) ==
  {a \in {"SharedAuth", "Supabase"} :
     /\ a = "SharedAuth" =>
          (t.issuer = "ours" \/ live) /\ t.grant # "none" /\ ~t.machine
     /\ a = "Supabase" =>
          live /\ t.issuer = "provider" /\ OurProject(t) /\ t.grant = "email"}

AuthenticatedBy(a, upgrade) ==
  [kind |-> "Authenticated", authority |-> a, upgrade |-> upgrade]

(* authorize_shared_token: the inner guard sees this token alone, and may  *)
(* always fail to decide.  A token of ours that is not live may be revoked,*)
(* which nothing here sees, or have expired.  No upgrade on this path.     *)
InnerReplies ==
  /\ phase = "inner"
  /\ \/ \E a \in InnerWinners(token) :
          Answers(Restricted(token, AuthenticatedBy(a, FALSE)))
     \/ /\ InnerWinners(token) = {} \/ ~live
        /\ Answers(WithoutUpgrade("Unauthenticated"))
     \/ Answers(WithoutUpgrade("Degraded"))
  /\ UNCHANGED <<token, live, armVars, failed, elapsed>>

-----------------------------------------------------------------------------
(* The arms.  Each request they send may fail or time out at any time.     *)
Running(a) == phase = "race" /\ answer[a] = "Running"

(* The credential is a provider token its issuer stands by.                *)
Good == live /\ token.issuer = "provider"

Resolve(a, result) ==
  /\ answer' = [answer EXCEPT ![a] = result]
  /\ UNCHANGED <<phase, token, live, changed, overtaken, failed, elapsed,
                 decision>>

(* POST /auth/exchange: a session is minted for any live provider token.   *)
ExchangeMints ==
  /\ Running("shared") /\ ~exchanged /\ Good
  /\ exchanged' = TRUE
  /\ UNCHANGED <<phase, token, live, changed, answer, overtaken, failed,
                 elapsed, decision>>

ExchangeFails ==
  /\ Running("shared") /\ ~exchanged
  /\ \/ ~Good /\ Resolve("shared", "Invalid")
     \/ Resolve("shared", "Unavailable")
  /\ UNCHANGED exchanged

(* enforce_policy_and_project, of either arm's identity.                   *)
Enforced(t, granted) == IF OurProject(t) /\ granted THEN "Ok" ELSE "Invalid"

(* Mutant: whether the session is active is not looked at.                 *)
IntrospectReplyUnread ==
  /\ Running("shared") /\ exchanged
  /\ \/ Resolve("shared", Enforced(token, token.grant # "none"))
     \/ Resolve("shared", "Unavailable")
  /\ UNCHANGED exchanged

(* Mutant: an introspection that fails counts as a definite no.            *)
IntrospectReplyRefuses ==
  /\ Running("shared") /\ exchanged
  /\ \/ /\ live /\ ~changed
        /\ Resolve("shared", Enforced(token, token.grant # "none"))
     \/ Resolve("shared", "Invalid")
  /\ UNCHANGED exchanged

(* POST /auth/introspect for the minted session.  A revoked session is     *)
(* inactive (with claims or without: the latter cannot be parsed), changed *)
(* roles contradict the exchange.  The claims carry roles and e-mail; that *)
(* a machine holds the credential is not looked at.                        *)
IntrospectReply ==
  /\ Running("shared") /\ exchanged
  /\ \/ /\ live /\ ~changed
        /\ Resolve("shared", Enforced(token, token.grant # "none"))
     \/ (~live \/ changed) /\ Resolve("shared", "Invalid")
     \/ Resolve("shared", "Unavailable")
  /\ UNCHANGED exchanged

(* GET /auth/v1/user at our project: an e-mail, and no roles.              *)
DirectReply ==
  /\ Running("direct")
  /\ \/ /\ Good /\ OurProject(token)
        /\ Resolve("direct", Enforced(token, token.grant = "email"))
     \/ /\ ~(Good /\ OurProject(token))
        /\ Resolve("direct", "Invalid")
     \/ Resolve("direct", "Unavailable")
  /\ UNCHANGED exchanged

-----------------------------------------------------------------------------
(* race_session_arms: select! takes a finished arm, either if both are.    *)
Ready(a) == phase = "race" /\ a \notin failed /\ answer[a] # "Running"

Decides(d) == phase' = "raced" /\ decision' = d

(* Mutant: the minted session is handed out whoever wins.                  *)
TakeSuccessUpgrades(a) ==
  /\ Ready(a) /\ answer[a] = "Ok"
  /\ Decides(AuthenticatedBy(AuthorityOf[a], exchanged))
  /\ UNCHANGED <<token, live, armVars, failed, elapsed>>

(* The winner is stamped; only the shared arm's session is handed out.     *)
TakeSuccess(a) ==
  /\ Ready(a) /\ answer[a] = "Ok"
  /\ Decides(AuthenticatedBy(AuthorityOf[a], a = "shared"))
  /\ UNCHANGED <<token, live, armVars, failed, elapsed>>

(* Mutant: one definite no is enough.                                      *)
TakeFailureAny(a) ==
  /\ Ready(a) /\ answer[a] \in {"Invalid", "Unavailable"}
  /\ failed' = failed \cup {a}
  /\ IF failed' # Arms
       THEN UNCHANGED <<phase, decision>>
       ELSE Decides(WithoutUpgrade(IF \E b \in Arms : answer[b] = "Invalid"
                                     THEN "Unauthenticated" ELSE "Degraded"))
  /\ UNCHANGED <<token, live, armVars, elapsed>>

TakeFailure(a) ==
  /\ Ready(a) /\ answer[a] \in {"Invalid", "Unavailable"}
  /\ failed' = failed \cup {a}
  /\ IF failed' # Arms
       THEN UNCHANGED <<phase, decision>>
       ELSE Decides(WithoutUpgrade(IF \A b \in Arms : answer[b] = "Invalid"
                                     THEN "Unauthenticated" ELSE "Degraded"))
  /\ UNCHANGED <<token, live, armVars, elapsed>>

(* The timer is looked at only when no arm can be taken.                   *)
DeadlineExceeded ==
  /\ phase = "race" /\ elapsed = Deadline
  /\ ~ \E a \in Arms : Ready(a)
  /\ Decides(WithoutUpgrade("Degraded"))
  /\ UNCHANGED <<token, live, armVars, failed, elapsed>>

Poll == DeadlineExceeded \/ \E a \in Arms : TakeSuccess(a) \/ TakeFailure(a)

(* Mutant: no deadline bounds the race.                                    *)
TickForever ==
  /\ phase = "race"
  /\ elapsed' = elapsed + 1
  /\ UNCHANGED <<phase, token, live, armVars, failed, decision>>

Tick ==
  /\ phase = "race" /\ elapsed < Deadline
  /\ elapsed' = elapsed + 1
  /\ UNCHANGED <<phase, token, live, armVars, failed, decision>>

-----------------------------------------------------------------------------
(* What happens after the introspection has answered, the answer misses.   *)
Overtakes == overtaken' = (overtaken \/ answer["shared"] = "Ok")

(* The credential is revoked or expires, with every session minted for it. *)
Revoke ==
  /\ phase \in {"inner", "race"} /\ live
  /\ live' = FALSE
  /\ Overtakes
  /\ UNCHANGED <<phase, token, exchanged, changed, answer, failed, elapsed,
                 decision>>

(* The roles of the owner change between exchange and introspection.       *)
RolesChange ==
  /\ phase = "race" /\ exchanged /\ ~changed
  /\ changed' = TRUE
  /\ Overtakes
  /\ UNCHANGED <<phase, token, live, exchanged, answer, failed, elapsed, decision>>

Done == phase \in Replied /\ UNCHANGED vars

Next ==
  \/ \E r \in Request : Receive(r)
  \/ InnerReplies
  \/ ExchangeMints \/ ExchangeFails \/ IntrospectReply \/ DirectReply
  \/ Poll \/ Tick
  \/ Revoke \/ RolesChange
  \/ Done

Spec == Init /\ [][Next]_vars

-----------------------------------------------------------------------------
(* race_session_arms is written out again in this file (283-362); it keeps *)
(* the rules of race.rs: it decides as AuthRace with two arms does, also   *)
(* when an arm takes two requests and the owner's state changes between    *)
(* them.                                                                   *)
RaceOutcome ==
  IF phase = "raced"
    THEN [kind |-> decision.kind, authority |-> decision.authority,
          stamp |-> decision.authority]
    ELSE [kind |-> "Pending", authority |-> NoAuthority, stamp |-> NoAuthority]
Race == INSTANCE AuthRace WITH
          Authority <- {"SharedAuth", "Supabase"}, Claimed <- AuthorityOf,
          arms <- Arms, outcome <- RaceOutcome
ImplementsRace == Race!Spec

(* A minted session reaches the browser exactly when the shared arm wins:  *)
(* not when the provider was faster or the deadline fell after the         *)
(* exchange.  Then it is a session of a user that project and policy       *)
(* admit, and if the credential was revoked or the roles changed by the    *)
(* time of the hand-out, that was after the introspection had answered,    *)
(* never between the exchange and it (session_guard.rs 146-180, 303-334).  *)
UpgradeAccounted ==
  /\ decision.upgrade <=> phase = "raced" /\ decision.authority = "SharedAuth"
  /\ decision.upgrade => exchanged /\ OurProject(token) /\ token.grant # "none"
  /\ decision.upgrade => (live /\ ~changed) \/ overtaken

(* On every path, also for a foreign token in our cookie that the inner    *)
(* guard races, only users of the configured project get in, even where a  *)
(* role of another project has the same name (session_guard.rs 364-378,    *)
(* 412-418).                                                               *)
ProjectPinned == decision.kind = "Authenticated" => OurProject(token)

(* A user whom the policy admits, whose provider stands by the token.      *)
Admitted ==
  /\ live /\ ~changed
  /\ token.issuer = "provider" /\ OurProject(token) /\ token.grant # "none"

(* The race signs out nobody whom the policy admits: neither when the      *)
(* provider, which knows no roles, refuses a user that shared-auth would   *)
(* admit but cannot be asked, nor when the exchange succeeds and the       *)
(* introspection after it fails (session_guard.rs 146-175, 336-351).       *)
AdmittedNotSignedOut ==
  phase = "raced" /\ decision.kind = "Unauthenticated" => ~Admitted

=============================================================================
