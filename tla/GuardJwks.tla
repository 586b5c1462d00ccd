----------------------------- MODULE GuardJwks ------------------------------
(***************************************************************************)
(* The key set cache of the session guard: Guard::verify_ours and          *)
(* Guard::current_jwks of langs/rust/src/guard.rs, with any number of      *)
(* requests running them at once, an authority that rotates its keys and   *)
(* may be out, and requests that are dropped at an await.                  *)
(*                                                                         *)
(* One action is what a request does between two awaits.  The clock is an  *)
(* integer; a fetch that has run for ArmTimeout is cut off by its timer    *)
(* before the clock moves on.                                              *)
(***************************************************************************)
EXTENDS Integers

CONSTANTS
  Callers,       \* the requests
  NoCaller,      \* nobody: the refresh lock is free
  NoToken,       \* an idle request has no token
  NoReturn,      \* no request returned in this step
  Kids,          \* key identifiers the authority may ever publish
  Pins,          \* the sets a guard may be built with by with_static_jwks
  NoPin,         \* built with Guard::new: no pinned set
  Ttl,           \* jwks_ttl
  Grace,         \* jwks_grace
  ArmTimeout,    \* authority.arm_timeout, the bound on one fetch
  MaxTime        \* bound on the clock

(* What a token's header and signature can amount to: a good one, one      *)
(* whose kid names a key that did not sign it (or whose claims are wrong), *)
(* and one refused whatever the key set is (algorithm, length, no kid).    *)
Token == [kid : Kids, form : {"good", "forged", "malformed"}]

ASSUME TimeAssumption ==
  /\ Ttl \in Nat /\ Grace \in Nat /\ ArmTimeout \in Nat /\ MaxTime \in Nat
ASSUME NoneAssumption == NoCaller \notin Callers /\ NoToken \notin Token
ASSUME PinAssumption == Pins \in SUBSET (SUBSET Kids) /\ NoPin \notin Pins

VARIABLES
  now,           \* the clock
  published,     \* the authority's key set at this moment
  lastSeen,      \* history: when each key was last published, or Never
  pinned,        \* static_jwks
  cache,         \* cache: the set, when it was stored, when it was served
  lock,          \* who holds refresh_lock
  pc,            \* where each request is
  token,         \* the token each request verifies
  forced,        \* force_fetch of the current call of current_jwks
  fetchStart,    \* when the request's fetch was sent
  reply,         \* the authority's answer to it, while on its way
  fetches,       \* history: fetches sent by this verify_ours
  outage,        \* history: one of them failed
  steady,        \* history: its kid was published ever since it began
  returned       \* what verify_ours returned in this very step, if it did

envVars  == <<published, lastSeen, pinned>>
callVars == <<pc, token, forced, fetchStart, reply, fetches, outage, steady>>
vars == <<now, envVars, cache, lock, callVars, returned>>

Never == -1

KeySet == [present : BOOLEAN, keys : SUBSET Kids, at : Nat, servedAt : Nat]
NoKeySet == [present |-> FALSE, keys |-> {}, at |-> 0, servedAt |-> 0]

Reply == [sent : BOOLEAN, keys : SUBSET Kids, at : Nat]
NoReply == [sent |-> FALSE, keys |-> {}, at |-> 0]

Verified == {"Ok", "Invalid", "Unavailable"}
Return   == [caller : Callers, verdict : Verified, outage : BOOLEAN]

TypeOK ==
  /\ now \in 0 .. MaxTime
  /\ published \in SUBSET Kids
  /\ lastSeen \in [Kids -> Nat \cup {Never}]
  /\ pinned \in Pins \cup {NoPin}
  /\ cache \in KeySet
  /\ lock \in Callers \cup {NoCaller}
  /\ pc \in [Callers -> {"idle", "read", "lock", "fetch"}]
  /\ token \in [Callers -> Token \cup {NoToken}]
  /\ forced \in [Callers -> BOOLEAN]
  /\ fetchStart \in [Callers -> Nat]
  /\ reply \in [Callers -> Reply]
  /\ fetches \in [Callers -> 0 .. 2]
  /\ outage \in [Callers -> BOOLEAN]
  /\ steady \in [Callers -> BOOLEAN]
  /\ returned \in Return \cup {NoReturn}

Init ==
  /\ now = 0
  /\ published \in SUBSET Kids
  /\ lastSeen = [k \in Kids |-> IF k \in published THEN 0 ELSE Never]
  /\ pinned \in Pins \cup {NoPin}
  /\ cache = NoKeySet
  /\ lock = NoCaller
  /\ pc = [c \in Callers |-> "idle"]
  /\ token = [c \in Callers |-> NoToken]
  /\ forced = [c \in Callers |-> FALSE]
  /\ fetchStart = [c \in Callers |-> 0]
  /\ reply = [c \in Callers |-> NoReply]
  /\ fetches = [c \in Callers |-> 0]
  /\ outage = [c \in Callers |-> FALSE]
  /\ steady = [c \in Callers |-> FALSE]
  /\ returned = NoReturn

-----------------------------------------------------------------------------
(* verify_shared_auth_token against a key set: a token refused on its face *)
(* is Invalid, a kid the set lacks is Unavailable, the rest is decided by  *)
(* the signature and the claims.                                           *)
Verify(t, keys) ==
  IF t.form = "malformed" THEN "Invalid"
  ELSE IF t.kid \notin keys THEN "Unavailable"
  ELSE IF t.form = "forged" THEN "Invalid"
  ELSE "Ok"

(* Mutant: the grace of a stale set never runs out.                        *)
UsableForever == cache.present

Fresh  == cache.present /\ now - cache.at < Ttl
Usable == cache.present /\ now - cache.at < Grace

-----------------------------------------------------------------------------
(* The pieces of a request's step.  failed says whether a fetch of this    *)
(* call has failed by now.                                                 *)

(* The request is over: nothing of it is kept.                             *)
Finish(c) ==
  /\ pc' = [pc EXCEPT ![c] = "idle"]
  /\ token' = [token EXCEPT ![c] = NoToken]
  /\ forced' = [forced EXCEPT ![c] = FALSE]
  /\ fetchStart' = [fetchStart EXCEPT ![c] = 0]
  /\ reply' = [reply EXCEPT ![c] = NoReply]
  /\ fetches' = [fetches EXCEPT ![c] = 0]
  /\ outage' = [outage EXCEPT ![c] = FALSE]
  /\ steady' = [steady EXCEPT ![c] = FALSE]

(* verify_ours returns v.                                                  *)
Returns(c, v, failed) ==
  /\ Finish(c)
  /\ returned' = [caller |-> c, verdict |-> v, outage |-> failed]

(* current_jwks(force) goes to wait for refresh_lock.                      *)
WaitForLock(c, force, failed) ==
  /\ pc' = [pc EXCEPT ![c] = "lock"]
  /\ forced' = [forced EXCEPT ![c] = force]
  /\ fetchStart' = [fetchStart EXCEPT ![c] = 0]
  /\ reply' = [reply EXCEPT ![c] = NoReply]
  /\ outage' = [outage EXCEPT ![c] = failed]
  /\ returned' = NoReturn
  /\ UNCHANGED <<token, fetches, steady>>

(* Mutant: an unknown kid is always worth another fetch.                   *)
UseKeysAgainAndAgain(c, keys, justFetched, failed) ==
  LET verdict == Verify(token[c], keys)
      refetch == verdict = "Unavailable" /\ pinned = NoPin
  IN  \/ refetch /\ WaitForLock(c, TRUE, failed)
      \/ ~refetch /\ Returns(c, verdict, failed)

(* current_jwks returned a key set.  An unknown kid on a set this call did *)
(* not fetch is worth one forced fetch.                                    *)
UseKeys(c, keys, justFetched, failed) ==
  LET verdict == Verify(token[c], keys)
      refetch == /\ verdict = "Unavailable"
                 /\ ~justFetched /\ ~forced[c] /\ pinned = NoPin
  IN  \/ /\ refetch
         /\ WaitForLock(c, TRUE, failed)
      \/ /\ ~refetch
         /\ Returns(c, verdict, failed)

-----------------------------------------------------------------------------
(* A request starts to verify a token of ours.                             *)
Begin(c, t) ==
  /\ pc[c] = "idle"
  /\ pc' = [pc EXCEPT ![c] = "read"]
  /\ token' = [token EXCEPT ![c] = t]
  /\ steady' = [steady EXCEPT ![c] = t.kid \in published]
  /\ returned' = NoReturn
  /\ UNCHANGED <<now, envVars, cache, lock, forced, fetchStart, reply, fetches,
                 outage>>

(* A pinned guard verifies without cache, lock or network.                 *)
UsePinned(c) ==
  /\ pc[c] = "read" /\ pinned # NoPin
  /\ UseKeys(c, pinned, FALSE, outage[c])
  /\ UNCHANGED <<now, envVars, cache, lock>>

(* The first look at the cache, under its read lock.                       *)
ReadCache(c) ==
  /\ pc[c] = "read" /\ pinned = NoPin
  /\ \/ Fresh /\ UseKeys(c, cache.keys, FALSE, outage[c])
     \/ ~Fresh /\ WaitForLock(c, FALSE, outage[c])
  /\ UNCHANGED <<now, envVars, cache, lock>>

(* Mutant: the set another request fetched passes for one just fetched.    *)
FoundJustFetched(c) ==
  /\ pc[c] = "lock" /\ lock = NoCaller
  /\ ~forced[c] /\ Fresh
  /\ UseKeys(c, cache.keys, TRUE, outage[c])
  /\ UNCHANGED <<now, envVars, cache, lock>>

(* Got refresh_lock.  Unless this is a forced fetch, somebody may have     *)
(* refreshed meanwhile: look again, and let go of the lock if so.          *)
FoundRefreshed(c) ==
  /\ pc[c] = "lock" /\ lock = NoCaller
  /\ ~forced[c] /\ Fresh
  /\ UseKeys(c, cache.keys, FALSE, outage[c])
  /\ UNCHANGED <<now, envVars, cache, lock>>

(* Mutant: no lock around the fetch.                                       *)
StartFetchUnlocked(c) ==
  /\ pc[c] = "lock"
  /\ forced[c] \/ ~Fresh
  /\ lock' = c
  /\ pc' = [pc EXCEPT ![c] = "fetch"]
  /\ fetchStart' = [fetchStart EXCEPT ![c] = now]
  /\ fetches' = [fetches EXCEPT ![c] = @ + 1]
  /\ returned' = NoReturn
  /\ UNCHANGED <<now, envVars, cache, token, forced, reply, outage, steady>>

StartFetch(c) ==
  /\ pc[c] = "lock" /\ lock = NoCaller
  /\ forced[c] \/ ~Fresh
  /\ lock' = c
  /\ pc' = [pc EXCEPT ![c] = "fetch"]
  /\ fetchStart' = [fetchStart EXCEPT ![c] = now]
  /\ fetches' = [fetches EXCEPT ![c] = @ + 1]
  /\ returned' = NoReturn
  /\ UNCHANGED <<now, envVars, cache, token, forced, reply, outage, steady>>

(* The authority answers the fetch with the keys it publishes right now.   *)
Serve(c) ==
  /\ pc[c] = "fetch" /\ ~reply[c].sent
  /\ reply' = [reply EXCEPT ![c] = [sent |-> TRUE, keys |-> published,
                                    at |-> now]]
  /\ returned' = NoReturn
  /\ UNCHANGED <<now, envVars, cache, lock, pc, token, forced, fetchStart,
                 fetches, outage, steady>>

(* The answer arrives: it is stored with the time of arrival and used.     *)
FetchSucceeds(c) ==
  /\ pc[c] = "fetch" /\ reply[c].sent
  /\ cache' = [present |-> TRUE, keys |-> reply[c].keys, at |-> now,
               servedAt |-> reply[c].at]
  /\ lock' = NoCaller
  /\ UseKeys(c, reply[c].keys, TRUE, outage[c])
  /\ UNCHANGED <<now, envVars>>

(* No usable answer: connection, status, body or timeout.  The stored set  *)
(* is used while it is within its grace.                                   *)
FetchFails(c) ==
  /\ pc[c] = "fetch"
  /\ lock' = NoCaller
  /\ \/ Usable /\ UseKeys(c, cache.keys, FALSE, TRUE)
     \/ ~Usable /\ Returns(c, "Unavailable", TRUE)
  /\ UNCHANGED <<now, envVars, cache>>

(* Mutant: a dropped request leaves refresh_lock taken.                    *)
DropKeepsLock(c) ==
  /\ pc[c] # "idle"
  /\ Finish(c)
  /\ returned' = NoReturn
  /\ UNCHANGED <<now, envVars, cache, lock>>

(* The request is dropped at an await (client gone, outer timeout): its    *)
(* future is destroyed and with it the guard of refresh_lock.              *)
Drop(c) ==
  /\ pc[c] # "idle"
  /\ lock' = IF lock = c THEN NoCaller ELSE lock
  /\ Finish(c)
  /\ returned' = NoReturn
  /\ UNCHANGED <<now, envVars, cache>>

(* The authority rotates, withdraws or adds keys.                          *)
Publish(S) ==
  /\ published' = S
  /\ lastSeen' = [k \in Kids |-> IF k \in S THEN now ELSE lastSeen[k]]
  /\ steady' = [c \in Callers |-> steady[c] /\ token[c].kid \in S]
  /\ returned' = NoReturn
  /\ UNCHANGED <<now, pinned, cache, lock, pc, token, forced, fetchStart, reply,
                 fetches, outage>>

(* Time passes, but not past the timer of a running fetch.                 *)
Tick ==
  /\ now < MaxTime
  /\ \A c \in Callers : pc[c] = "fetch" => now - fetchStart[c] < ArmTimeout
  /\ now' = now + 1
  /\ lastSeen' = [k \in Kids |-> IF k \in published THEN now + 1
                                                    ELSE lastSeen[k]]
  /\ returned' = NoReturn
  /\ UNCHANGED <<published, pinned, cache, lock, callVars>>

FetchEnds(c) == FetchSucceeds(c) \/ FetchFails(c)
Acquire(c)   == FoundRefreshed(c) \/ StartFetch(c)
Read(c)      == UsePinned(c) \/ ReadCache(c)

Next ==
  \/ \E c \in Callers :
       \/ \E t \in Token : Begin(c, t)
       \/ Read(c) \/ Acquire(c) \/ Serve(c) \/ FetchEnds(c) \/ Drop(c)
  \/ \E S \in SUBSET Kids : Publish(S)
  \/ Tick

(* The runtime runs a request that can run, tokio's mutex serves its       *)
(* waiters in turn, and a fetch ends, by its timeout at the latest.        *)
Fairness ==
  \A c \in Callers :
    WF_vars(Read(c)) /\ SF_vars(Acquire(c)) /\ WF_vars(FetchEnds(c))

Spec == Init /\ [][Next]_vars
FairSpec == Spec /\ Fairness

-----------------------------------------------------------------------------
Age(k) == now - lastSeen[k]

(* How long a withdrawn key is still trusted (guard.rs 373-432).  A token  *)
(* is accepted only on a key the authority has published, at most a fetch  *)
(* plus jwks_ttl ago; and at most a fetch plus jwks_grace ago only when a  *)
(* fetch made by that very call has failed.                                *)
AcceptedInWindow ==
  returned' # NoReturn /\ returned'.verdict = "Ok" /\ pinned = NoPin =>
    LET kid == token[returned'.caller].kid IN
    /\ lastSeen[kid] # Never
    /\ \/ Age(kid) <= ArmTimeout
       \/ Age(kid) < ArmTimeout + Ttl
       \/ returned'.outage /\ Age(kid) < ArmTimeout + Grace
RevocationWindow == [][AcceptedInWindow]_vars

(* Rotation is invisible (guard.rs 351-369): a token whose key was         *)
(* published during the whole call is undecided only if a fetch of this    *)
(* call failed, whatever the cache held and whoever else was refreshing.   *)
UndecidedOnlyInOutage ==
  /\ returned' # NoReturn /\ returned'.verdict = "Unavailable"
  /\ pinned = NoPin /\ steady[returned'.caller]
  => returned'.outage
RotationIsSeamless == [][UndecidedOnlyInOutage]_vars

(* A late answer never replaces a newer key set (guard.rs 387, 416-420):   *)
(* what is stored was served no earlier than what it replaces.             *)
CacheNeverRegresses == [][cache'.servedAt >= cache.servedAt]_vars

(* A call goes to the network a second time only when its first attempt    *)
(* failed (guard.rs 359-360): a set it has just fetched is believed.       *)
SecondFetchOnlyAfterFailure ==
  \A c \in Callers : fetches[c] = 2 => outage[c]

(* The set is replaced within its ttl only by a forced fetch: requests     *)
(* that queued up behind a refresh do not repeat it (guard.rs 388-396).    *)
NoRedundantRefresh ==
  [][cache' # cache /\ Fresh => \E c \in Callers : lock = c /\ forced[c]]_vars

(* Every call returns or is dropped, however many wait for the lock and    *)
(* however many of their fetches hang or are dropped while they hold it.   *)
EveryCallReturns ==
  \A c \in Callers : pc[c] # "idle" ~> pc[c] = "idle"
=============================================================================
