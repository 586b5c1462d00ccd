---------------------------- MODULE ProviderJwks -----------------------------
(***************************************************************************)
(* The key set cache of the provider token verifier: ProviderJwtVerifier   *)
(* (verify, jwks_for, refresh, purge_cache) of langs/rust/src/             *)
(* provider_jwt.rs, with any number of verifications at once, a provider   *)
(* that rotates its keys, and an operator who purges the cache.            *)
(*                                                                         *)
(* It differs from the guard's cache: no grace for a stale set, an unknown *)
(* kid is refused, and only a set older than Throttle is fetched again for *)
(* the sake of an unknown kid.                                             *)
(***************************************************************************)
EXTENDS Integers

CONSTANTS
  Callers,       \* the verifications
  NoCaller,      \* nobody: the refresh lock is free
  NoToken,       \* an idle verification has no token
  NoReturn,      \* nothing returned in this step
  Kids,          \* key identifiers
  Sets,          \* the key sets the provider may ever publish, or be pinned
  Ttl,           \* cache_ttl
  Throttle,      \* MIN_UNKNOWN_KID_REFRESH
  HttpTimeout,   \* http_timeout, the bound on one fetch
  MaxTime        \* bound on the clock

(* A key set as it is published: the kids in it and those listed twice.    *)
Jwks ==
  {s \in [keys : SUBSET Kids, twice : SUBSET Kids] : s.twice \subseteq s.keys}
NoKeys == [keys |-> {}, twice |-> {}]

(* What a token amounts to once its header is read: malformed ones are     *)
(* refused before any key set is looked at.                                *)
Token == [kid : Kids, form : {"good", "forged", "malformed"}]

ASSUME TimeAssumption ==
  /\ Ttl \in Nat /\ Throttle \in Nat /\ HttpTimeout \in Nat /\ MaxTime \in Nat
ASSUME SetsAssumption == Sets \in SUBSET Jwks
ASSUME NoneAssumption == NoCaller \notin Callers /\ NoToken \notin Token

VARIABLES
  now,           \* the clock
  published,     \* the provider's key set at this moment
  lastSeen,      \* history: when each key was last published, or Never
  since,         \* history: since when it has been published without a break
  cleared,       \* history: keys that were withdrawn when the cache was purged
  pinned,        \* static_jwks, or NoKeySet
  cache,         \* cache
  lock,          \* who holds refresh_lock
  pc,            \* where each verification is
  token,         \* its token
  fetchStart,    \* when its fetch was sent
  reply,         \* the provider's answer to it, while on its way
  returned       \* what verify returned in this very step, if it did

envVars  == <<published, lastSeen, since, cleared, pinned>>
callVars == <<pc, token, fetchStart, reply>>
vars == <<now, envVars, cache, lock, callVars, returned>>

Never == -1

KeySet == [present : BOOLEAN, set : Jwks, at : Nat]
NoKeySet == [present |-> FALSE, set |-> NoKeys, at |-> 0]
Reply == [sent : BOOLEAN, set : Jwks]
NoReply == [sent |-> FALSE, set |-> NoKeys]

Return == [caller : Callers, verdict : {"Ok", "Invalid", "Unavailable"}]

TypeOK ==
  /\ now \in 0 .. MaxTime
  /\ published \in Jwks
  /\ lastSeen \in [Kids -> Nat \cup {Never}]
  /\ since \in [Kids -> Nat]
  /\ cleared \in SUBSET Kids
  /\ pinned \in KeySet /\ cache \in KeySet
  /\ lock \in Callers \cup {NoCaller}
  /\ pc \in [Callers -> {"idle", "read", "lock", "fetch"}]
  /\ token \in [Callers -> Token \cup {NoToken}]
  /\ fetchStart \in [Callers -> Nat]
  /\ reply \in [Callers -> Reply]
  /\ returned \in Return \cup {NoReturn}
  /\ \A c \in Callers : lock = c <=> pc[c] = "fetch"

Init ==
  /\ now = 0
  /\ published \in Sets
  /\ lastSeen = [k \in Kids |-> IF k \in published.keys THEN 0 ELSE Never]
  /\ since = [k \in Kids |-> 0]
  /\ cleared = {}
  /\ \/ pinned = NoKeySet
     \/ \E s \in Sets : pinned = [present |-> TRUE, set |-> s, at |-> 0]
  /\ cache = NoKeySet
  /\ lock = NoCaller
  /\ pc = [c \in Callers |-> "idle"]
  /\ token = [c \in Callers |-> NoToken]
  /\ fetchStart = [c \in Callers |-> 0]
  /\ reply = [c \in Callers |-> NoReply]
  /\ returned = NoReturn

-----------------------------------------------------------------------------
(* find_unique_key and verify_with_jwks: a kid listed twice decides        *)
(* nothing, an unknown one is refused.                                     *)
VerifyWith(t, set) ==
  IF t.kid \in set.twice THEN "Unavailable"
  ELSE IF t.kid \notin set.keys \/ t.form = "forged" THEN "Invalid"
  ELSE "Ok"

Age == now - cache.at

(* Mutant: a stale set still answers for the keys it knows.                *)
CacheAnswersStale(t) ==
  /\ cache.present
  /\ Age < Ttl \/ t.kid \in cache.set.keys
  /\ t.kid \in cache.set.keys \/ Age < Throttle

(* Mutant: an unknown kid is refused for as long as the set is fresh.      *)
CacheAnswersUnthrottled(t) == cache.present /\ Age < Ttl

(* The set in the cache answers for the kid: it is within its ttl, and     *)
(* either knows the kid or is too young to be fetched again for it.        *)
CacheAnswers(t) ==
  /\ cache.present /\ Age < Ttl
  /\ t.kid \in cache.set.keys \/ Age < Throttle

-----------------------------------------------------------------------------
(* verify returns v and is over.                                           *)
Returns(c, v) ==
  /\ pc' = [pc EXCEPT ![c] = "idle"]
  /\ token' = [token EXCEPT ![c] = NoToken]
  /\ fetchStart' = [fetchStart EXCEPT ![c] = 0]
  /\ reply' = [reply EXCEPT ![c] = NoReply]
  /\ returned' = [caller |-> c, verdict |-> v]

(* verify is called.  A malformed header is refused on the spot.           *)
Begin(c, t) ==
  /\ pc[c] = "idle"
  /\ \/ t.form = "malformed" /\ Returns(c, "Invalid")
     \/ /\ t.form # "malformed"
        /\ pc' = [pc EXCEPT ![c] = "read"]
        /\ token' = [token EXCEPT ![c] = t]
        /\ returned' = NoReturn
        /\ UNCHANGED <<fetchStart, reply>>
  /\ UNCHANGED <<now, envVars, cache, lock>>

(* A pinned set decides without cache or network.                          *)
UsePinned(c) ==
  /\ pc[c] = "read" /\ pinned.present
  /\ Returns(c, VerifyWith(token[c], pinned.set))
  /\ UNCHANGED <<now, envVars, cache, lock>>

(* jwks_for looks at the cache, and queues for refresh_lock if need be.    *)
ReadCache(c) ==
  /\ pc[c] = "read" /\ ~pinned.present
  /\ \/ /\ CacheAnswers(token[c])
        /\ Returns(c, VerifyWith(token[c], cache.set))
     \/ /\ ~CacheAnswers(token[c])
        /\ pc' = [pc EXCEPT ![c] = "lock"]
        /\ returned' = NoReturn
        /\ UNCHANGED <<token, fetchStart, reply>>
  /\ UNCHANGED <<now, envVars, cache, lock>>

(* refresh got the lock and finds that the cache answers by now.           *)
FoundRefreshed(c) ==
  /\ pc[c] = "lock" /\ lock = NoCaller
  /\ CacheAnswers(token[c])
  /\ Returns(c, VerifyWith(token[c], cache.set))
  /\ UNCHANGED <<now, envVars, cache, lock>>

StartFetch(c) ==
  /\ pc[c] = "lock" /\ lock = NoCaller
  /\ ~CacheAnswers(token[c])
  /\ lock' = c
  /\ pc' = [pc EXCEPT ![c] = "fetch"]
  /\ fetchStart' = [fetchStart EXCEPT ![c] = now]
  /\ returned' = NoReturn
  /\ UNCHANGED <<now, envVars, cache, token, reply>>

(* The provider answers with what it publishes right now.                  *)
Serve(c) ==
  /\ pc[c] = "fetch" /\ ~reply[c].sent
  /\ reply' = [reply EXCEPT ![c] = [sent |-> TRUE, set |-> published]]
  /\ returned' = NoReturn
  /\ UNCHANGED <<now, envVars, cache, lock, pc, token, fetchStart>>

(* A usable answer (some keys, none of them private) is stored and used.   *)
FetchSucceeds(c) ==
  /\ pc[c] = "fetch" /\ reply[c].sent /\ reply[c].set.keys # {}
  /\ cache' = [present |-> TRUE, set |-> reply[c].set, at |-> now]
  /\ lock' = NoCaller
  /\ Returns(c, VerifyWith(token[c], reply[c].set))
  /\ UNCHANGED <<now, envVars>>

(* Mutant: the lock is not released on the error path.                     *)
FetchFailsLocked(c) ==
  /\ pc[c] = "fetch"
  /\ Returns(c, "Unavailable")
  /\ UNCHANGED <<now, envVars, cache, lock>>

(* Any other answer, or none: the old set is kept and not used.            *)
FetchFails(c) ==
  /\ pc[c] = "fetch"
  /\ lock' = NoCaller
  /\ Returns(c, "Unavailable")
  /\ UNCHANGED <<now, envVars, cache>>

(* The verification is dropped at an await, and the lock with it.          *)
Drop(c) ==
  /\ pc[c] # "idle"
  /\ lock' = IF lock = c THEN NoCaller ELSE lock
  /\ pc' = [pc EXCEPT ![c] = "idle"]
  /\ token' = [token EXCEPT ![c] = NoToken]
  /\ fetchStart' = [fetchStart EXCEPT ![c] = 0]
  /\ reply' = [reply EXCEPT ![c] = NoReply]
  /\ returned' = NoReturn
  /\ UNCHANGED <<now, envVars, cache>>

(* purge_cache: it takes the write lock of the cache, not refresh_lock.    *)
Purge ==
  /\ cache' = NoKeySet
  /\ cleared' = Kids \ published.keys
  /\ returned' = NoReturn
  /\ UNCHANGED <<now, published, lastSeen, since, pinned, lock, callVars>>

(* The provider rotates, withdraws, adds or duplicates keys.               *)
Publish(s) ==
  /\ published' = s
  /\ lastSeen' = [k \in Kids |-> IF k \in s.keys THEN now ELSE lastSeen[k]]
  /\ since' = [k \in Kids |-> IF k \in published.keys THEN since[k] ELSE now]
  /\ cleared' = cleared \ s.keys
  /\ returned' = NoReturn
  /\ UNCHANGED <<now, pinned, cache, lock, callVars>>

(* Time passes, but not past the timer of a running fetch.                 *)
Tick ==
  /\ now < MaxTime
  /\ \A c \in Callers : pc[c] = "fetch" => now - fetchStart[c] < HttpTimeout
  /\ now' = now + 1
  /\ lastSeen' = [k \in Kids |-> IF k \in published.keys THEN now + 1
                                                         ELSE lastSeen[k]]
  /\ returned' = NoReturn
  /\ UNCHANGED <<published, since, cleared, pinned, cache, lock, callVars>>

Next ==
  \/ \E c \in Callers :
       \/ \E t \in Token : Begin(c, t)
       \/ UsePinned(c) \/ ReadCache(c) \/ FoundRefreshed(c) \/ StartFetch(c)
       \/ Serve(c) \/ FetchSucceeds(c) \/ FetchFails(c) \/ Drop(c)
  \/ \E s \in Sets : Publish(s)
  \/ Purge
  \/ Tick

Spec == Init /\ [][Next]_vars

-----------------------------------------------------------------------------
Accepts(kid) ==
  /\ returned' # NoReturn /\ returned'.verdict = "Ok" /\ ~pinned.present
  /\ token[returned'.caller].kid = kid

(* No stale-key grace (provider_jwt.rs 237-238): a key that was withdrawn  *)
(* is trusted for one fetch plus cache_ttl at most, outage or not, and a   *)
(* key that was never published is not trusted at all.                     *)
WithdrawnKeysExpire ==
  [][\A k \in Kids : Accepts(k) =>
       /\ lastSeen[k] # Never
       /\ \/ now - lastSeen[k] <= HttpTimeout
          \/ now - lastSeen[k] < HttpTimeout + Ttl]_vars

(* A new key is picked up (provider_jwt.rs 300-315): a good token is       *)
(* refused as Invalid only while its key is younger than one fetch plus    *)
(* the throttle on unknown kids.                                           *)
RefusedWrongly ==
  /\ returned' # NoReturn /\ returned'.verdict = "Invalid" /\ ~pinned.present
  /\ token[returned'.caller] # NoToken
  /\ token[returned'.caller].form = "good"
NewKeysArePickedUp ==
  [][RefusedWrongly =>
       LET kid == token[returned'.caller].kid IN
       \/ kid \notin published.keys
       \/ now - since[kid] <= HttpTimeout
       \/ now - since[kid] < HttpTimeout + Throttle]_vars

(* purge_cache purges the cached keys "after an urgent provider            *)
(* revocation" (provider_jwt.rs 283): a key withdrawn before the purge is  *)
(* not found in the cache after it, until the provider publishes it again. *)
PurgeTakesEffect == cache.set.keys \cap cleared = {}
=============================================================================
