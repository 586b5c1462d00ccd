---------------------------- MODULE KeySetProofs -----------------------------
(***************************************************************************)
(* Proofs about the two key set caches: GuardJwks, the guard's, for any    *)
(* number of requests, any keys and any ttl, grace and fetch timeout; and  *)
(* in the second part ProviderJwks, the provider token verifier's.         *)
(*                                                                         *)
(* The argument for GuardJwks: whoever fetches holds the lock (LockInv),   *)
(* so a fetch in flight was sent after the set in the cache was stored     *)
(* (FetchInv).  The keys of a set are as recent as the moment it was       *)
(* served (CacheInv), and a set reaches the cache at most ArmTimeout after *)
(* that moment.                                                            *)
(***************************************************************************)
EXTENDS GuardJwks, TLAPS

LockInv == \A c \in Callers : pc[c] = "fetch" <=> lock = c

(* What a request carries at each of its awaits.                           *)
CallInv ==
  \A c \in Callers :
    /\ pc[c] # "idle" => token[c] \in Token
    /\ pc[c] = "idle" => ~steady[c]
    /\ pc[c] \in {"idle", "read"} =>
         ~forced[c] /\ ~outage[c] /\ fetches[c] = 0
    /\ pc[c] = "lock" => fetches[c] = 0 \/ (forced[c] /\ fetches[c] = 1
                                                       /\ outage[c])
    /\ pc[c] = "fetch" => fetches[c] = 1 \/ (fetches[c] = 2 /\ outage[c])
    /\ ~forced[c] /\ pc[c] = "fetch" => fetches[c] = 1

SeenInv ==
  \A k \in Kids :
    /\ lastSeen[k] <= now
    /\ k \in published => lastSeen[k] = now

CacheInv ==
  /\ cache.servedAt <= cache.at /\ cache.at <= now
  /\ cache.at <= cache.servedAt + ArmTimeout
  /\ \A k \in cache.keys : lastSeen[k] >= cache.servedAt

(* Only a fetch in flight has an answer under way, and it was sent after   *)
(* the cached set was stored.                                              *)
FetchInv ==
  \A c \in Callers :
    /\ pc[c] # "fetch" => reply[c] = NoReply
    /\ pc[c] = "fetch" =>
      /\ cache.at <= fetchStart[c]
      /\ fetchStart[c] <= now /\ now <= fetchStart[c] + ArmTimeout
      /\ reply[c].sent =>
           /\ fetchStart[c] <= reply[c].at /\ reply[c].at <= now
           /\ \A k \in reply[c].keys : lastSeen[k] >= reply[c].at

SteadyInv ==
  \A c \in Callers :
    steady[c] =>
      /\ token[c].kid \in published
      /\ pc[c] = "fetch" /\ reply[c].sent => token[c].kid \in reply[c].keys

StaleInv ==
  \A c \in Callers : pc[c] = "fetch" /\ ~forced[c] => ~Fresh

IInv ==
  /\ TypeOK /\ LockInv /\ CallInv /\ SeenInv
  /\ CacheInv /\ FetchInv /\ SteadyInv /\ StaleInv

-----------------------------------------------------------------------------
USE TimeAssumption, NoneAssumption, PinAssumption

LEMMA InitIInv == Init => IInv
<1> SUFFICES ASSUME Init PROVE IInv
  OBVIOUS
<1>1. TypeOK
  BY DEF Init, TypeOK, KeySet, NoKeySet, Reply, NoReply
<1>2. LockInv /\ CallInv /\ SteadyInv /\ FetchInv /\ StaleInv
  BY DEF Init, LockInv, CallInv, SteadyInv, FetchInv, StaleInv
<1>3. SeenInv /\ CacheInv
  BY DEF Init, SeenInv, CacheInv, NoKeySet, Never
<1> QED
  BY <1>1, <1>2, <1>3 DEF IInv

-----------------------------------------------------------------------------
(* The ways a request's step ends.                                         *)
LEMMA UseKeysCases ==
  ASSUME NEW c \in Callers, NEW keys, NEW justFetched \in BOOLEAN,
         NEW failed \in BOOLEAN, UseKeys(c, keys, justFetched, failed)
  PROVE  \/ /\ WaitForLock(c, TRUE, failed)
            /\ ~justFetched /\ ~forced[c] /\ pinned = NoPin
         \/ Returns(c, Verify(token[c], keys), failed)
BY DEF UseKeys

LEMMA VerifyType ==
  ASSUME NEW t, NEW keys
  PROVE  Verify(t, keys) \in Verified
BY DEF Verify, Verified

(* A request that is over disturbs no invariant, whatever it stored.       *)
LEMMA FinishStep ==
  ASSUME IInv, NEW c \in Callers, Finish(c),
         lock' = IF lock = c THEN NoCaller ELSE lock,
         UNCHANGED <<now, envVars>>,
         returned' \in Return \cup {NoReturn},
         cache' \in KeySet, CacheInv',
         \A d \in Callers \ {c} : pc[d] = "fetch" => cache' = cache
  PROVE  IInv'
<1> USE DEF IInv, Finish, envVars
<1>1. TypeOK'
  BY DEF TypeOK, Reply, NoReply
<1>2. LockInv'
  BY DEF LockInv, TypeOK
<1>3. CallInv'
  BY DEF CallInv, TypeOK
<1>4. SeenInv'
  BY DEF SeenInv
<1>5. FetchInv'
  BY DEF FetchInv, TypeOK
<1>6. SteadyInv'
  BY DEF SteadyInv, TypeOK
<1>7. StaleInv'
  BY DEF StaleInv, Fresh, TypeOK
<1> QED
  BY <1>1, <1>2, <1>3, <1>4, <1>5, <1>6, <1>7

(* Neither does one that goes to wait for the lock.                        *)
LEMMA WaitStep ==
  ASSUME IInv, NEW c \in Callers, NEW force \in BOOLEAN,
         NEW failed \in BOOLEAN, WaitForLock(c, force, failed),
         pc[c] # "idle",
         fetches[c] = 0 \/ (force /\ failed /\ fetches[c] = 1),
         lock' = IF lock = c THEN NoCaller ELSE lock,
         UNCHANGED <<now, envVars>>,
         cache' \in KeySet, CacheInv',
         \A d \in Callers \ {c} : pc[d] = "fetch" => cache' = cache
  PROVE  IInv'
<1> USE DEF IInv, WaitForLock, envVars
<1>1. TypeOK'
  BY DEF TypeOK, Reply, NoReply
<1>2. LockInv'
  BY DEF LockInv, TypeOK
<1>3. CallInv'
  BY DEF CallInv, TypeOK
<1>4. SeenInv'
  BY DEF SeenInv
<1>5. FetchInv'
  BY DEF FetchInv, TypeOK
<1>6. SteadyInv'
  BY DEF SteadyInv, TypeOK
<1>7. StaleInv'
  BY DEF StaleInv, Fresh, TypeOK
<1> QED
  BY <1>1, <1>2, <1>3, <1>4, <1>5, <1>6, <1>7

(* A step that looks at a set without storing one.                         *)
LEMMA UseKeysStep ==
  ASSUME IInv, NEW c \in Callers, NEW keys, NEW failed \in BOOLEAN,
         UseKeys(c, keys, FALSE, failed),
         pc[c] # "idle",
         pc[c] = "fetch" => failed,
         lock' = IF lock = c THEN NoCaller ELSE lock,
         UNCHANGED <<now, envVars, cache>>
  PROVE  IInv'
<1>1. cache' \in KeySet /\ CacheInv'
  BY DEF IInv, TypeOK, CacheInv, envVars
<1>3. CASE WaitForLock(c, TRUE, failed) /\ ~forced[c]
  <2>1. fetches[c] = 0 \/ (failed /\ fetches[c] = 1)
    BY <1>3 DEF IInv, TypeOK, CallInv
  <2> QED
    BY <1>1, <1>3, <2>1, WaitStep DEF envVars
<1>4. CASE Returns(c, Verify(token[c], keys), failed)
  <2>1. Finish(c) /\ returned' \in Return \cup {NoReturn}
    BY <1>4, VerifyType DEF Returns, Return
  <2> QED
    BY <1>1, <2>1, FinishStep DEF envVars
<1> QED
  BY <1>3, <1>4, UseKeysCases

-----------------------------------------------------------------------------
(* Every step keeps the invariant: one step per action.                    *)
LEMMA BeginStep ==
  ASSUME IInv, NEW c \in Callers, NEW t \in Token, Begin(c, t)
  PROVE  IInv'
<1> USE DEF IInv, Begin, envVars
<1>1. TypeOK'
  BY DEF TypeOK, Token
<1>2. LockInv' /\ CallInv'
  BY DEF LockInv, CallInv, TypeOK
<1>3. SeenInv' /\ CacheInv' /\ FetchInv'
  BY DEF SeenInv, CacheInv, FetchInv, TypeOK
<1>4. SteadyInv' /\ StaleInv'
  BY DEF SteadyInv, StaleInv, Fresh, TypeOK
<1> QED
  BY <1>1, <1>2, <1>3, <1>4

LEMMA ReadStep ==
  ASSUME IInv, NEW c \in Callers, Read(c)
  PROVE  IInv'
<1>1. /\ pc[c] = "read" /\ outage[c] \in BOOLEAN
      /\ fetches[c] = 0 /\ lock # c
      /\ UNCHANGED <<now, envVars, cache, lock>>
  BY DEF Read, UsePinned, ReadCache, IInv, TypeOK, LockInv, CallInv
<1>2. CASE \E keys : UseKeys(c, keys, FALSE, outage[c])
  BY <1>1, <1>2, UseKeysStep
<1>3. CASE WaitForLock(c, FALSE, outage[c])
  <2>1. cache' \in KeySet /\ CacheInv'
    BY <1>1 DEF IInv, TypeOK, CacheInv, envVars
  <2> QED
    BY <1>1, <1>3, <2>1, WaitStep
<1> QED
  BY <1>2, <1>3 DEF Read, UsePinned, ReadCache

LEMMA FoundRefreshedStep ==
  ASSUME IInv, NEW c \in Callers, FoundRefreshed(c)
  PROVE  IInv'
<1>1. /\ pc[c] = "lock" /\ outage[c] \in BOOLEAN
      /\ lock' = IF lock = c THEN NoCaller ELSE lock
      /\ UNCHANGED <<now, envVars, cache>>
      /\ UseKeys(c, cache.keys, FALSE, outage[c])
  BY DEF FoundRefreshed, IInv, TypeOK
<1> QED
  BY <1>1, UseKeysStep

LEMMA StartFetchStep ==
  ASSUME IInv, NEW c \in Callers, StartFetch(c)
  PROVE  IInv'
<1> USE DEF IInv, StartFetch, envVars
<1>1. fetches[c] = 0 \/ (fetches[c] = 1 /\ outage[c] /\ forced[c])
  BY DEF CallInv
<1>2. TypeOK'
  BY <1>1 DEF TypeOK
<1>3. LockInv'
  BY DEF LockInv, TypeOK
<1>4. CallInv'
  BY <1>1 DEF CallInv, TypeOK
<1>5. SeenInv' /\ CacheInv'
  BY DEF SeenInv, CacheInv
<1>6. reply[c].sent = FALSE
  BY DEF FetchInv, NoReply
<1>7. FetchInv'
  BY <1>6 DEF FetchInv, CacheInv, TypeOK
<1>8. SteadyInv' /\ StaleInv'
  BY <1>6 DEF SteadyInv, StaleInv, Fresh, TypeOK
<1> QED
  BY <1>2, <1>3, <1>4, <1>5, <1>7, <1>8

LEMMA ServeStep ==
  ASSUME IInv, NEW c \in Callers, Serve(c)
  PROVE  IInv'
<1> USE DEF IInv, Serve, envVars
<1>1. TypeOK'
  BY DEF TypeOK, Reply
<1>2. LockInv' /\ CallInv' /\ SeenInv' /\ CacheInv'
  BY DEF LockInv, CallInv, SeenInv, CacheInv
<1>3. FetchInv'
  BY DEF FetchInv, SeenInv, TypeOK
<1>4. SteadyInv' /\ StaleInv'
  BY DEF SteadyInv, StaleInv, Fresh, TypeOK
<1> QED
  BY <1>1, <1>2, <1>3, <1>4

LEMMA FetchSucceedsStep ==
  ASSUME IInv, NEW c \in Callers, FetchSucceeds(c)
  PROVE  IInv'
<1>1. /\ pc[c] = "fetch" /\ lock = c /\ lock' = NoCaller
      /\ outage[c] \in BOOLEAN
      /\ UNCHANGED <<now, envVars>>
      /\ UseKeys(c, reply[c].keys, TRUE, outage[c])
  BY DEF FetchSucceeds, IInv, TypeOK, LockInv
<1>2. cache' \in KeySet
  BY DEF FetchSucceeds, IInv, TypeOK, KeySet, Reply
<1>3. CacheInv'
  BY DEF FetchSucceeds, IInv, TypeOK, FetchInv, CacheInv, Reply, envVars
<1>4. \A d \in Callers \ {c} : pc[d] # "fetch"
  BY <1>1 DEF IInv, LockInv
<1>5. Returns(c, Verify(token[c], reply[c].keys), outage[c])
  BY <1>1, UseKeysCases
<1>6. Finish(c) /\ returned' \in Return \cup {NoReturn}
  BY <1>1, <1>5, VerifyType DEF Returns, Return
<1> QED
  BY <1>1, <1>2, <1>3, <1>4, <1>6, FinishStep

LEMMA FetchFailsStep ==
  ASSUME IInv, NEW c \in Callers, FetchFails(c)
  PROVE  IInv'
<1>1. /\ pc[c] = "fetch" /\ lock = c /\ lock' = NoCaller
      /\ UNCHANGED <<now, envVars, cache>>
  BY DEF FetchFails, IInv, LockInv
<1>2. CASE UseKeys(c, cache.keys, FALSE, TRUE)
  BY <1>1, <1>2, UseKeysStep
<1>3. CASE Returns(c, "Unavailable", TRUE)
  <2>1. cache' \in KeySet /\ CacheInv'
    BY <1>1 DEF IInv, TypeOK, CacheInv, envVars
  <2>3. Finish(c) /\ returned' \in Return \cup {NoReturn}
    BY <1>3 DEF Returns, Return, Verified
  <2> QED
    BY <1>1, <2>1, <2>3, FinishStep
<1> QED
  BY <1>2, <1>3 DEF FetchFails

LEMMA DropStep ==
  ASSUME IInv, NEW c \in Callers, Drop(c)
  PROVE  IInv'
<1>1. cache' \in KeySet /\ CacheInv'
  BY DEF Drop, IInv, TypeOK, CacheInv, envVars
<1>2. cache' = cache
  BY DEF Drop
<1> QED
  BY <1>1, <1>2, FinishStep DEF Drop

LEMMA PublishStep ==
  ASSUME IInv, NEW S \in SUBSET Kids, Publish(S)
  PROVE  IInv'
<1> USE DEF IInv, Publish
<1>1. TypeOK'
  BY DEF TypeOK
<1>2. \A k \in Kids : lastSeen[k] <= lastSeen'[k]
  BY DEF SeenInv, TypeOK, Never
<1>3. LockInv' /\ CallInv'
  BY DEF LockInv, CallInv, TypeOK
<1>4. SeenInv'
  BY DEF SeenInv, TypeOK
<1>5. CacheInv'
  BY <1>1, <1>2 DEF CacheInv, TypeOK, KeySet, Never
<1>6. FetchInv'
  BY <1>1, <1>2 DEF FetchInv, TypeOK, Reply, Never
<1>7. SteadyInv' /\ StaleInv'
  BY DEF SteadyInv, StaleInv, Fresh, TypeOK
<1> QED
  BY <1>1, <1>3, <1>4, <1>5, <1>6, <1>7

LEMMA TickStep ==
  ASSUME IInv, Tick
  PROVE  IInv'
<1> USE DEF IInv, Tick, callVars
<1>1. TypeOK'
  BY DEF TypeOK
<1>2. \A k \in Kids : lastSeen[k] <= lastSeen'[k]
  BY DEF SeenInv, TypeOK, Never
<1>3. LockInv' /\ CallInv' /\ SteadyInv'
  BY DEF LockInv, CallInv, SteadyInv
<1>4. SeenInv'
  BY DEF SeenInv, TypeOK, Never
<1>5. CacheInv'
  BY <1>1, <1>2 DEF CacheInv, TypeOK, KeySet, Never
<1>6. FetchInv'
  BY <1>1, <1>2 DEF FetchInv, TypeOK, Reply, KeySet, Never
<1>7. StaleInv'
  BY DEF StaleInv, Fresh, TypeOK, KeySet
<1> QED
  BY <1>1, <1>3, <1>4, <1>5, <1>6, <1>7

LEMMA IInvStep == IInv /\ [Next]_vars => IInv'
<1> SUFFICES ASSUME IInv, [Next]_vars PROVE IInv'
  OBVIOUS
<1>1. CASE UNCHANGED vars
  BY <1>1
     DEF vars, envVars, callVars, IInv, TypeOK, LockInv, CallInv, SeenInv,
         CacheInv, FetchInv, SteadyInv, StaleInv, Fresh
<1>2. CASE Next
  BY <1>2, BeginStep, ReadStep, FoundRefreshedStep, StartFetchStep, ServeStep,
     FetchSucceedsStep, FetchFailsStep, DropStep, PublishStep, TickStep
     DEF Next, Acquire, FetchEnds
<1> QED
  BY <1>1, <1>2

LEMMA IInvHolds == Spec => []IInv
BY InitIInv, IInvStep, PTL DEF Spec

-----------------------------------------------------------------------------
(* Every reachable state is well typed; in particular no call ever sends a *)
(* third fetch.                                                            *)
THEOREM TypeCorrect == Spec => []TypeOK
<1>1. IInv => TypeOK
  BY DEF IInv
<1> QED
  BY <1>1, IInvHolds, PTL

(* A call's second fetch follows a failed first one (guard.rs 359-360).    *)
THEOREM SecondFetchCorrect == Spec => []SecondFetchOnlyAfterFailure
<1>1. IInv => SecondFetchOnlyAfterFailure
  <2> SUFFICES ASSUME IInv, NEW c \in Callers, fetches[c] = 2
               PROVE  outage[c]
    BY DEF SecondFetchOnlyAfterFailure
  <2>1. pc[c] \in {"idle", "read", "lock", "fetch"}
    BY DEF IInv, TypeOK
  <2> QED
    BY <2>1 DEF IInv, CallInv
<1> QED
  BY <1>1, IInvHolds, PTL

-----------------------------------------------------------------------------
(* What a returned verdict says about the set it was reached on.           *)
LEMMA UseKeysReturned ==
  ASSUME NEW c \in Callers, NEW keys, NEW justFetched \in BOOLEAN,
         NEW failed \in BOOLEAN, UseKeys(c, keys, justFetched, failed),
         returned' # NoReturn
  PROVE  /\ returned'.caller = c /\ returned'.outage = failed
         /\ returned'.verdict = "Ok" => token[c].kid \in keys
         /\ returned'.verdict = "Unavailable" =>
              /\ token[c].kid \notin keys
              /\ justFetched \/ forced[c] \/ pinned # NoPin
BY DEF UseKeys, WaitForLock, Returns, Verify

LEMMA ReturnsFields ==
  ASSUME NEW c, NEW v, NEW failed, Returns(c, v, failed)
  PROVE  returned'.caller = c /\ returned'.verdict = v /\ returned'.outage = failed
BY DEF Returns

LEMMA AcceptStep == IInv /\ [Next]_vars => [AcceptedInWindow]_vars
<1> SUFFICES ASSUME IInv, Next, returned' # NoReturn, pinned = NoPin,
                    returned'.verdict = "Ok"
             PROVE  AcceptedInWindow
  BY DEF AcceptedInWindow
<1> DEFINE c == returned'.caller
           kid == token[c].kid
<1>1. ASSUME c \in Callers, kid \in cache.keys, Fresh
      PROVE  AcceptedInWindow
  <2>1. kid \in Kids /\ lastSeen[kid] >= cache.servedAt
    BY <1>1 DEF IInv, TypeOK, KeySet, CacheInv
  <2> QED
    BY <1>1, <2>1
       DEF AcceptedInWindow, Age, Never, Fresh, IInv, TypeOK, KeySet, CacheInv
<1>2. ASSUME NEW d \in Callers, Read(d)
      PROVE  AcceptedInWindow
  <2>1. Fresh /\ outage[d] \in BOOLEAN
        /\ UseKeys(d, cache.keys, FALSE, outage[d])
    BY <1>2 DEF Read, UsePinned, ReadCache, WaitForLock, IInv, TypeOK
  <2>2. c = d /\ kid \in cache.keys
    BY <2>1, UseKeysReturned
  <2> QED
    BY <1>1, <2>1, <2>2
<1>3. ASSUME NEW d \in Callers, FoundRefreshed(d)
      PROVE  AcceptedInWindow
  <2>1. Fresh /\ outage[d] \in BOOLEAN
        /\ UseKeys(d, cache.keys, FALSE, outage[d])
    BY <1>3 DEF FoundRefreshed, IInv, TypeOK
  <2>2. c = d /\ kid \in cache.keys
    BY <2>1, UseKeysReturned
  <2> QED
    BY <1>1, <2>1, <2>2
<1>4. ASSUME NEW d \in Callers, FetchSucceeds(d)
      PROVE  AcceptedInWindow
  <2>0. outage[d] \in BOOLEAN /\ UseKeys(d, reply[d].keys, TRUE, outage[d])
    BY <1>4 DEF FetchSucceeds, IInv, TypeOK
  <2>1. c = d /\ kid \in reply[d].keys
    BY <2>0, UseKeysReturned
  <2>2. kid \in Kids /\ lastSeen[kid] >= reply[d].at
    BY <1>4, <2>1 DEF FetchSucceeds, IInv, TypeOK, Reply, FetchInv
  <2>3. /\ reply[d].at \in Nat /\ fetchStart[d] \in Nat /\ now \in Nat
        /\ fetchStart[d] <= reply[d].at /\ now <= fetchStart[d] + ArmTimeout
        /\ lastSeen[kid] \in Nat \cup {Never}
    BY <1>4, <2>2 DEF FetchSucceeds, IInv, TypeOK, Reply, FetchInv
  <2>4. lastSeen[kid] # Never /\ Age(kid) <= ArmTimeout
    BY <2>2, <2>3 DEF Age, Never
  <2> QED
    BY <2>4 DEF AcceptedInWindow
<1>5. ASSUME NEW d \in Callers, FetchFails(d)
      PROVE  AcceptedInWindow
  <2>1. Usable /\ UseKeys(d, cache.keys, FALSE, TRUE)
    BY <1>5, ReturnsFields DEF FetchFails
  <2>2. c = d /\ kid \in cache.keys /\ returned'.outage
    BY <2>1, UseKeysReturned
  <2>3. kid \in Kids /\ lastSeen[kid] >= cache.servedAt
    BY <2>2 DEF IInv, TypeOK, KeySet, CacheInv
  <2> QED
    BY <2>1, <2>2, <2>3
       DEF AcceptedInWindow, Age, Never, Usable, IInv, TypeOK, KeySet, CacheInv
<1> QED
  BY <1>2, <1>3, <1>4, <1>5
     DEF Next, Acquire, FetchEnds, Begin, StartFetch, Serve, Drop, Publish, Tick

(* Whatever the authority publishes and withdraws, and however many        *)
(* requests share the cache, a withdrawn key is trusted for at most one    *)
(* fetch plus jwks_ttl, or one fetch plus jwks_grace during an outage.     *)
THEOREM RevocationCorrect == Spec => RevocationWindow
<1>1. IInv /\ [Next]_vars => [AcceptedInWindow]_vars
  BY AcceptStep
<1> QED
  BY <1>1, IInvHolds, PTL DEF Spec, RevocationWindow

LEMMA SeamlessStep == IInv /\ [Next]_vars => [UndecidedOnlyInOutage]_vars
<1> SUFFICES ASSUME IInv, Next, returned' # NoReturn, pinned = NoPin,
                    returned'.verdict = "Unavailable",
                    steady[returned'.caller]
             PROVE  returned'.outage
  BY DEF UndecidedOnlyInOutage
<1>1. ASSUME NEW d \in Callers, Read(d) \/ FoundRefreshed(d)
      PROVE  FALSE
  <2>1. /\ ~forced[d] /\ outage[d] \in BOOLEAN
        /\ UseKeys(d, cache.keys, FALSE, outage[d])
    BY <1>1 DEF Read, UsePinned, ReadCache, WaitForLock, FoundRefreshed,
                IInv, TypeOK, CallInv
  <2>2. WaitForLock(d, TRUE, outage[d])
        \/ Returns(d, Verify(token[d], cache.keys), outage[d])
    BY <2>1, UseKeysCases
  <2>3. Returns(d, Verify(token[d], cache.keys), outage[d])
    BY <2>2 DEF WaitForLock
  <2>4. Verify(token[d], cache.keys) = "Unavailable"
    BY <2>3, ReturnsFields
  <2> QED
    BY <2>1, <2>3, <2>4 DEF UseKeys, WaitForLock
<1>2. ASSUME NEW d \in Callers, FetchSucceeds(d)
      PROVE  FALSE
  <2>1. pc[d] = "fetch" /\ reply[d].sent /\ outage[d] \in BOOLEAN
        /\ UseKeys(d, reply[d].keys, TRUE, outage[d])
    BY <1>2 DEF FetchSucceeds, IInv, TypeOK
  <2>2. Returns(d, Verify(token[d], reply[d].keys), outage[d])
    BY <2>1, UseKeysCases
  <2>3. /\ returned'.caller = d
        /\ Verify(token[d], reply[d].keys) = "Unavailable"
    BY <2>2, ReturnsFields
  <2> QED
    BY <2>1, <2>3 DEF Verify, IInv, SteadyInv
<1>3. ASSUME NEW d \in Callers, FetchFails(d)
      PROVE  returned'.outage
  <2>1. CASE UseKeys(d, cache.keys, FALSE, TRUE)
    <3>1. returned'.outage = TRUE
      BY <2>1, UseKeysReturned
    <3> QED
      BY <3>1
  <2>2. CASE Returns(d, "Unavailable", TRUE)
    <3>1. returned'.outage = TRUE
      BY <2>2, ReturnsFields
    <3> QED
      BY <3>1
  <2> QED
    BY <1>3, <2>1, <2>2 DEF FetchFails
<1> QED
  BY <1>1, <1>2, <1>3
     DEF Next, Acquire, FetchEnds, Begin, StartFetch, Serve, Drop, Publish, Tick

(* A key rotation alone never makes a good token undecidable.              *)
THEOREM RotationCorrect == Spec => RotationIsSeamless
<1>1. IInv /\ [Next]_vars => [UndecidedOnlyInOutage]_vars
  BY SeamlessStep
<1> QED
  BY <1>1, IInvHolds, PTL DEF Spec, RotationIsSeamless

(* The only step that stores a set.                                        *)
LEMMA OnlyFetchStores ==
  ASSUME Next, cache' # cache
  PROVE  \E c \in Callers : FetchSucceeds(c)
BY DEF Next, Read, UsePinned, ReadCache, Acquire, FoundRefreshed, FetchEnds,
       FetchFails, Begin, StartFetch, Serve, Drop, Publish, Tick

LEMMA CacheStep ==
  IInv /\ [Next]_vars => cache'.servedAt >= cache.servedAt
<1> SUFFICES ASSUME IInv, [Next]_vars PROVE cache'.servedAt >= cache.servedAt
  OBVIOUS
<1>1. CASE cache' = cache
  BY <1>1 DEF IInv, TypeOK, KeySet
<1>2. CASE cache' # cache
  <2>1. PICK c \in Callers : FetchSucceeds(c)
    BY <1>2, OnlyFetchStores DEF vars
  <2> QED
    BY <2>1 DEF FetchSucceeds, IInv, TypeOK, KeySet, Reply, CacheInv, FetchInv
<1> QED
  BY <1>1, <1>2

(* A set is never replaced by one served before it.                        *)
THEOREM CacheMonotone == Spec => CacheNeverRegresses
<1>1. IInv /\ [Next]_vars => [cache'.servedAt >= cache.servedAt]_vars
  BY CacheStep
<1> QED
  BY <1>1, IInvHolds, PTL DEF Spec, CacheNeverRegresses

(* Within its ttl a set is replaced only by a forced fetch.                *)
THEOREM RefreshNotRepeated == Spec => NoRedundantRefresh
<1> DEFINE A == cache' # cache /\ Fresh =>
                  \E c \in Callers : lock = c /\ forced[c]
<1>1. IInv /\ [Next]_vars => [A]_vars
  <2> SUFFICES ASSUME IInv, Next, cache' # cache, Fresh
               PROVE  \E c \in Callers : lock = c /\ forced[c]
    OBVIOUS
  <2>1. PICK c \in Callers : FetchSucceeds(c)
    BY OnlyFetchStores
  <2> QED
    BY <2>1 DEF FetchSucceeds, IInv, LockInv, StaleInv
<1> QED
  BY <1>1, IInvHolds, PTL DEF Spec, NoRedundantRefresh

-----------------------------------------------------------------------------
(* ProviderJwks, for any number of verifications, any keys and any ttl,    *)
(* throttle and fetch timeout, with purges at any time.  Provider is that  *)
(* module over these variables; what it assumes of its constants is a      *)
(* hypothesis of each theorem.                                             *)
(*                                                                         *)
(* The argument: a set reaches the cache at most HttpTimeout after its     *)
(* fetch was sent (ProviderFetchInv), so what it holds was published, and  *)
(* what it lacks was not, at most HttpTimeout before it was stored         *)
(* (ProviderCacheInv).                                                     *)
CONSTANTS Sets, Throttle, HttpTimeout      \* see ProviderJwks
VARIABLES since, cleared

Provider == INSTANCE ProviderJwks

ProviderAssumptions ==
  /\ Provider!TimeAssumption
  /\ Provider!SetsAssumption
  /\ Provider!NoneAssumption

(* A verification has a token exactly as long as it runs.                 *)
ProviderCallInv ==
  \A c \in Callers :
    /\ pc[c] = "idle" => token[c] = NoToken
    /\ pc[c] # "idle" => token[c] \in Provider!Token

ProviderSeenInv ==
  \A k \in Kids :
    /\ lastSeen[k] <= now /\ since[k] <= now
    /\ k \in published.keys => lastSeen[k] = now

(* The set in the cache is at most a fetch behind the provider.            *)
ProviderCacheInv ==
  /\ cache.at <= now
  /\ \A k \in cache.set.keys :
       lastSeen[k] # Provider!Never /\ cache.at <= lastSeen[k] + HttpTimeout
  /\ cache.present =>
       \A k \in published.keys \ cache.set.keys : cache.at <= since[k] + HttpTimeout

(* So is an answer under way.                                              *)
ProviderFetchInv ==
  \A c \in Callers : pc[c] = "fetch" =>
    /\ fetchStart[c] <= now /\ now <= fetchStart[c] + HttpTimeout
    /\ reply[c].sent =>
         /\ \A k \in reply[c].set.keys : lastSeen[k] >= fetchStart[c]
         /\ \A k \in published.keys \ reply[c].set.keys : since[k] >= fetchStart[c]

(* No answer is under way before the fetch is sent.                        *)
ProviderReplyInv == \A c \in Callers : pc[c] # "fetch" => ~reply[c].sent

ProviderIInv ==
  /\ Provider!TypeOK /\ ProviderCallInv /\ ProviderSeenInv
  /\ ProviderCacheInv /\ ProviderFetchInv /\ ProviderReplyInv

-----------------------------------------------------------------------------
USE DEF ProviderAssumptions, Provider!TimeAssumption, Provider!SetsAssumption,
        Provider!NoneAssumption

LEMMA ProviderJwksType ==
  ASSUME NEW s \in Provider!Jwks
  PROVE  s.keys \in SUBSET Kids /\ s.twice \in SUBSET Kids
BY DEF Provider!Jwks

LEMMA ProviderNoKeysType ==
  Provider!NoKeys \in Provider!Jwks /\ Provider!NoKeys.keys = {}
BY DEF Provider!NoKeys, Provider!Jwks

LEMMA ProviderInitIInv ==
  ASSUME ProviderAssumptions
  PROVE  Provider!Init => ProviderIInv
<1> SUFFICES ASSUME Provider!Init PROVE ProviderIInv
  OBVIOUS
<1>1. published \in Provider!Jwks /\ published.keys \in SUBSET Kids
  BY ProviderJwksType DEF Provider!Init
<1>2. Provider!NoKeySet \in Provider!KeySet /\ Provider!NoReply \in Provider!Reply
  BY ProviderNoKeysType
     DEF Provider!NoKeySet, Provider!KeySet, Provider!NoReply, Provider!Reply
<1>3. pinned \in Provider!KeySet
  <2>1. ASSUME NEW s \in Sets
        PROVE  [present |-> TRUE, set |-> s, at |-> 0] \in Provider!KeySet
    BY DEF Provider!KeySet
  <2> QED
    BY <1>2, <2>1 DEF Provider!Init
<1>4. Provider!TypeOK
  BY <1>1, <1>2, <1>3 DEF Provider!Init, Provider!TypeOK
<1>5. ProviderCallInv /\ ProviderFetchInv /\ ProviderReplyInv
  BY DEF Provider!Init, ProviderCallInv, ProviderFetchInv, ProviderReplyInv,
         Provider!NoReply
<1>6. ProviderSeenInv /\ ProviderCacheInv
  BY <1>1, ProviderNoKeysType
     DEF Provider!Init, ProviderSeenInv, ProviderCacheInv, Provider!NoKeySet,
         Provider!Never
<1> QED
  BY <1>4, <1>5, <1>6 DEF ProviderIInv

-----------------------------------------------------------------------------
LEMMA ProviderVerifyType ==
  ASSUME NEW t, NEW set
  PROVE  /\ Provider!VerifyWith(t, set) \in {"Ok", "Invalid", "Unavailable"}
         /\ Provider!VerifyWith(t, set) = "Ok" => t.kid \in set.keys
         /\ Provider!VerifyWith(t, set) = "Invalid" /\ t.form = "good"
              => t.kid \notin set.keys
BY DEF Provider!VerifyWith

(* A verification that is over disturbs no invariant, whatever it stored.  *)
LEMMA ProviderReturnStep ==
  ASSUME ProviderAssumptions, ProviderIInv, NEW c \in Callers,
         NEW v \in {"Ok", "Invalid", "Unavailable"}, Provider!Returns(c, v),
         lock' = IF lock = c THEN NoCaller ELSE lock,
         UNCHANGED <<now, Provider!envVars>>, cache' \in Provider!KeySet,
         ProviderCacheInv'
  PROVE  ProviderIInv'
<1> USE DEF ProviderIInv, Provider!Returns, Provider!envVars
<1>1. Provider!NoReply \in Provider!Reply /\ ~Provider!NoReply.sent
  BY ProviderNoKeysType DEF Provider!NoReply, Provider!Reply
<1>2. returned' \in Provider!Return
  BY DEF Provider!Return
<1>3. Provider!TypeOK'
  BY <1>1, <1>2 DEF Provider!TypeOK
<1>4. ProviderCallInv' /\ ProviderSeenInv'
  BY DEF ProviderCallInv, ProviderSeenInv, Provider!TypeOK
<1>5. ProviderFetchInv' /\ ProviderReplyInv'
  BY <1>1 DEF ProviderFetchInv, ProviderReplyInv, Provider!TypeOK
<1> QED
  BY <1>3, <1>4, <1>5

(* One that decides by a set at hand leaves the cache alone.               *)
LEMMA ProviderDecideStep ==
  ASSUME ProviderAssumptions, ProviderIInv, NEW c \in Callers, NEW t, NEW set,
         Provider!Returns(c, Provider!VerifyWith(t, set)),
         pc[c] # "fetch", UNCHANGED <<now, Provider!envVars, cache, lock>>
  PROVE  ProviderIInv'
<1>1. lock # c
  BY DEF ProviderIInv, Provider!TypeOK
<1>2. cache' \in Provider!KeySet /\ ProviderCacheInv'
  BY DEF ProviderIInv, Provider!TypeOK, ProviderCacheInv, Provider!envVars
<1>3. Provider!VerifyWith(t, set) \in {"Ok", "Invalid", "Unavailable"}
  BY ProviderVerifyType
<1> QED
  BY <1>1, <1>2, <1>3, ProviderReturnStep

LEMMA ProviderBeginStep ==
  ASSUME ProviderAssumptions, ProviderIInv, NEW c \in Callers,
         NEW t \in Provider!Token, Provider!Begin(c, t)
  PROVE  ProviderIInv'
<1> USE DEF ProviderIInv, Provider!Begin, Provider!envVars
<1>1. CASE Provider!Returns(c, "Invalid")
  <2>1. lock # c
    BY DEF Provider!TypeOK
  <2>2. cache' \in Provider!KeySet /\ ProviderCacheInv'
    BY DEF Provider!TypeOK, ProviderCacheInv
  <2> QED
    BY <1>1, <2>1, <2>2, ProviderReturnStep
<1>2. CASE /\ t.form # "malformed"
           /\ pc' = [pc EXCEPT ![c] = "read"]
           /\ token' = [token EXCEPT ![c] = t]
           /\ returned' = NoReturn
           /\ UNCHANGED <<fetchStart, reply>>
  <2>1. Provider!TypeOK'
    BY <1>2 DEF Provider!TypeOK
  <2>2. ProviderCallInv' /\ ProviderSeenInv' /\ ProviderCacheInv'
    BY <1>2
       DEF ProviderCallInv, ProviderSeenInv, ProviderCacheInv, Provider!TypeOK
  <2>3. ProviderFetchInv' /\ ProviderReplyInv'
    BY <1>2 DEF ProviderFetchInv, ProviderReplyInv, Provider!TypeOK
  <2> QED
    BY <2>1, <2>2, <2>3
<1> QED
  BY <1>1, <1>2

LEMMA ProviderReadStep ==
  ASSUME ProviderAssumptions, ProviderIInv, NEW c \in Callers,
         Provider!UsePinned(c) \/ Provider!ReadCache(c)
  PROVE  ProviderIInv'
<1>1. pc[c] = "read" /\ UNCHANGED <<now, Provider!envVars, cache, lock>>
  BY DEF Provider!UsePinned, Provider!ReadCache
<1>2. ASSUME NEW set, Provider!Returns(c, Provider!VerifyWith(token[c], set))
      PROVE  ProviderIInv'
  BY <1>1, <1>2, ProviderDecideStep
<1>3. CASE /\ pc' = [pc EXCEPT ![c] = "lock"]
           /\ returned' = NoReturn
           /\ UNCHANGED <<token, fetchStart, reply>>
  <2> USE <1>1, <1>3 DEF ProviderIInv, Provider!envVars
  <2>1. Provider!TypeOK'
    BY DEF Provider!TypeOK
  <2>2. ProviderCallInv' /\ ProviderSeenInv' /\ ProviderCacheInv'
    BY DEF ProviderCallInv, ProviderSeenInv, ProviderCacheInv, Provider!TypeOK
  <2>3. ProviderFetchInv' /\ ProviderReplyInv'
    BY DEF ProviderFetchInv, ProviderReplyInv, Provider!TypeOK
  <2> QED
    BY <2>1, <2>2, <2>3
<1> QED
  BY <1>2, <1>3 DEF Provider!UsePinned, Provider!ReadCache

LEMMA ProviderFoundRefreshedStep ==
  ASSUME ProviderAssumptions, ProviderIInv, NEW c \in Callers,
         Provider!FoundRefreshed(c)
  PROVE  ProviderIInv'
BY ProviderDecideStep DEF Provider!FoundRefreshed

LEMMA ProviderStartFetchStep ==
  ASSUME ProviderAssumptions, ProviderIInv, NEW c \in Callers,
         Provider!StartFetch(c)
  PROVE  ProviderIInv'
<1> USE DEF ProviderIInv, Provider!StartFetch, Provider!envVars
<1>1. Provider!TypeOK'
  BY DEF Provider!TypeOK
<1>2. ProviderCallInv' /\ ProviderSeenInv' /\ ProviderCacheInv'
  BY DEF ProviderCallInv, ProviderSeenInv, ProviderCacheInv, Provider!TypeOK
<1>3. ~reply[c].sent
  BY DEF ProviderReplyInv
<1>4. ProviderFetchInv' /\ ProviderReplyInv'
  BY <1>3 DEF ProviderFetchInv, ProviderReplyInv, Provider!TypeOK
<1> QED
  BY <1>1, <1>2, <1>4

LEMMA ProviderServeStep ==
  ASSUME ProviderAssumptions, ProviderIInv, NEW c \in Callers, Provider!Serve(c)
  PROVE  ProviderIInv'
<1> USE DEF ProviderIInv, Provider!Serve, Provider!envVars
<1>1. published \in Provider!Jwks /\ published.keys \in SUBSET Kids
  BY ProviderJwksType DEF Provider!TypeOK
<1>2. Provider!TypeOK'
  BY <1>1 DEF Provider!TypeOK, Provider!Reply
<1>3. ProviderCallInv' /\ ProviderSeenInv' /\ ProviderCacheInv' /\ ProviderReplyInv'
  BY DEF ProviderCallInv, ProviderSeenInv, ProviderCacheInv, ProviderReplyInv,
         Provider!TypeOK
<1>4. ProviderFetchInv'
  <2> SUFFICES ASSUME NEW d \in Callers, pc[d] = "fetch"
               PROVE  /\ fetchStart[d] <= now /\ now <= fetchStart[d] + HttpTimeout
                      /\ reply'[d].sent =>
                           /\ \A k \in reply'[d].set.keys : lastSeen[k] >= fetchStart[d]
                           /\ \A k \in published.keys \ reply'[d].set.keys :
                                since[k] >= fetchStart[d]
    BY DEF ProviderFetchInv
  <2>1. CASE d = c
    BY <1>1, <2>1 DEF ProviderFetchInv, ProviderSeenInv, Provider!TypeOK
  <2>2. CASE d # c
    BY <2>2 DEF ProviderFetchInv, Provider!TypeOK
  <2> QED
    BY <2>1, <2>2
<1> QED
  BY <1>2, <1>3, <1>4

(* What a fetch stores was published while it ran.                         *)
LEMMA ProviderFetchSucceedsStep ==
  ASSUME ProviderAssumptions, ProviderIInv, NEW c \in Callers,
         Provider!FetchSucceeds(c)
  PROVE  ProviderIInv'
<1>1. lock = c /\ reply[c].set \in Provider!Jwks /\ now \in Nat /\ fetchStart[c] \in Nat
  BY DEF Provider!FetchSucceeds, ProviderIInv, Provider!TypeOK, Provider!Reply
<1>2. /\ cache' = [present |-> TRUE, set |-> reply[c].set, at |-> now]
      /\ cache'.at = now /\ cache'.set = reply[c].set
  BY DEF Provider!FetchSucceeds
<1>3. cache' \in Provider!KeySet
  BY <1>1, <1>2 DEF Provider!KeySet
<1>4. ProviderCacheInv'
  <2>1. \A k \in reply[c].set.keys :
          lastSeen[k] # Provider!Never /\ now <= lastSeen[k] + HttpTimeout
    BY <1>1, ProviderJwksType
       DEF Provider!FetchSucceeds, ProviderIInv, ProviderFetchInv,
           Provider!TypeOK, Provider!Never
  <2>2. \A k \in published.keys \ reply[c].set.keys : now <= since[k] + HttpTimeout
    BY <1>1, ProviderJwksType
       DEF Provider!FetchSucceeds, ProviderIInv, ProviderFetchInv,
           Provider!TypeOK
  <2> QED
    BY <1>1, <1>2, <2>1, <2>2
       DEF Provider!FetchSucceeds, ProviderCacheInv, Provider!envVars
<1>5. Provider!VerifyWith(token[c], reply[c].set) \in {"Ok", "Invalid", "Unavailable"}
  BY ProviderVerifyType
<1> QED
  BY <1>1, <1>3, <1>4, <1>5, ProviderReturnStep DEF Provider!FetchSucceeds

LEMMA ProviderFetchFailsStep ==
  ASSUME ProviderAssumptions, ProviderIInv, NEW c \in Callers,
         Provider!FetchFails(c)
  PROVE  ProviderIInv'
<1>1. lock = c
  BY DEF Provider!FetchFails, ProviderIInv, Provider!TypeOK
<1>2. cache' \in Provider!KeySet /\ ProviderCacheInv'
  BY DEF Provider!FetchFails, ProviderIInv, Provider!TypeOK, ProviderCacheInv,
         Provider!envVars
<1> QED
  BY <1>1, <1>2, ProviderReturnStep DEF Provider!FetchFails

LEMMA ProviderDropStep ==
  ASSUME ProviderAssumptions, ProviderIInv, NEW c \in Callers, Provider!Drop(c)
  PROVE  ProviderIInv'
<1> USE DEF ProviderIInv, Provider!Drop, Provider!envVars
<1>1. Provider!NoReply \in Provider!Reply /\ ~Provider!NoReply.sent
  BY ProviderNoKeysType DEF Provider!NoReply, Provider!Reply
<1>2. Provider!TypeOK'
  BY <1>1 DEF Provider!TypeOK
<1>3. ProviderCallInv' /\ ProviderSeenInv' /\ ProviderCacheInv'
  BY DEF ProviderCallInv, ProviderSeenInv, ProviderCacheInv, Provider!TypeOK
<1>4. ProviderFetchInv' /\ ProviderReplyInv'
  BY <1>1 DEF ProviderFetchInv, ProviderReplyInv, Provider!TypeOK
<1> QED
  BY <1>2, <1>3, <1>4

LEMMA ProviderPurgeStep ==
  ASSUME ProviderAssumptions
  PROVE  ProviderIInv /\ Provider!Purge => ProviderIInv'
<1> SUFFICES ASSUME ProviderIInv, Provider!Purge PROVE ProviderIInv'
  OBVIOUS
<1> USE DEF ProviderIInv, Provider!Purge, Provider!callVars
<1>1. /\ Provider!NoKeySet \in Provider!KeySet
      /\ Provider!NoKeySet.set.keys = {}
      /\ Provider!NoKeySet.at = 0
      /\ Provider!NoKeySet.present = FALSE
  BY ProviderNoKeysType DEF Provider!NoKeySet, Provider!KeySet
<1>2. Provider!TypeOK'
  BY <1>1 DEF Provider!TypeOK
<1>3. ProviderCallInv' /\ ProviderSeenInv' /\ ProviderCacheInv'
  BY <1>1
     DEF ProviderCallInv, ProviderSeenInv, ProviderCacheInv, Provider!TypeOK
<1>4. ProviderFetchInv' /\ ProviderReplyInv'
  BY DEF ProviderFetchInv, ProviderReplyInv
<1> QED
  BY <1>2, <1>3, <1>4

(* A rotation makes no key older, and a key it adds is as young as can be. *)
LEMMA ProviderPublishStep ==
  ASSUME ProviderAssumptions, ProviderIInv, NEW s \in Sets, Provider!Publish(s)
  PROVE  ProviderIInv'
<1> USE DEF ProviderIInv, Provider!Publish, Provider!callVars
<1>1. /\ s \in Provider!Jwks /\ s.keys \in SUBSET Kids
      /\ published.keys \in SUBSET Kids /\ now \in Nat
  BY ProviderJwksType DEF Provider!TypeOK
<1>2. Provider!TypeOK'
  BY <1>1 DEF Provider!TypeOK
<1>3. /\ \A k \in Kids : lastSeen[k] <= lastSeen'[k]
      /\ \A k \in Kids : lastSeen[k] # Provider!Never => lastSeen'[k] # Provider!Never
      /\ \A k \in s.keys : \/ since'[k] = now
                           \/ k \in published.keys /\ since'[k] = since[k]
  BY <1>1 DEF ProviderSeenInv, Provider!TypeOK, Provider!Never
<1>4. ProviderCallInv' /\ ProviderReplyInv'
  BY DEF ProviderCallInv, ProviderReplyInv
<1>5. ProviderSeenInv'
  BY <1>1 DEF ProviderSeenInv, Provider!TypeOK
<1>6. cache.set.keys \in SUBSET Kids /\ cache.at \in Nat
  BY ProviderJwksType DEF Provider!TypeOK, Provider!KeySet
<1>7. ProviderCacheInv'
  BY <1>1, <1>2, <1>3, <1>6
     DEF ProviderCacheInv, Provider!TypeOK, Provider!Never
<1>8. ProviderFetchInv'
  <2>1. \A c \in Callers : reply[c].set.keys \in SUBSET Kids /\ fetchStart[c] \in Nat
    BY ProviderJwksType DEF Provider!TypeOK, Provider!Reply
  <2> QED
    BY <1>1, <1>2, <1>3, <2>1
       DEF ProviderFetchInv, Provider!TypeOK, Provider!Never
<1> QED
  BY <1>2, <1>4, <1>5, <1>7, <1>8

LEMMA ProviderTickStep ==
  ASSUME ProviderAssumptions
  PROVE  ProviderIInv /\ Provider!Tick => ProviderIInv'
<1> SUFFICES ASSUME ProviderIInv, Provider!Tick PROVE ProviderIInv'
  OBVIOUS
<1> USE DEF ProviderIInv, Provider!Tick, Provider!callVars
<1>1. published.keys \in SUBSET Kids /\ now \in Nat
  BY ProviderJwksType DEF Provider!TypeOK
<1>2. Provider!TypeOK'
  BY <1>1 DEF Provider!TypeOK
<1>3. /\ \A k \in Kids : lastSeen[k] <= lastSeen'[k]
      /\ \A k \in Kids : lastSeen[k] # Provider!Never => lastSeen'[k] # Provider!Never
  BY <1>1 DEF ProviderSeenInv, Provider!TypeOK, Provider!Never
<1>4. ProviderCallInv' /\ ProviderReplyInv'
  BY DEF ProviderCallInv, ProviderReplyInv
<1>5. ProviderSeenInv'
  BY <1>1 DEF ProviderSeenInv, Provider!TypeOK, Provider!Never
<1>6. cache.set.keys \in SUBSET Kids /\ cache.at \in Nat
  BY ProviderJwksType DEF Provider!TypeOK, Provider!KeySet
<1>7. ProviderCacheInv'
  BY <1>1, <1>2, <1>3, <1>6
     DEF ProviderCacheInv, Provider!TypeOK, Provider!Never
<1>8. ProviderFetchInv'
  <2>1. \A c \in Callers : reply[c].set.keys \in SUBSET Kids /\ fetchStart[c] \in Nat
    BY ProviderJwksType DEF Provider!TypeOK, Provider!Reply
  <2> QED
    BY <1>1, <1>2, <1>3, <2>1
       DEF ProviderFetchInv, Provider!TypeOK, Provider!Never
<1> QED
  BY <1>2, <1>4, <1>5, <1>7, <1>8

LEMMA ProviderIInvStep ==
  ASSUME ProviderAssumptions
  PROVE  ProviderIInv /\ [Provider!Next]_(Provider!vars) => ProviderIInv'
<1> SUFFICES ASSUME ProviderIInv, [Provider!Next]_(Provider!vars) PROVE ProviderIInv'
  OBVIOUS
<1>1. CASE UNCHANGED Provider!vars
  BY <1>1
     DEF Provider!vars, Provider!envVars, Provider!callVars, ProviderIInv,
         Provider!TypeOK, ProviderCallInv, ProviderSeenInv, ProviderCacheInv,
         ProviderFetchInv, ProviderReplyInv
<1>2. CASE Provider!Next
  BY <1>2, ProviderBeginStep, ProviderReadStep, ProviderFoundRefreshedStep,
     ProviderStartFetchStep, ProviderServeStep, ProviderFetchSucceedsStep,
     ProviderFetchFailsStep, ProviderDropStep, ProviderPurgeStep,
     ProviderPublishStep, ProviderTickStep
     DEF Provider!Next
<1> QED
  BY <1>1, <1>2

LEMMA ProviderIInvHolds ==
  ASSUME ProviderAssumptions
  PROVE  Provider!Spec => []ProviderIInv
BY ProviderInitIInv, ProviderIInvStep, PTL DEF Provider!Spec

-----------------------------------------------------------------------------
(* Whoever fetches holds refresh_lock and nobody else fetches; every       *)
(* reachable state is well typed.                                          *)
THEOREM ProviderTypeCorrect ==
  ASSUME ProviderAssumptions
  PROVE  Provider!Spec => []Provider!TypeOK
<1>1. ProviderIInv => Provider!TypeOK
  BY DEF ProviderIInv
<1> QED
  BY <1>1, ProviderIInvHolds, PTL

(* A verification that returns has decided by a set: the pinned one, the   *)
(* one in the cache, which answers for its kid, or the one just fetched.   *)
LEMMA ProviderReturnedBy ==
  ASSUME ProviderAssumptions, ProviderIInv, Provider!Next,
         returned' # NoReturn, ~pinned.present,
         returned'.verdict # "Unavailable", token[returned'.caller] # NoToken
  PROVE  \E c \in Callers :
           /\ returned'.caller = c /\ token[c] \in Provider!Token
           /\ \/ /\ Provider!CacheAnswers(token[c])
                 /\ returned'.verdict = Provider!VerifyWith(token[c], cache.set)
              \/ /\ pc[c] = "fetch" /\ reply[c].sent
                 /\ returned'.verdict = Provider!VerifyWith(token[c], reply[c].set)
<1>1. PICK c \in Callers :
        \/ \E t \in Provider!Token : Provider!Begin(c, t)
        \/ Provider!UsePinned(c) \/ Provider!ReadCache(c)
        \/ Provider!FoundRefreshed(c) \/ Provider!FetchSucceeds(c)
        \/ Provider!FetchFails(c)
  BY DEF Provider!Next, Provider!StartFetch, Provider!Serve, Provider!Drop,
         Provider!Publish, Provider!Purge, Provider!Tick
<1>2. returned'.caller = c
  BY <1>1
     DEF Provider!Begin, Provider!UsePinned, Provider!ReadCache,
         Provider!FoundRefreshed, Provider!FetchSucceeds, Provider!FetchFails,
         Provider!Returns
<1>3. pc[c] # "idle" /\ token[c] \in Provider!Token
  BY <1>2 DEF ProviderIInv, ProviderCallInv
<1>4. Provider!ReadCache(c) \/ Provider!FoundRefreshed(c) \/ Provider!FetchSucceeds(c)
  BY <1>1, <1>3
     DEF Provider!Begin, Provider!UsePinned, Provider!FetchFails,
         Provider!Returns
<1> QED
  BY <1>2, <1>3, <1>4
     DEF Provider!ReadCache, Provider!FoundRefreshed, Provider!FetchSucceeds,
         Provider!Returns

LEMMA ProviderWithdrawnStep ==
  ASSUME ProviderAssumptions, ProviderIInv, Provider!Next, NEW k \in Kids,
         Provider!Accepts(k)
  PROVE  /\ lastSeen[k] # Provider!Never
         /\ \/ now - lastSeen[k] <= HttpTimeout
            \/ now - lastSeen[k] < HttpTimeout + Ttl
<1>1. token[returned'.caller] # NoToken
  <2>1. returned' \in Provider!Return /\ returned'.verdict = "Ok"
    BY ProviderIInvStep DEF Provider!Accepts, ProviderIInv, Provider!TypeOK
  <2>2. PICK c \in Callers : returned'.caller = c
    BY <2>1 DEF Provider!Return
  <2>3. pc[c] # "idle"
    BY <2>1, <2>2
       DEF Provider!Next, Provider!Accepts, Provider!Begin, Provider!UsePinned,
           Provider!ReadCache, Provider!FoundRefreshed, Provider!StartFetch,
           Provider!Serve, Provider!FetchSucceeds, Provider!FetchFails,
           Provider!Drop, Provider!Publish, Provider!Purge, Provider!Tick,
           Provider!Returns
  <2> QED
    BY <2>2, <2>3 DEF ProviderIInv, ProviderCallInv
<1>2. PICK c \in Callers :
        /\ returned'.caller = c /\ token[c] \in Provider!Token
        /\ \/ /\ Provider!CacheAnswers(token[c])
              /\ returned'.verdict = Provider!VerifyWith(token[c], cache.set)
           \/ /\ pc[c] = "fetch" /\ reply[c].sent
              /\ returned'.verdict = Provider!VerifyWith(token[c], reply[c].set)
  BY <1>1, ProviderReturnedBy DEF Provider!Accepts
<1>3. CASE k \in cache.set.keys /\ Provider!CacheAnswers(token[c])
  BY <1>3
     DEF Provider!CacheAnswers, Provider!Age, ProviderIInv, Provider!TypeOK,
         Provider!KeySet, ProviderCacheInv, Provider!Never
<1>4. CASE pc[c] = "fetch" /\ reply[c].sent /\ k \in reply[c].set.keys
  BY <1>4 DEF ProviderIInv, Provider!TypeOK, ProviderFetchInv, Provider!Never
<1> QED
  BY <1>2, <1>3, <1>4, ProviderVerifyType DEF Provider!Accepts

(* No grace: a key that was withdrawn is trusted for one fetch and         *)
(* cache_ttl at most, whatever fails (provider_jwt.rs 237-238).            *)
THEOREM ProviderWithdrawnCorrect ==
  ASSUME ProviderAssumptions
  PROVE  Provider!Spec => Provider!WithdrawnKeysExpire
<1> DEFINE InTime ==
      \A k \in Kids : Provider!Accepts(k) =>
        /\ lastSeen[k] # Provider!Never
        /\ \/ now - lastSeen[k] <= HttpTimeout
           \/ now - lastSeen[k] < HttpTimeout + Ttl
<1>1. ProviderIInv /\ [Provider!Next]_(Provider!vars) => [InTime]_(Provider!vars)
  BY ProviderWithdrawnStep
<1> QED
  BY <1>1, ProviderIInvHolds, PTL
     DEF Provider!Spec, Provider!WithdrawnKeysExpire

LEMMA ProviderPickedUpStep ==
  ASSUME ProviderAssumptions, ProviderIInv, Provider!Next,
         Provider!RefusedWrongly
  PROVE  LET kid == token[returned'.caller].kid IN
         \/ kid \notin published.keys
         \/ now - since[kid] <= HttpTimeout
         \/ now - since[kid] < HttpTimeout + Throttle
<1>1. PICK c \in Callers :
        /\ returned'.caller = c /\ token[c] \in Provider!Token
        /\ \/ /\ Provider!CacheAnswers(token[c])
              /\ returned'.verdict = Provider!VerifyWith(token[c], cache.set)
           \/ /\ pc[c] = "fetch" /\ reply[c].sent
              /\ returned'.verdict = Provider!VerifyWith(token[c], reply[c].set)
  BY ProviderReturnedBy DEF Provider!RefusedWrongly
<1> DEFINE kid == token[c].kid
<1>2. kid \in Kids /\ token[c].form = "good" /\ returned'.verdict = "Invalid"
  BY <1>1 DEF Provider!RefusedWrongly, Provider!Token
<1> SUFFICES ASSUME kid \in published.keys
             PROVE  \/ now - since[kid] <= HttpTimeout
                    \/ now - since[kid] < HttpTimeout + Throttle
  BY <1>1
<1>3. CASE Provider!CacheAnswers(token[c]) /\ kid \notin cache.set.keys
  BY <1>2, <1>3
     DEF Provider!CacheAnswers, Provider!Age, ProviderIInv, Provider!TypeOK,
         Provider!KeySet, ProviderCacheInv
<1>4. CASE pc[c] = "fetch" /\ reply[c].sent /\ kid \notin reply[c].set.keys
  BY <1>2, <1>4 DEF ProviderIInv, Provider!TypeOK, ProviderFetchInv
<1> QED
  BY <1>1, <1>2, <1>3, <1>4, ProviderVerifyType

(* A new key is picked up a fetch and the throttle on unknown kids after   *)
(* it was published, at the latest (provider_jwt.rs 300-315).              *)
THEOREM ProviderNewKeysCorrect ==
  ASSUME ProviderAssumptions
  PROVE  Provider!Spec => Provider!NewKeysArePickedUp
<1> DEFINE PickedUp ==
      Provider!RefusedWrongly =>
        LET kid == token[returned'.caller].kid IN
        \/ kid \notin published.keys
        \/ now - since[kid] <= HttpTimeout
        \/ now - since[kid] < HttpTimeout + Throttle
<1>1. ProviderIInv /\ [Provider!Next]_(Provider!vars) => [PickedUp]_(Provider!vars)
  BY ProviderPickedUpStep
<1> QED
  BY <1>1, ProviderIInvHolds, PTL DEF Provider!Spec, Provider!NewKeysArePickedUp
=============================================================================
