# Verification of the shared-auth sources

TLA+ modules, TLC configurations and TLAPS proofs for the authentication code
kept in this repository: the Rust guard library
(`src/candidates/shared-auth-lib-pr39-full/langs/rust`), the core library
(`src/candidates/shared-auth-lib-core-pr33`), the edge and policy workers
(`src/candidates/shared-auth-infra-pr93/workers`) and the reference models of the
test harness (`src/src/deep_tests`). Paths below are shortened to file names.

## Inventory

| Component | State | Operations | What is hard | What makes it correct |
|---|---|---|---|---|
| Dual-auth race (`race.rs`) | futures still pending, failures collected, a timer | `race_many`, `race` | arms resolve in any order, a timer races an answer, losers are dropped | first success wins, one failure decides nothing, 401 only when all say no, bounded |
| Guard key cache (`guard.rs`, `authority.rs`) | cached key set with its age, refresh lock | `verify_ours`, `current_jwks` | many requests at once, rotation, outage, stale grace, a forced refetch, requests dropped under the lock | bounded trust in withdrawn keys, seamless rotation, no lost refresh, nobody waits for ever |
| Guard request (`guard.rs`) | none of its own | `check`, `require`, `require_any`, `authorize` | one failure followed by another stage, policy inside racing arms, a two-step exchange | 401 only on evidence, policy neither masked nor bypassed, always answered |
| Session-upgrading guard (`session_guard.rs`) | none of its own | `authorize_with_upgrade`, `race_session_arms` | upgrade only with the shared arm's win, dropped exchange, project pinning | no session is handed out that did not decide the request |
| Provider verifier (`provider_jwt.rs`) | cached key set, refresh lock | `verify`, `jwks_for`, `refresh`, `purge_cache` | single flight, throttled unknown kids, purge during a refresh | no stale grace, new keys found |
| Token signer (`provider_jwt.rs`) | none | `from_pem`, `mint` | none (pure) | claims and key match the configuration |
| Arbitration (`proof_policy.rs`, `provider_adapter.rs`) | none; the caller's verdicts so far | `arbitrate`, the adapters' `verify_proof`, `inspect_session`, `exchange`, `revoke`, `validate_adapter_contract` | verdicts in any order, repeated rounds, backends that mislabel proofs, proofs that run out | independent of arrival order, a negative verdict is final, no backend stands in for another, an admission only narrows |
| Dual decision (`auth_decision.rs`, `auth_topology.rs`) | none; the lanes of a request | `decide_dual_auth_for_operation`, `verify_dual_provider_proofs`, `AuthTopology::validate` | the lanes are asked at different times; outage against refusal; strict against availability-first | admissions grounded in both providers, degraded only in an outage, modes and orders agree |
| Proximity step-up (`proximity.rs`) | signing keys, devices, request records | `mint`, `consume`, `enroll_device`, `revoke_device`, `rotate_key`, `forget_key` | replays, altered requests, key rotation in flight, clocks set back | one use, only as minted |
| Edge session worker (`auth-edge/src/index.mjs`) | browser cookies, module-level key cache | `fetch`, `resolveSession`, `refreshAtSharedAuth`, `getJwks` | concurrent refreshes of one browser, rotation then failure, outage | a working session is not lost |
| Policy worker (`auth-policy/index.mjs`) | one arbitration record | `applyEvidence`, `recordReconciliation` | evidence in any order, deadline, duplicates | confluent, fails closed |
| Configuration and discovery (`config.rs`, `config_discovery.rs`, `central_config.rs`, `shared_auth_config.rs`, `consumer_policy.rs`) | files on disk | six loaders; parse, validate, resolve, admit; `require_consumer_action` | a file or directory that changes between look and use, a Git boundary, two layers of policy, loaders that look differently | what is read was validated, the nearest configuration governs, loaders agree, the declared policy is served |
| Reference models (`deep_tests/*.py`) | replay window, token store | `verify`, `revoke` | pruning at the boundary | no replay within the window |
| Release policy, scripts, workflows | files | one-shot checks | none | - |

The guard calls the key cache first and the race second; both share only the
request. The session guard uses the same two functions with arms of its own. The
arbitration and decision modules take the verdicts of such arms as input. The
edge worker sits in front, the policy worker beside it.

## Modules

| Module | Models | Notes |
|---|---|---|
| `AuthDecision` | rules 1-4 of the header of `race.rs`, without any machinery | abstract specification |
| `AuthRace` | `race_many`, `race` | implements `AuthDecision` under `verdict <- outcome.kind` |
| `GuardJwks` | `verify_ours`, `current_jwks`, `verify_shared_auth_token` | any number of requests |
| `GuardCheck` | `check`, `require`, `require_any`, `authorize`, `enforce`, both arms | composes `GuardJwks` and `AuthRace` by `INSTANCE` |
| `GuardCheckProofs` | - | theorems about `AuthRace` and `GuardCheck` |
| `ProviderJwks` | `verify`, `jwks_for`, `refresh`, `purge_cache` | any number of verifications |
| `KeySetProofs` | - | theorems about `GuardJwks` and `ProviderJwks` |
| `ProximityStepUp` | `ProximityAuthority` | any number of requests, devices and keys |
| `ProximityStepUpProofs` | - | theorems about `ProximityStepUp` |
| `SessionGuard` | `authorize_with_upgrade`, `race_session_arms`, `exchange_session_at_shared_auth` | one request; implements `AuthRace`, and so `AuthDecision` |
| `SessionGuardProofs` | - | theorems about `SessionGuard` |
| `AuthPolicy` | `compilePolicy`, `createArbitration`, `applyEvidence`, `recordReconciliation`, `proofRequirementSatisfied` | one arbitration of any mode |
| `AuthPolicyProofs` | - | theorems about `AuthPolicy` |
| `ProofPolicy` | `proof_policy.rs`: `arbitrate` and its four policies | pure operators |
| `ProviderAdapter` | `provider_adapter.rs`: the typed adapters, the gate | pure operators, extends `ProofPolicy` |
| `ProofRound` | one round of proofs on a session through the adapters | composes the two; the route and the backends are external |
| `ProofRoundProofs` | - | theorems about `ProofRound` |
| `AuthTopology` | `auth_topology.rs`: `validate`, `validate_proof`, `verify_dual_provider_proofs` | pure operators |
| `DualAuthority` | `auth_decision.rs`, over providers that change | extends `AuthTopology` |
| `DualAuthorityProofs` | - | theorems about `DualAuthority` |
| `ConfigPolicy` | validation, layering, revisions and consumer actions of the configuration | pure operators |
| `ConfigLoader` | the six loaders on a file system that changes | extends `ConfigPolicy` |
| `ConfigLoaderProofs` | - | theorems about `ConfigLoader` |
| `MC...` | - | the constants of each run |

Operators introduced by a comment "Mutant:" are faulty variants of the definition
that follows them. No specification uses them; each one shows that a property
notices the mistake.

### How the state corresponds to the code

**AuthRace.** `arms` is the list `race_many` is called with, `answer` what each
future has resolved to, `failed` the `failures` vector, `elapsed` the timer of
`tokio::time::timeout`. `Resolve` is a future becoming ready, `TakeSuccess` and
`TakeFailure` are one turn of the loop over `pending.next()`, `NoArms` the early
return. The timeout polls the loop before it looks at its timer, so
`DeadlineExceeded` requires that nothing is left to take.

**GuardJwks.** `cache`, `lock` and `pinned` are the fields `cache`,
`refresh_lock` and `static_jwks` of `Guard`. An action is what one request does
between two awaits: `ReadCache` the first look, `FoundRefreshed` and
`StartFetch` the two outcomes of the second look under the lock, `FetchSucceeds`
and `FetchFails` the end of the fetch together with the verification that follows
without an await. `UseKeys` is the `match` of `verify_ours`, which may go round
once with `force_fetch`. `Serve` is the moment the authority reads its key set,
so a rotation can fall between it and the arrival. `Drop` is the request's future
being dropped at an await; the lock is released with it. `lastSeen`, `fetches`,
`outage`, `steady` and `returned` are history.

**GuardCheck.** A request has at most one token of ours and one provider token,
which is what extraction leaves. `VerifyOurs` runs the actions of `GuardJwks`
for it, and in the same step does what `check` does when `verify_ours` returns.
`StartRace` is the call of `race`; a direct arm that is switched off has answered
by its first poll. `ExchangeMints` separates the two HTTP calls of the exchange
arm, since only the first can refuse. `Enforced` is the policy inside the arms.
Other requests (`Others`) run `verify_ours` step by step, on the same cache and
under the same lock (`OtherSteps`): their fetches can be in flight, late, forced,
failed or dropped while ours waits. Once our request is past `verify_ours` it
looks at no key again, and the key set is left out from there on (`Meanwhile`):
others may still end the fetch they are in.

**ProviderJwks.** Like `GuardJwks`, with `CacheAnswers` for the test that
`jwks_for` makes twice, key sets that may list a kid twice, and `Purge`, which does
not take the refresh lock. A fetched set without keys, or with private
parameters, is one of the ways of `FetchFails`.

**ProximityStepUp.** `keys`, `activeKid`, `devices` and `records` are the fields
of `ProximityAuthority`. A text that callers choose (an id, an audience, a device,
an exchange id, a nonce) is the sequence of the words between its separators, for
`canonical` joins its fields with `|` and escapes nothing; issuer, acr and digest
are one word each, as no caller of `mint` chooses them. `Canonical` joins the
texts in the same way, so it is not injective, and two different requests can have
the same signed text. A signature is a record of the secret and that text: nobody
can make one without the secret, and it verifies for every request with the
text. `mint` does not check its texts, so this can happen;
`CompletedAsMinted` promises that a request that completes has the signed text of
a minted one, and that it is that one where all its texts are `Plain` (one word).
Protocol, purpose and acr are one flag, `fixed`. `Presented` contains every minted
request and every combination of forged contents with a signature that has been
seen. Calls that are refused change nothing and are not steps.

**SessionGuard.** `token` is the credential `select_credential` picks; `phase`
says which branch of `authorize_with_upgrade` it takes. Each of the four places a
credential can be in holds nothing, something unusable (a duplicate, an overlong
value) or a token. The inner guard is one step, `InnerReplies`, with the
outcomes `GuardCheck` can give for a lone token: one of ours is accepted on the
cached keys and its expiry alone, also after a revocation. `ExchangeMints` and
`IntrospectReply` are the two requests of the exchange, with `Revoke` and
`RolesChange` possible between them; `DirectReply` is the provider's arm. The
loop of `race_session_arms` is `TakeSuccess`, `TakeFailure` and
`DeadlineExceeded`, as in `AuthRace`. `live` is what the authorities would say of
the credential now. `overtaken` is history: the credential was revoked, or its
roles changed, after the shared arm had said Ok, which nothing in the code can see.

**AuthPolicy.** `status`, `evidence`, `winner`, `sharedUserId`,
`reconciliationId` and `now` are the fields of the reducer's state, `policy` the
compiled policy; the reason of a denial is left out. A lane is named by its
provider, which `compilePolicy` makes unique. A report whose context, lane, kind
or proof binding the reducer would refuse whatever the time is one kind,
"invalid"; expiry keeps its time, because it matters again at every later report
and at the admission. `Accept` keeps the evidence of a lane and takes the user of
the winner: `valid[0]` is the first entry that was inserted, and that is the
winner's. `reported`, `receipted` and `lastReport` are history. A denied
arbitration is returned unchanged, so later reports are not steps; a clock behind
`now` throws, which is not a step either.

**ProofRound.** `verdicts` is the slice a route passes to `arbitrate`, in the
order of arrival, and `decision` the last answer. `VerifyProof`, `Exchange` and
`InspectSession` are one call of an adapter: the backend answers a proof with any
label or an error, and the adapter passes it on or refuses it
(`EnforceProofProvider`). `Gate` is `validate_adapter_contract` for every
adapter; `Decide` may be taken at any time and as often as the route likes. That
a route keeps an error as the verdict of the same name, and keeps nothing of an
active session without a proof, is assumed: the route is not in the repository.
Blank fields of a proof are one flag, `complete`. `vouched` is history. The
repository holds `proof_policy.rs` and `provider_adapter.rs` twice, under
`shared-auth-lib-pr39-full` and `shared-auth-lib-pr39`, with the same text; the
definitions are mapped to one copy or the other.

**DualAuthority.** `request` has the topology, operation and mode of a call of
`decide_dual_auth_for_operation` and `lanes` its `decisions`. `Ask` files the
answer of a provider under a lane, which a caller may get wrong, leave out or
fill twice; `Decide` is the call. `GoDown`, `ComeUp` and `Update` change the
providers between the lanes. `seen` is history: every state a provider had during
the request. Names of organizations and schemas are values, one of them
malformed and one too long.

**ConfigLoader.** One load, from `begin` to `served`. A step is one look at the
file system (`LookAtCanonical`, `LookAtLegacy`, `LookAtBoundary`, `Restat`,
`Open`, `Read`), or what the code computes before the next one (`CheckHandle`,
`Parse`, `Serve`). `call.api` says which loader runs: `plain`, `central` and
`central_revision` ask `is_file`, the hardened walk and its `upward` name ask
`symlink_metadata`, the authority's asks `try_exists`; `Look` and `LookFails` say
what each learns. `Rename`, `Rewrite` and `SetGit` are anybody else. Directories
are numbered upwards from the start; a file is an inode, which is what
`read_selected` compares. An inode number is not used again during a load: a file
system that reuses one at once would deceive the comparison of the code too.
`regular` and `absent` are history.

## Runs

| Run | Shows | Bounds |
|---|---|---|
| `race` | types; `AuthRace` implements `AuthDecision` | 3 arms, two of one authority; deadline 2 ticks: before, at and after it differ |
| `guard_jwks` | `RevocationWindow`, `RotationIsSeamless`, `CacheNeverRegresses`; every call returns | 2 requests (one holds the lock, one waits), 1 key that comes and goes, ttl 1, grace 2, fetch 1, clock 3: fresh, in grace and past grace all occur |
| `guard_check` | `RefusedOnEvidence`, `GrantNotMasked`; every request is answered | 1 request with every combination of credentials and routes, beside 1 other that verifies a good token; 1 key; deadline 1; ttl 1, clock 0 and 1: the cache is fresh or in grace. What longer times bring is the matter of `guard_jwks` |
| `provider_jwks` | `WithdrawnKeysExpire`, `NewKeysArePickedUp` | 2 verifications, 2 keys (a cached set without the kid needs another key), one set with a duplicate kid, ttl 2, throttle 1, clock 3 |
| `proximity` | `OneUse`, `CompletedAsMinted`, `InFlightSurvives` | 2 requests, devices, exchange ids, keys and secrets; one device id and one exchange id hold a separator, so that two requests can share their signed text; forged ids, devices, exchange ids, lifetimes and fixed fields; symmetric |
| `session` | `UpgradeAccounted`, `AdmittedNotSignedOut`; `SessionGuard` implements `AuthRace` | 1 request over all combinations of 4 sources and 7 tokens (both issuers and projects; a role, an e-mail or nothing admits the owner; a machine with a role); deadline 2 ticks |
| `auth_policy` | `OrderIndependent`, `AdmissionEarned`, `AdmissionKept` | 1 arbitration of every mode and set of lanes, 2 users, ceremonies and receipts (one to agree, one to differ; symmetric), deadline 2, proofs that expire before and after it, clock 0 to 2 in any order |
| `proof_round` | `OrderIndependent`, `VouchedByOwnBackend`, `NegativeIsFinal`, `AdmissionOnlyNarrows` | 6 policies, one of each kind at least; 3 verdicts, one of each provider, or 2 of one; proofs that differ in user, revision, root, level, class, time or label; clock 0 and 1: before and at an expiry; 1 revocation |
| `dual_authority` | `AdmissionIsGrounded`, `DegradedMeansDown`, `ModesAgree` | a customer, an admin and a malformed topology; a good account and one wrong in each way; 2 lanes in any order and place; 1 change between them. Nothing keeps state between requests but the providers |
| `config_loader` | `ReadsAValidatedFile`, `NearestConfigGoverns`, `LoadersAgree`, `ServesDeclaredPolicy` | 3 directories, the walk reaches 2; 12 file systems with files, links, directories, boundaries and unreadable places; 5 documents; 2 changes: one puts something in place of what was seen, one puts it back |
| `undecided_logged_out` | the code contradicts `guard.rs` 12-13 | as `guard_check` |
| `purge_race` | the code contradicts `provider_jwt.rs` 283 | as `provider_jwks` |

Deadlock is checked, except in `proof_round` and `config_loader`: a round that was
refused at the gate and a load that has returned really end.

`MaxTime` bounds the clock of every module that has one. Key sets and times only
matter relative to each other, and the clock runs past every one of the
intervals that the code compares with (`Ttl`, `Grace`, `ArmTimeout`,
`Throttle`) in its run, but for `guard_check`, which leaves the end of the grace
to `guard_jwks`; in `auth_policy` it reaches the deadline, from where on every
answer is the same. The safety properties are proved for all values besides.

The two violations:

- `undecided_logged_out`: a token of ours cannot be decided because the key set is
  unavailable; the provider token of the same request is refused by both arms;
  the answer is Unauthenticated. `check` keeps `ore_failure` only for requests
  without a provider token.
- `purge_race`: a fetch is answered, the provider withdraws the key, the operator
  purges, and the answer arrives and is stored.

Five more places where the code and a comment, or two parts of the code, are worth
a second look; no run claims them:

- `verify_ours` can fetch twice in one call, where `guard.rs` 204-205 speaks of one
  fetch. The theorem `SecondFetchCorrect` says when: only after a failed one.
- `session_guard.rs` 173-175 answers Invalid for a successful exchange with
  contradictory claims, which `authority.rs` 373-375 calls degraded in the guard's
  own exchange; and its policy check lacks the test for machine identities that
  `AccessPolicy::enforce` has (`guard.rs` 108-111).
- `read_selected` compares the open file with a second look at the path, so a
  regular file that replaced the discovered one in between is read, although
  `config_discovery.rs` 161 says it is the file discovery selected.
  `ReadsAValidatedFile` states what does hold: it was a regular file at that path
  during the load.
- `canonical` joins the fields of a request with `|`, without lengths or escapes
  (`proximity.rs` 349-365), and `mint` accepts any text (134-141). A request for
  device `d|w` and exchange id `x` has the signed text of one for device `d` and
  exchange id `w|x`, and can complete at a context that names the former. The
  records still let either id complete once (`OneUse`); `CompletedAsMinted` holds as
  far as texts are plain.
- `reconcile_by` counts from the time of each arbitration and is not bounded by the
  expiry of the proof (`proof_policy.rs` 292), and `two_factor.required` is part of
  every resolved policy but consulted by nothing (`consumer_policy.rs`).

### Fairness

`GuardJwks`: a request that can run is run, a fetch ends because reqwest's timeout
ends it (weak fairness), and a waiter gets the lock if it is free again and again
(strong fairness): tokio's `Mutex` is a fair queue. `GuardCheck` assumes the same
of its request and of its race, whose end at the deadline is part of
`EveryRequestAnswered`; of the other requests it assumes only that a fetch they
have begun ends. The other modules state no fairness and no liveness:
nothing obliges anybody to call the proximity authority, the arbitration or a
loader, and the races' end in the session guard is the same deadline as
`GuardCheck`'s.

## Proofs

All theorems hold for every value of the constants that satisfies the named
assumptions: sets of any size and, for times, any natural numbers. Every invariant
and every safety property of a passing run has a theorem; PROJECT.json lists which. `GuardCheckProofs` and `KeySetProofs` are about two
modules each: one is extended, the other an instance over the same variables
(`AnyRace`, `Provider`), whose theorems have a prefix (`Race`, `Provider`) and take
the assumptions of that module as a hypothesis (`RaceAssumptions`,
`ProviderAssumptions`), because an instance does not bring them along. So
`RaceTypeCorrect` and `RaceImplementsDecision` are about `TypeOK` and
`ImplementsDecision` of the run `race`, and `ProviderTypeCorrect`,
`ProviderWithdrawnCorrect` and `ProviderNewKeysCorrect` about the three properties
of the run `provider_jwks`.

The proofs put conditions on constants in three places. `PartsAssumption` and
`ArmsAssumption` of `GuardCheck` are what `GuardJwks` and `AuthRace` assume of the
constants it passes on (times are natural numbers, the values that stand for
nothing differ from the rest), that our request is not one of the others, and that
the two arms, and the two authorities, are two: variants of one enum.
`TextAssumption` and `CallAssumption` of `ProximityStepUp` say that the ids,
devices, commands, contexts and forgeries, which may be any, are made of texts;
texts may hold separators.
`DocumentAssumption` of `ConfigLoader` is what serde guarantees of a document that
parses, with `deny_unknown_fields` on every overlay (`WellFormed`). Documents
that do not parse are unrestricted.

- `GuardCheckProofs` on `AuthRace`: `RaceTypeCorrect`, `RaceWinnerCorrect`,
  `RaceSurvivorCorrect` and `RaceImplementsDecision`. The invariant says that
  collected failures are failures, that an undecided race has not collected them
  all, and what each verdict was based on. The refinement maps `TakeSuccess`, the
  last `TakeFailure`, `NoArms` and `DeadlineExceeded` to `Decide`, `Resolve` to
  `Arrive`, and the rest to stuttering; the deadline case needs that nothing is
  ready, which is what makes the order of polling matter.
- `GuardCheckProofs` on `GuardCheck`: `RefusalCorrect`, `GrantCorrect` and
  `RequestImplementsDecision`. An
  answer says little about how it came about, so the invariant carries the evidence
  along: where the request is against where its call and its race are (`PhaseInv`),
  what the two arms may have said (`RaceInv`: a direct arm that is switched off
  has answered Unavailable, an exchange that minted never becomes Invalid unless the
  policy applies), what a decided race rests on (`VerdictInv`), and what the answer
  rests on (`AnswerInv`: the outcome of the race if there was one, else the token
  of ours alone). `KeyInv` is the invariant of `KeySetProofs` for our request and all
  others. `AnsweredGives` ties the status code to the outcome once, for every place
  that answers. Under the refinement mapping of `RequestImplementsDecision` both
  arms are there from the start: `StartRace` is a stutter, or the `Arrive` of a
  direct arm that is switched off; an answer of an arm, policy included, is
  `Arrive`; a poll is `Decide` or a stutter; the first stage, the minting of a
  session, other requests and a client that goes away are stuttering. It needs
  besides that nothing is answered before the race begins (`StartInv`).
- `GuardCheckProofs`, the key set inside a request: `RequestKeepsWindow`,
  `RequestKeepsRotation` and `RequestKeepsCache`. `KeyProofs` is `KeySetProofs` for
  our request and any set of others, over the variables of `GuardCheck`;
  `KeySetAssumptions` shows that what `GuardJwks` assumes follows from
  `PartsAssumption`, so that its lemmas may be cited. Every step of `GuardCheck` is
  a step of `GuardJwks`, by us or by another request, or leaves cache and calls alone
  (`StepOfKeySet`, of `SamePieces`, `SameCalls` and `SameWorld`). So the
  invariant holds here (`KeyInvHolds`), and with it the three action properties, for
  any interleaving with fetches of others that are in flight, forced, late or
  failed. What others do is no step of our own call (`CallLeftAlone`).
  `LetInCorrect` and `UndecidedCorrect` carry two
  of them on to the answer of the request: what is let in was signed by a key in the
  window, and a 503 on a steady key means that a fetch failed. They need that
  the token under verification is the request's (`TokenInv`) and that an answer
  out of the first stage is given in the step in which `verify_ours` returns
  (`AnsweredByKeys`).
- `GuardCheckProofs`, what an answer stands for. `AnswerCorrect` uses the
  refinement: a verdict of `AuthDecision` is justified when it is given and stays so,
  because nothing arrives after it (`VerdictJustified`, about `AuthDecision` alone),
  and the answer is that verdict (`AnswerInv`). `LoneTokenCorrect` is what the step
  `InnerReplies` of `SessionGuard` takes for granted of a token of ours.
  `MachinesCorrect` needs to know about the winner of a race (`WinnerInv`): an
  exchange on `authorize` that finds a machine says no, and shared-auth
  wins only with a session it said yes to.
- `KeySetProofs` on `GuardJwks`: `RevocationCorrect`, `RotationCorrect`,
  `CacheMonotone`, `SecondFetchCorrect` and `RefreshNotRepeated`. The invariant
  relates the lock to the one request that is fetching (`LockInv`), a request's
  fields to where it is (`CallInv`), every key of a stored or arriving set to the
  time it was last published (`SeenInv`, `CacheInv`, `FetchInv`), and a kid that
  has been steady to the sets that must contain it (`SteadyInv`, `StaleInv`).
  None of the properties is inductive without them: the window of a withdrawn
  key, for instance, follows from how old an answer can be when it is stored.
- `KeySetProofs` on `ProviderJwks`: `ProviderWithdrawnCorrect` and
  `ProviderNewKeysCorrect`. The invariant bounds both ways a set can be wrong: a
  key in an answer under way was published, and one missing from it was not, at
  some time since the fetch was sent (`ProviderFetchInv`), and a fetch runs for
  `HttpTimeout` at most; so the same holds, with that much slack, of the set in the
  cache (`ProviderCacheInv`). A purge only empties the cache, which makes the
  invariant weaker, and that is why the proof survives a purge during a refresh.
  `ReturnedBy` says by which set a verification that returns has decided; the two
  windows are then arithmetic.
- `ProximityStepUpProofs`: `OneUseCorrect`, `CompletedAsMintedCorrect` and
  `InFlightCorrect`. The invariant says that a request is as `mint` made it, that
  its key is kept unless it is orphaned, and that its record counts its
  completions. The central lemma, `CompletedIsMinted`, shows that a request whose
  signature verifies has the signed text of a minted one. The rest is about that
  text: `PlainIsInjective` shows that contents of plain texts with the same text are
  the same, part by part from the left (`ContentTexts` and `CanonicalParts` say what
  the parts are, `SameParts` that sequences of equal length come apart again). That
  it must be said of plain texts only is the separator's doing, not the proof's.

- `SessionGuardProofs`: `UpgradeCorrect`, `ProjectCorrect`, `SignedOutCorrect`,
  `RaceRefined`, `SessionImplementsDecision` and `SessionAnswerCorrect`. The
  invariant says which arm can have succeeded for which token (a success implies
  project and grant, the shared arm's also a minted session, and a credential that
  was live and unchanged then: what has happened to it since has overtaken the
  answer, `ArmInv`), and that the shared arm says a definite no only to whom the
  policy does not admit (`NoInv`). Under the
  refinement mapping `TakeSuccess`, `TakeFailure` and `DeadlineExceeded` are the
  steps of the same name and a reply of an arm is `Resolve`; minting, revocation,
  role changes and the other paths of the request are stuttering.
  `SessionImplementsDecision` goes on from there: every step of `AuthRace` that this
  race takes (`RaceStepPromised`) keeps what `race.rs` promises, given that the loop
  has collected failures only and not all of them while it is undecided
  (`CollectedInv`). So the two races of the repository implement one abstract
  decision, and in both the caller's answer is the verdict its arms justify.

- `AuthPolicyProofs`: `OrderCorrect`, `AdmissionCorrect` and `AdmissionStays`. The
  invariant relates the reducer's state to the history: while it is not denied,
  its evidence is exactly what was reported (`EvidenceInv`), its receipt the only
  one (`ReceiptInv`), its user the winner's (`WinnerInv`), its status a function
  of them (`StatusInv`); once denied, the history refutes it. The case that needs
  most work is `DeniedForCause`: whatever makes the reducer deny is also visible
  in the unordered history.

- `ProofRoundProofs`: every property of the run. The invariant says that the last
  decision is `Arbitrate` of a prefix of the verdicts at an earlier time,
  and that every verified verdict is a proof its own backend
  answered, which is in `vouched`. `OrderCorrect` rests on a lemma for each part of
  `Arbitrate`: what it takes from the slice is a set, or, where it takes the first
  proof, something all proofs agree on by then; the least assurance exists
  because the natural numbers are well-founded, and is the same for the same set.
  `NarrowingCorrect` compares two prefixes at two times: proofs only come in, so
  the minimum over them only falls.

- `DualAuthorityProofs`: `AdmissionCorrect`, `DegradedCorrect` and `ModesCorrect`.
  The invariant says that each lane is what some provider answered in a state it
  had during the request, and that the answer is `Decision` of the request and its
  lanes. Every property is then a statement about `Decision`; that the order of the
  lanes does not matter needs that a lane without repetition is one place, found
  from either end.

- `ConfigLoaderProofs`: `ReadCorrect` and `NearestCorrect` are about the walk. The
  invariant follows the load. `WalkInv`: every directory below the walk had both
  names and `.git` absent at some time. `FileInv`: a regular file the second look
  saw is in `regular`, and the handle, once checked, is that file. `HistoryInv` ties
  both to the file system as it is. `LoadersAgreeCorrect` and `ServedCorrect` need
  more (`AgreeInv`): while nobody changes the file system the history is what is
  there (`StillInv`), so the walk's invariant speaks of the present; a loader that
  does not walk has selected the name that it finds there now (`FirstInv`); and what
  was parsed and resolved is in the result, and the served actions follow from it
  (`PolicyInv`). `LoadersAgree` is then a comparison of what each loader would
  choose and of the two parsers, and `ServesDeclaredPolicy` of the layers of
  `resolve`, setting by setting, with the nearest one that lists it.

Only model-checked: the liveness properties (`EveryCallReturns`,
`EveryRequestAnswered`), since the prover treats neither fairness nor ENABLED. Proved
but not run are `RaceWinnerCorrect`, `RaceSurvivorCorrect`, `SecondFetchCorrect`,
`RefreshNotRepeated`, `ProjectCorrect`, `RequestImplementsDecision`, the eight
theorems about the key set inside a request and about its answers, and
`SessionImplementsDecision` and `SessionAnswerCorrect`. Most are consequences: of a
refinement that is run, of the properties of `guard_jwks` seen from one
request, or of what `RefusedOnEvidence` and `GrantNotMasked` are run for.
`LoneTokenCorrect` and `MachinesCorrect` say something of their own and are proved
instead of run. No module that is
proved about has a RECURSIVE operator or an induction over data.

## Not modelled

HTML and JSON bodies, logging, header and TOML syntax, signatures and encodings
beyond what they guarantee; `is_repo_root`, which only decides about a warning; the
databases' environment keys of a topology, which are constants; the release policy
tool, scripts and workflows, which are sequential I/O. The token signer
(`ServerJwtSigner`), the rate-limit principal and the reference models of the test
harness are pure functions or test code and come last. The edge worker is not
modelled yet.

## Plan

1. Done: `AuthDecision`, `AuthRace`, `GuardJwks`, `GuardCheck`, `ProviderJwks`,
   `ProximityStepUp`, `SessionGuard`, `AuthPolicy`, `ProofRound`, `DualAuthority`,
   `ConfigLoader`; proofs for all of them.
2. `EdgeSession`: two requests of one browser, refresh rotation, cookie clearing,
   `getJwks`.
3. The adapter of the policy worker (`createReadOnlyAdapter`) as the source of the
   reports of `AuthPolicy`: verify, bind and abort, with epochs that change between
   them.
4. `ReplayWindow`, the signer's claims, the rate-limit principal.
5. Proofs: that `InnerReplies` of `SessionGuard` is what `GuardCheck` does on every
   credential, a foreign token in our cookie included (`LoneTokenCorrect` is the
   other case); and the theorems of the modules of 2 to 4.
