-------------------------- MODULE ProximityStepUp ---------------------------
(***************************************************************************)
(* One-use proximity requests: ProximityAuthority of shared-auth-lib-core, *)
(* src/proximity.rs.  The authority mints a signed request for an enrolled *)
(* device; whoever carries it (a radio relay) may present it any number of *)
(* times, altered or not, and at most one presentation completes.          *)
(*                                                                         *)
(* The authority's methods take &mut self, so calls do not overlap.  Each  *)
(* call brings the time with it, and a wall clock can be set back.         *)
(***************************************************************************)
EXTENDS Naturals, Sequences

CONSTANTS
  Words,         \* what a text is made of, see Texts
  Ids,           \* request ids
  Devices,       \* device ids
  Commands,      \* what mint is called with
  Contexts,      \* what consume is called with
  Issuer,        \* the issuer of this authority
  Acr,           \* STEP_UP_ACR
  Kids,          \* signing key ids
  Secrets,       \* key material
  NoSecret,      \* the authority has no key of that id
  NoRequest,     \* no request of that id has been minted
  Forgeries,     \* the contents others may put into a request
  MaxTtl,        \* MAX_TTL_MS
  MaxTime        \* bound on the clock

(* A text that callers choose is the sequence of the words between its     *)
(* separators: canonical joins its fields with a bar and escapes nothing,  *)
(* so only a text of one word has ends that can be told from inside.       *)
Texts == Seq(Words) \ {<<>>}

(* MintCommand; digest is the one of sealed_plaintext.                     *)
Command == [id : Ids, audience : Texts, device : Devices, exchange : Texts,
            nonce : Texts, digest : Words]

(* The fields of a request that its signature is taken over.  fixed:       *)
(* protocol, purpose and acr are the ones the protocol prescribes.         *)
Content == [id : Ids, issuer : Words, audience : Texts, device : Devices,
            exchange : Texts, nonce : Texts, digest : Words, fixed : BOOLEAN,
            issuedAt : Nat, expiresAt : Nat]

(* Mutant: the text that is signed leaves out the device.                  *)
CanonicalWithoutDevice(c) ==
  c.id \o (<<c.issuer>> \o (c.audience \o (c.exchange \o
    (<<Acr, c.issuedAt, c.expiresAt>> \o (c.nonce \o <<c.digest>>)))))

(* The text that is signed, of a content that is fixed: consume turns the  *)
(* others away before it looks at the signature.                           *)
Canonical(c) ==
  c.id \o (<<c.issuer>> \o (c.audience \o (c.device \o (c.exchange \o
    (<<Acr, c.issuedAt, c.expiresAt>> \o (c.nonce \o <<c.digest>>))))))

Mac == [secret : Secrets, over : Seq(Words \cup Nat)]

(* sealed: the sealed payload matches the digest that the content carries. *)
Request == [content : Content, kid : Kids, mac : Mac, sealed : BOOLEAN]

(* ConsumeContext.                                                         *)
Context == [issuer : Words, audience : Texts, device : Devices,
            exchange : Texts, authenticated : BOOLEAN, available : BOOLEAN]

ASSUME SecretAssumption == NoSecret \notin Secrets /\ NoRequest \notin Request
ASSUME TimeAssumption == MaxTtl \in Nat /\ MaxTime \in Nat
ASSUME TextAssumption ==
  /\ Issuer \in Words /\ Acr \in Words
  /\ Ids \in SUBSET Texts /\ Devices \in SUBSET Texts
ASSUME CallAssumption ==
  /\ Commands \in SUBSET Command
  /\ Contexts \in SUBSET Context
  /\ Forgeries \in SUBSET Content

VARIABLES
  now,           \* the time the next call brings
  keys,          \* keys: the secret of each kid, or NoSecret
  activeKid,     \* active_kid
  devices,       \* devices
  records,       \* records
  minted,        \* the request minted under each id, as its holder has it
  orphaned,      \* history: ids whose signing key was forgotten or replaced
  completions    \* history: how often each id has completed

vars == <<now, keys, activeKid, devices, records, minted, orphaned, completions>>

TypeOK ==
  /\ now \in 0 .. MaxTime
  /\ keys \in [Kids -> Secrets \cup {NoSecret}]
  /\ activeKid \in Kids
  /\ devices \in [Devices -> {"unknown", "enrolled", "revoked"}]
  /\ records \in [Ids -> {"none", "minted", "consumed"}]
  /\ minted \in [Ids -> Request \cup {NoRequest}]
  /\ orphaned \in SUBSET Ids
  /\ completions \in [Ids -> Nat]
  /\ \A i \in Ids : records[i] = "none" <=> minted[i] = NoRequest

Init ==
  /\ now = 0
  /\ activeKid \in Kids
  /\ \E s \in Secrets :
       keys = [k \in Kids |-> IF k = activeKid THEN s ELSE NoSecret]
  /\ devices = [d \in Devices |-> "unknown"]
  /\ records = [i \in Ids |-> "none"]
  /\ minted = [i \in Ids |-> NoRequest]
  /\ orphaned = {}
  /\ completions = [i \in Ids |-> 0]

-----------------------------------------------------------------------------
EnrollDevice(d) ==
  /\ devices' = [devices EXCEPT ![d] = "enrolled"]
  /\ UNCHANGED <<now, keys, activeKid, records, minted, orphaned, completions>>

(* A device the authority does not know is not remembered as revoked.      *)
RevokeDevice(d) ==
  /\ devices[d] # "unknown"
  /\ devices' = [devices EXCEPT ![d] = "revoked"]
  /\ UNCHANGED <<now, keys, activeKid, records, minted, orphaned, completions>>

SignedUnder(k) == {i \in Ids : minted[i] # NoRequest /\ minted[i].kid = k}

(* Mutant: only the new key is kept.                                       *)
RotateKeyDropsOld(k, s) ==
  /\ keys' = [x \in Kids |-> IF x = k THEN s ELSE NoSecret]
  /\ activeKid' = k
  /\ orphaned' = orphaned \cup SignedUnder(k)
  /\ UNCHANGED <<now, devices, records, minted, completions>>

(* Earlier keys stay, unless the new one comes under their id.             *)
RotateKey(k, s) ==
  /\ keys' = [keys EXCEPT ![k] = s]
  /\ activeKid' = k
  /\ orphaned' = orphaned \cup SignedUnder(k)
  /\ UNCHANGED <<now, devices, records, minted, completions>>

(* Any key can be forgotten, the active one too.                           *)
ForgetKey(k) ==
  /\ keys' = [keys EXCEPT ![k] = NoSecret]
  /\ orphaned' = orphaned \cup SignedUnder(k)
  /\ UNCHANGED <<now, activeKid, devices, records, minted, completions>>

(* What mint answers.  It panics, before anything is recorded, when the    *)
(* active key has been forgotten.                                          *)
MintAnswer(c, ttl) ==
  IF ttl = 0 \/ ttl > MaxTtl            THEN "ttl_exceeded"
  ELSE IF devices[c.device] = "revoked" THEN "revoked_device"
  ELSE IF devices[c.device] = "unknown" THEN "unenrolled_device"
  ELSE IF records[c.id] # "none"        THEN "replay"
  ELSE IF keys[activeKid] = NoSecret    THEN "panic"
  ELSE "minted"

(* The request that mint makes of a command.                               *)
NewRequest(c, ttl) ==
  LET content == [id |-> c.id, issuer |-> Issuer, audience |-> c.audience,
                  device |-> c.device, exchange |-> c.exchange,
                  nonce |-> c.nonce, digest |-> c.digest, fixed |-> TRUE,
                  issuedAt |-> now, expiresAt |-> now + ttl]
  IN  [content |-> content, kid |-> activeKid, sealed |-> TRUE,
       mac |-> [secret |-> keys[activeKid], over |-> Canonical(content)]]

(* Mutant: the id is not recorded.                                         *)
MintUnrecorded(c, ttl) ==
  /\ MintAnswer(c, ttl) = "minted"
  /\ minted' = [minted EXCEPT ![c.id] = NewRequest(c, ttl)]
  /\ UNCHANGED <<now, keys, activeKid, devices, records, orphaned, completions>>

(* mint, when it succeeds; otherwise it changes nothing.                   *)
Mint(c, ttl) ==
  /\ MintAnswer(c, ttl) = "minted"
  /\ minted' = [minted EXCEPT ![c.id] = NewRequest(c, ttl)]
  /\ records' = [records EXCEPT ![c.id] = "minted"]
  /\ UNCHANGED <<now, keys, activeKid, devices, orphaned, completions>>

(* verify_signature.                                                       *)
SignatureOk(r) == r.mac = [secret |-> keys[r.kid], over |-> Canonical(r.content)]

(* What consume answers, in the order of its checks.                       *)
ConsumeAnswer(r, ctx) ==
  LET c == r.content IN
  IF ~ctx.available                      THEN "degraded"
  ELSE IF ~ctx.authenticated             THEN "unauthenticated_channel"
  ELSE IF ~c.fixed                       THEN "tampered"
  ELSE IF \/ c.issuer # Issuer
          \/ c.issuer # ctx.issuer       THEN "wrong_issuer"
  ELSE IF c.audience # ctx.audience      THEN "wrong_audience"
  ELSE IF c.device # ctx.device          THEN "wrong_device"
  ELSE IF c.exchange # ctx.exchange      THEN "wrong_exchange"
  ELSE IF \/ c.expiresAt <= c.issuedAt
          \/ c.expiresAt > c.issuedAt + MaxTtl
                                         THEN "ttl_exceeded"
  ELSE IF now >= c.expiresAt             THEN "expired"
  ELSE IF devices[c.device] = "revoked"  THEN "revoked_device"
  ELSE IF devices[c.device] = "unknown"  THEN "unenrolled_device"
  ELSE IF keys[r.kid] = NoSecret         THEN "unknown_key"
  ELSE IF ~SignatureOk(r) \/ ~r.sealed   THEN "tampered"
  ELSE IF records[c.id] = "consumed"     THEN "replay"
  ELSE IF records[c.id] = "none"         THEN "tampered"
  ELSE "completed"

Issued == {minted[i] : i \in {j \in Ids : minted[j] # NoRequest}}

(* What can be presented: a request as it was minted, or one put together  *)
(* with a signature taken from such a request (HMAC is not broken).        *)
Presented ==
  Issued \cup [content : Forgeries, kid : Kids, sealed : BOOLEAN,
               mac : {r.mac : r \in Issued}]

(* Mutant: the record is left as it was.                                   *)
ConsumeKeepsRecord(r, ctx) ==
  /\ ConsumeAnswer(r, ctx) = "completed"
  /\ completions' = [completions EXCEPT ![r.content.id] = @ + 1]
  /\ UNCHANGED <<now, keys, activeKid, devices, records, minted, orphaned>>

(* consume, when it completes; otherwise it changes nothing.               *)
Consume(r, ctx) ==
  /\ ConsumeAnswer(r, ctx) = "completed"
  /\ records' = [records EXCEPT ![r.content.id] = "consumed"]
  /\ completions' = [completions EXCEPT ![r.content.id] = @ + 1]
  /\ UNCHANGED <<now, keys, activeKid, devices, minted, orphaned>>

(* The clock that callers read: it advances, and can be set back.          *)
SetClock(t) ==
  /\ now' = t
  /\ UNCHANGED <<keys, activeKid, devices, records, minted, orphaned,
                 completions>>

Next ==
  \/ \E d \in Devices : EnrollDevice(d) \/ RevokeDevice(d)
  \/ \E k \in Kids : ForgetKey(k) \/ \E s \in Secrets : RotateKey(k, s)
  \/ \E c \in Commands, ttl \in 0 .. MaxTtl + 1 : Mint(c, ttl)
  \/ \E r \in Presented, ctx \in Contexts : Consume(r, ctx)
  \/ \E t \in 0 .. MaxTime : SetClock(t)

Spec == Init /\ [][Next]_vars

-----------------------------------------------------------------------------
(* A request completes at most once, however often it is presented, and    *)
(* whatever happens to keys, devices and the clock in between (proximity   *)
(* .rs 333-341, 228-230).                                                  *)
OneUse == \A i \in Ids : completions[i] <= 1

(* No text that the caller of mint chose holds a separator.                *)
Plain(c) ==
  \A t \in {c.id, c.audience, c.device, c.exchange, c.nonce} : Len(t) = 1

(* Whatever completes does so where and for whom it says, before it        *)
(* expires, within MaxTtl of its minting, while its device is enrolled;    *)
(* and it has the signed text of a minted request.  When no text of that   *)
(* request held a separator, it is that request, and nothing that a relay  *)
(* changes survives the checks; otherwise a boundary between two fields    *)
(* may have moved (proximity.rs 285-342, 349-365).                         *)
CompletedAsMinted ==
  \A r \in Presented, ctx \in Contexts :
    ConsumeAnswer(r, ctx) = "completed" =>
      LET c == r.content IN
      /\ \E m \in Issued :
           /\ Canonical(m.content) = Canonical(c)
           /\ Plain(m.content) => c = m.content
      /\ c.issuer = ctx.issuer /\ c.audience = ctx.audience
      /\ c.device = ctx.device /\ c.exchange = ctx.exchange
      /\ devices[c.device] = "enrolled"
      /\ now < c.expiresAt /\ c.expiresAt <= c.issuedAt + MaxTtl

(* Rotation keeps earlier keys for requests in flight (proximity.rs 199):  *)
(* a minted request presented as it is, in time, by its enrolled device,   *)
(* completes, unless its own key was forgotten or replaced.                *)
InFlightSurvives ==
  \A i \in Ids \ orphaned :
    records[i] = "minted" =>
      LET c   == minted[i].content
          ctx == [issuer |-> c.issuer, audience |-> c.audience,
                  device |-> c.device, exchange |-> c.exchange,
                  authenticated |-> TRUE, available |-> TRUE]
      IN  now < c.expiresAt /\ devices[c.device] = "enrolled"
            => ConsumeAnswer(minted[i], ctx) = "completed"
=============================================================================
