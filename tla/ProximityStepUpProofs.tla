----------------------- MODULE ProximityStepUpProofs ------------------------
(***************************************************************************)
(* Proofs about ProximityStepUp, for any number of requests, devices, keys *)
(* and secrets, any texts, any clock and any forged contents.              *)
(***************************************************************************)
EXTENDS ProximityStepUp, SequenceTheorems, TLAPS

(* A request is as mint made it.                                           *)
RequestInv ==
  \A i \in Ids : minted[i] # NoRequest =>
    LET r == minted[i] IN
    /\ r.content.id = i /\ r.content.fixed /\ r.sealed
    /\ r.content.issuer = Issuer
    /\ r.mac.over = Canonical(r.content)
    /\ r.content.issuedAt < r.content.expiresAt
    /\ r.content.expiresAt <= r.content.issuedAt + MaxTtl

(* A request that is not orphaned still finds the key it was signed with.  *)
KeyInv ==
  \A i \in Ids \ orphaned : minted[i] # NoRequest =>
    keys[minted[i].kid] = minted[i].mac.secret

(* The record of a request says how often it has completed.                *)
UseInv ==
  \A i \in Ids : completions[i] = IF records[i] = "consumed" THEN 1 ELSE 0

IInv == TypeOK /\ RequestInv /\ KeyInv /\ UseInv

-----------------------------------------------------------------------------
(* Two concatenations are equal only part by part, once the first parts    *)
(* are as long as each other.                                              *)
LEMMA SameParts ==
  ASSUME NEW S, NEW a \in Seq(S), NEW b \in Seq(S),
         NEW c \in Seq(S), NEW d \in Seq(S),
         a \o b = c \o d, Len(a) = Len(c)
  PROVE  a = c /\ b = d
<1>1. /\ a \o b \in Seq(S) /\ c \o d \in Seq(S)
      /\ Len(a \o b) = Len(a) + Len(b) /\ Len(c \o d) = Len(c) + Len(d)
  BY ConcatProperties
<1>2. \A i \in 1 .. Len(a) + Len(b) : (a \o b)[i] =
        IF i <= Len(a) THEN a[i] ELSE b[i - Len(a)]
  BY ConcatProperties
<1>3. \A i \in 1 .. Len(c) + Len(d) : (c \o d)[i] =
        IF i <= Len(c) THEN c[i] ELSE d[i - Len(c)]
  BY ConcatProperties
<1>4. Len(a) \in Nat /\ Len(b) \in Nat /\ Len(d) \in Nat /\ Len(b) = Len(d)
  BY <1>1
<1>5. \A i \in 1 .. Len(a) : a[i] = c[i]
  BY <1>2, <1>3, <1>4
<1>6. \A i \in 1 .. Len(b) : b[i] = d[i]
  <2>. SUFFICES ASSUME NEW i \in 1 .. Len(b) PROVE b[i] = d[i]
    OBVIOUS
  <2>1. /\ i + Len(a) \in 1 .. Len(a) + Len(b) /\ ~(i + Len(a) <= Len(a))
        /\ (i + Len(a)) - Len(a) = i
    BY <1>4
  <2>. QED BY <2>1, <1>2, <1>3, <1>4
<1>. QED BY <1>4, <1>5, <1>6, SeqEqual

(* The fields of a content that is signed are texts, and none is empty.    *)
LEMMA ContentTexts ==
  ASSUME NEW c \in Content
  PROVE  \A t \in {c.id, c.audience, c.device, c.exchange, c.nonce} :
           t \in Seq(Words \cup Nat) /\ Len(t) \in Nat /\ Len(t) >= 1
<1>1. \A t \in {c.id, c.audience, c.device, c.exchange, c.nonce} : t \in Texts
  BY TextAssumption DEF Content
<1>2. ASSUME NEW t \in Texts
      PROVE  t \in Seq(Words \cup Nat) /\ Len(t) \in Nat /\ Len(t) >= 1
  <2>1. t \in Seq(Words) /\ t # <<>>
    BY DEF Texts
  <2>2. Len(t) \in Nat /\ Len(t) # 0 /\ t \in [1 .. Len(t) -> Words]
    BY <2>1, EmptySeq
  <2>3. t \in [1 .. Len(t) -> Words \cup Nat]
    BY <2>2
  <2>. QED BY <2>2, <2>3
<1>. QED BY <1>1, <1>2

(* The text that is signed, cut into its parts from the left; and how long *)
(* it is.                                                                  *)
Tail5(c) == c.nonce \o <<c.digest>>
Tail4(c) == <<Acr, c.issuedAt, c.expiresAt>> \o Tail5(c)
Tail3(c) == c.exchange \o Tail4(c)
Tail2(c) == c.device \o Tail3(c)
Tail1(c) == c.audience \o Tail2(c)
Tail0(c) == <<c.issuer>> \o Tail1(c)

LEMMA CanonicalParts ==
  ASSUME NEW c \in Content
  PROVE  /\ Canonical(c) = c.id \o Tail0(c)
         /\ <<c.issuer>> \in Seq(Words \cup Nat)
         /\ <<Acr, c.issuedAt, c.expiresAt>> \in Seq(Words \cup Nat)
         /\ <<c.digest>> \in Seq(Words \cup Nat)
         /\ Tail5(c) \in Seq(Words \cup Nat) /\ Len(Tail5(c)) = Len(c.nonce) + 1
         /\ Tail4(c) \in Seq(Words \cup Nat) /\ Len(Tail4(c)) = 3 + Len(Tail5(c))
         /\ Tail3(c) \in Seq(Words \cup Nat)
         /\ Len(Tail3(c)) = Len(c.exchange) + Len(Tail4(c))
         /\ Tail2(c) \in Seq(Words \cup Nat)
         /\ Len(Tail2(c)) = Len(c.device) + Len(Tail3(c))
         /\ Tail1(c) \in Seq(Words \cup Nat)
         /\ Len(Tail1(c)) = Len(c.audience) + Len(Tail2(c))
         /\ Tail0(c) \in Seq(Words \cup Nat)
         /\ Len(Tail0(c)) = 1 + Len(Tail1(c))
         /\ Canonical(c) \in Seq(Words \cup Nat)
         /\ Len(Canonical(c)) = Len(c.id) + Len(Tail0(c))
<1>. DEFINE W == Words \cup Nat
<1>1. c.issuer \in W /\ c.digest \in W /\ Acr \in W
      /\ c.issuedAt \in W /\ c.expiresAt \in W
  BY TextAssumption DEF Content
<1>2. /\ c.id \in Seq(W) /\ c.audience \in Seq(W) /\ c.device \in Seq(W)
      /\ c.exchange \in Seq(W) /\ c.nonce \in Seq(W)
  BY ContentTexts
<1>. HIDE DEF W
<1>3. /\ <<c.issuer>> \in Seq(W) /\ Len(<<c.issuer>>) = 1
      /\ <<c.digest>> \in Seq(W) /\ Len(<<c.digest>>) = 1
      /\ <<Acr, c.issuedAt, c.expiresAt>> \in Seq(W)
      /\ Len(<<Acr, c.issuedAt, c.expiresAt>>) = 3
  BY <1>1
<1>4. ASSUME NEW s \in Seq(W), NEW t \in Seq(W)
      PROVE  s \o t \in Seq(W) /\ Len(s \o t) = Len(s) + Len(t)
  BY ConcatProperties
<1>5. Tail5(c) \in Seq(W) /\ Len(Tail5(c)) = Len(c.nonce) + 1
  BY <1>2, <1>3, <1>4 DEF Tail5
<1>6. Tail4(c) \in Seq(W) /\ Len(Tail4(c)) = 3 + Len(Tail5(c))
  BY <1>3, <1>4, <1>5 DEF Tail4
<1>7. Tail3(c) \in Seq(W) /\ Len(Tail3(c)) = Len(c.exchange) + Len(Tail4(c))
  BY <1>2, <1>4, <1>6 DEF Tail3
<1>8. Tail2(c) \in Seq(W) /\ Len(Tail2(c)) = Len(c.device) + Len(Tail3(c))
  BY <1>2, <1>4, <1>7 DEF Tail2
<1>9. Tail1(c) \in Seq(W) /\ Len(Tail1(c)) = Len(c.audience) + Len(Tail2(c))
  BY <1>2, <1>4, <1>8 DEF Tail1
<1>10. Tail0(c) \in Seq(W) /\ Len(Tail0(c)) = 1 + Len(Tail1(c))
  BY <1>3, <1>4, <1>9 DEF Tail0
<1>11. Canonical(c) = c.id \o Tail0(c)
  BY DEF Canonical, Tail0, Tail1, Tail2, Tail3, Tail4, Tail5
<1>12. Canonical(c) \in Seq(W) /\ Len(Canonical(c)) = Len(c.id) + Len(Tail0(c))
  BY <1>2, <1>4, <1>10, <1>11
<1>. QED BY <1>3, <1>5, <1>6, <1>7, <1>8, <1>9, <1>10, <1>11, <1>12 DEF W

(* The text of a content whose own texts hold no separator is nobody       *)
(* else's: as no field is empty, all of the other's are as short, and the  *)
(* two agree field by field.                                               *)
LEMMA PlainIsInjective ==
  ASSUME NEW a \in Content, NEW b \in Content,
         Plain(a), Canonical(a) = Canonical(b), a.fixed, b.fixed
  PROVE  a = b
<1>. DEFINE W == Words \cup Nat
<1>. DEFINE Parts(c) ==
       /\ Tail0(c) \in Seq(W) /\ Tail1(c) \in Seq(W) /\ Tail2(c) \in Seq(W)
       /\ Tail3(c) \in Seq(W) /\ Tail4(c) \in Seq(W) /\ Tail5(c) \in Seq(W)
       /\ <<c.issuer>> \in Seq(W) /\ <<c.digest>> \in Seq(W)
       /\ <<Acr, c.issuedAt, c.expiresAt>> \in Seq(W)
<1>0. Parts(a) /\ Parts(b)
  BY CanonicalParts
<1>1. /\ Len(a.id) = 1 /\ Len(a.audience) = 1 /\ Len(a.device) = 1
      /\ Len(a.exchange) = 1 /\ Len(a.nonce) = 1
  BY DEF Plain
<1>2. \A t \in {b.id, b.audience, b.device, b.exchange, b.nonce} :
        t \in Seq(W) /\ Len(t) \in Nat /\ Len(t) >= 1
  BY ContentTexts
<1>3. /\ Len(b.id) = 1 /\ Len(b.audience) = 1 /\ Len(b.device) = 1
      /\ Len(b.exchange) = 1 /\ Len(b.nonce) = 1
  <2>. DEFINE Total(c) ==
         Len(c.id) + (1 + (Len(c.audience) + (Len(c.device)
           + (Len(c.exchange) + (3 + (Len(c.nonce) + 1))))))
  <2>0. ASSUME NEW c \in Content PROVE Len(Canonical(c)) = Total(c)
    <3>1. /\ Len(Canonical(c)) = Len(c.id) + Len(Tail0(c))
          /\ Len(Tail0(c)) = 1 + Len(Tail1(c))
          /\ Len(Tail1(c)) = Len(c.audience) + Len(Tail2(c))
      BY CanonicalParts
    <3>2. /\ Len(Tail2(c)) = Len(c.device) + Len(Tail3(c))
          /\ Len(Tail3(c)) = Len(c.exchange) + Len(Tail4(c))
          /\ Len(Tail4(c)) = 3 + Len(Tail5(c))
          /\ Len(Tail5(c)) = Len(c.nonce) + 1
      BY CanonicalParts
    <3>. QED BY <3>1, <3>2
  <2>1. Total(a) = 10
    BY <1>1
  <2>2. Total(a) = Total(b)
    BY <2>0
  <2>. DEFINE p == Len(b.id)
              q == Len(b.audience)
              r == Len(b.device)
              s == Len(b.exchange)
              t == Len(b.nonce)
  <2>3. /\ p \in Nat /\ q \in Nat /\ r \in Nat /\ s \in Nat /\ t \in Nat
        /\ p >= 1 /\ q >= 1 /\ r >= 1 /\ s >= 1 /\ t >= 1
    BY <1>2
  <2>4. p + (1 + (q + (r + (s + (3 + (t + 1)))))) = 10
    BY <2>1, <2>2
  <2>. HIDE DEF p, q, r, s, t
  <2>5. p = 1 /\ q = 1 /\ r = 1 /\ s = 1 /\ t = 1
    BY <2>3, <2>4
  <2>. QED BY <2>5 DEF p, q, r, s, t
<1>4. \A t \in {a.id, a.audience, a.device, a.exchange, a.nonce} :
        t \in Seq(W)
  BY ContentTexts
<1>. HIDE DEF W
<1>s. ASSUME NEW s \in Seq(W), NEW t \in Seq(W), NEW u \in Seq(W),
             NEW v \in Seq(W), s \o t = u \o v, Len(s) = Len(u)
      PROVE  s = u /\ t = v
  BY <1>s, SameParts, Zenon
<1>5. a.id = b.id /\ Tail0(a) = Tail0(b)
  <2>1. a.id \o Tail0(a) = b.id \o Tail0(b)
    BY CanonicalParts
  <2>2. Len(a.id) = Len(b.id) /\ a.id \in Seq(W) /\ b.id \in Seq(W)
    BY <1>1, <1>2, <1>3, <1>4
  <2>. QED BY <2>1, <2>2, <1>0, <1>s, Zenon
<1>6. a.issuer = b.issuer /\ Tail1(a) = Tail1(b)
  <2>1. <<a.issuer>> \o Tail1(a) = <<b.issuer>> \o Tail1(b)
    BY <1>5 DEF Tail0
  <2>2. <<a.issuer>> = <<b.issuer>> /\ Tail1(a) = Tail1(b)
    <3>1. Len(<<a.issuer>>) = Len(<<b.issuer>>)
      OBVIOUS
    <3>. QED BY <2>1, <3>1, <1>0, <1>s, Zenon
  <2>. QED BY <2>2
<1>7. a.audience = b.audience /\ Tail2(a) = Tail2(b)
  <2>1. a.audience \o Tail2(a) = b.audience \o Tail2(b)
    BY <1>6 DEF Tail1
  <2>2. /\ Len(a.audience) = Len(b.audience)
        /\ a.audience \in Seq(W) /\ b.audience \in Seq(W)
    BY <1>1, <1>2, <1>3, <1>4
  <2>. QED BY <2>1, <2>2, <1>0, <1>s, Zenon
<1>8. a.device = b.device /\ Tail3(a) = Tail3(b)
  <2>1. a.device \o Tail3(a) = b.device \o Tail3(b)
    BY <1>7 DEF Tail2
  <2>2. /\ Len(a.device) = Len(b.device)
        /\ a.device \in Seq(W) /\ b.device \in Seq(W)
    BY <1>1, <1>2, <1>3, <1>4
  <2>. QED BY <2>1, <2>2, <1>0, <1>s, Zenon
<1>9. a.exchange = b.exchange /\ Tail4(a) = Tail4(b)
  <2>1. a.exchange \o Tail4(a) = b.exchange \o Tail4(b)
    BY <1>8 DEF Tail3
  <2>2. /\ Len(a.exchange) = Len(b.exchange)
        /\ a.exchange \in Seq(W) /\ b.exchange \in Seq(W)
    BY <1>1, <1>2, <1>3, <1>4
  <2>. QED BY <2>1, <2>2, <1>0, <1>s, Zenon
<1>10. /\ a.issuedAt = b.issuedAt /\ a.expiresAt = b.expiresAt
       /\ Tail5(a) = Tail5(b)
  <2>. DEFINE x == <<Acr, a.issuedAt, a.expiresAt>>
              y == <<Acr, b.issuedAt, b.expiresAt>>
  <2>1. x \o Tail5(a) = y \o Tail5(b)
    BY <1>9 DEF Tail4
  <2>2. Len(x) = Len(y) /\ x \in Seq(W) /\ y \in Seq(W)
    BY <1>0
  <2>. HIDE DEF x, y
  <2>3. x = y /\ Tail5(a) = Tail5(b)
    BY <2>1, <2>2, <1>0, <1>s, Zenon
  <2>. QED BY <2>3 DEF x, y
<1>11. a.nonce = b.nonce /\ a.digest = b.digest
  <2>1. a.nonce \o <<a.digest>> = b.nonce \o <<b.digest>>
    BY <1>10 DEF Tail5
  <2>2. a.nonce = b.nonce /\ <<a.digest>> = <<b.digest>>
    <3>1. /\ Len(a.nonce) = Len(b.nonce)
          /\ a.nonce \in Seq(W) /\ b.nonce \in Seq(W)
      BY <1>1, <1>2, <1>3, <1>4
    <3>. QED BY <2>1, <3>1, <1>0, <1>s, Zenon
  <2>. QED BY <2>2
<1>. QED
  BY <1>5, <1>6, <1>7, <1>8, <1>9, <1>10, <1>11 DEF Content

-----------------------------------------------------------------------------
(* A request that completes carries the signature, and so the signed text, *)
(* of a minted request, and its own id has been minted.                    *)
LEMMA CompletedIsMinted ==
  ASSUME TypeOK, RequestInv,
         NEW r \in Presented, NEW ctx \in Contexts,
         ConsumeAnswer(r, ctx) = "completed"
  PROVE  /\ r.content \in Content /\ r.content.id \in Ids /\ r.content.fixed
         /\ records[r.content.id] = "minted"
         /\ \E i \in Ids : /\ minted[i] # NoRequest
                           /\ Canonical(minted[i].content) = Canonical(r.content)
<1>1. r \in Request /\ \E i \in Ids : minted[i] # NoRequest /\ r.mac = minted[i].mac
  <2>1. CASE r \in Issued
    BY <2>1 DEF Issued, TypeOK
  <2>2. CASE r \notin Issued
    <3>1. r \in [content : Forgeries, kid : Kids, sealed : BOOLEAN,
                 mac : {x.mac : x \in Issued}]
      BY <2>2 DEF Presented
    <3>2. PICK x \in Issued : r.mac = x.mac
      BY <3>1
    <3>3. x \in Request
      BY DEF Issued, TypeOK
    <3>4. x.mac \in Mac
      BY <3>3 DEF Request
    <3>5. r \in Request
      BY <3>1, <3>2, <3>4, CallAssumption DEF Request
    <3>. QED BY <3>2, <3>5 DEF Issued
  <2>. QED BY <2>1, <2>2
<1>2. PICK i \in Ids : minted[i] # NoRequest /\ r.mac = minted[i].mac
  BY <1>1
<1>3. SignatureOk(r) /\ r.content.fixed
  BY DEF ConsumeAnswer
<1>4. r.mac.over = Canonical(r.content)
  BY <1>3, <1>1 DEF SignatureOk
<1>5. Canonical(minted[i].content) = Canonical(r.content)
  BY <1>2, <1>4 DEF RequestInv
<1>6. r.content \in Content
  BY <1>1 DEF Request
<1>7. r.content.id \in Ids
  BY <1>6 DEF Content
<1>8. records[r.content.id] = "minted"
  <2>1. records[r.content.id] # "consumed" /\ records[r.content.id] # "none"
    BY DEF ConsumeAnswer
  <2>. QED BY <2>1, <1>7 DEF TypeOK
<1>. QED BY <1>2, <1>3, <1>5, <1>6, <1>7, <1>8

LEMMA InitIInv == Init => IInv
BY TimeAssumption, SecretAssumption
   DEF Init, IInv, TypeOK, RequestInv, KeyInv, UseInv

LEMMA StepIInv == IInv /\ [Next]_vars => IInv'
<1>. SUFFICES ASSUME IInv, [Next]_vars PROVE IInv'
  OBVIOUS
<1>. USE DEF IInv
<1>1. ASSUME NEW d \in Devices, EnrollDevice(d) PROVE IInv'
  BY <1>1 DEF EnrollDevice, TypeOK, RequestInv, KeyInv, UseInv
<1>2. ASSUME NEW d \in Devices, RevokeDevice(d) PROVE IInv'
  BY <1>2 DEF RevokeDevice, TypeOK, RequestInv, KeyInv, UseInv
<1>3. ASSUME NEW k \in Kids, ForgetKey(k) PROVE IInv'
  <2>1. TypeOK'
    BY <1>3 DEF ForgetKey, TypeOK, SignedUnder
  <2>2. RequestInv' /\ UseInv'
    BY <1>3 DEF ForgetKey, RequestInv, UseInv
  <2>3. KeyInv'
    BY <1>3 DEF ForgetKey, KeyInv, TypeOK, SignedUnder, Request
  <2>. QED BY <2>1, <2>2, <2>3
<1>4. ASSUME NEW k \in Kids, NEW s \in Secrets, RotateKey(k, s) PROVE IInv'
  <2>1. TypeOK'
    BY <1>4 DEF RotateKey, TypeOK, SignedUnder
  <2>2. RequestInv' /\ UseInv'
    BY <1>4 DEF RotateKey, RequestInv, UseInv
  <2>3. KeyInv'
    BY <1>4 DEF RotateKey, KeyInv, TypeOK, SignedUnder, Request
  <2>. QED BY <2>1, <2>2, <2>3
<1>5. ASSUME NEW c \in Commands, NEW ttl \in 0 .. MaxTtl + 1, Mint(c, ttl)
      PROVE  IInv'
  <2>. DEFINE i == c.id
              r == NewRequest(c, ttl)
  <2>1. /\ minted' = [minted EXCEPT ![i] = r]
        /\ records' = [records EXCEPT ![i] = "minted"]
        /\ UNCHANGED <<now, keys, activeKid, devices, orphaned, completions>>
        /\ MintAnswer(c, ttl) = "minted"
    BY <1>5 DEF Mint
  <2>2. ttl # 0 /\ ttl <= MaxTtl /\ records[i] = "none"
    BY <2>1, TimeAssumption DEF MintAnswer
  <2>3. keys[activeKid] \in Secrets
    BY <2>1 DEF MintAnswer, TypeOK
  <2>4. c \in Command /\ i \in Ids
    BY CallAssumption DEF Command
  <2>5. /\ r.content \in Content /\ r.kid = activeKid /\ r.sealed
        /\ r.content.id = i /\ r.content.fixed /\ r.content.issuer = Issuer
        /\ r.content.issuedAt = now /\ r.content.expiresAt = now + ttl
        /\ r.mac = [secret |-> keys[activeKid], over |-> Canonical(r.content)]
        /\ r = [content |-> r.content, kid |-> r.kid, sealed |-> r.sealed,
                mac |-> r.mac]
    BY <2>4, TimeAssumption, TextAssumption
       DEF NewRequest, Content, Command, TypeOK
  <2>. HIDE DEF r, i
  <2>6. r.mac \in Mac
    BY <2>3, <2>5, CanonicalParts DEF Mac
  <2>7. r \in Request
    BY <2>5, <2>6 DEF Request, TypeOK
  <2>8. TypeOK'
    BY <2>1, <2>4, <2>7, SecretAssumption DEF TypeOK
  <2>9. RequestInv'
    <3>1. /\ r.content.issuedAt < r.content.expiresAt
          /\ r.content.expiresAt <= r.content.issuedAt + MaxTtl
      BY <2>2, <2>5, TimeAssumption DEF TypeOK
    <3>2. r.mac.over = Canonical(r.content)
      BY <2>5
    <3>. QED BY <2>1, <2>5, <3>1, <3>2 DEF RequestInv, TypeOK
  <2>10. KeyInv'
    <3>1. keys[r.kid] = r.mac.secret
      BY <2>5
    <3>. QED BY <2>1, <3>1 DEF KeyInv, TypeOK
  <2>11. UseInv'
    BY <2>1, <2>2 DEF UseInv, TypeOK
  <2>. QED BY <2>8, <2>9, <2>10, <2>11
<1>6. ASSUME NEW r \in Presented, NEW ctx \in Contexts, Consume(r, ctx)
      PROVE  IInv'
  <2>. DEFINE i == r.content.id
  <2>1. /\ ConsumeAnswer(r, ctx) = "completed"
        /\ records' = [records EXCEPT ![i] = "consumed"]
        /\ completions' = [completions EXCEPT ![i] = @ + 1]
        /\ UNCHANGED <<now, keys, activeKid, devices, minted, orphaned>>
    BY <1>6 DEF Consume
  <2>2. i \in Ids /\ records[i] = "minted"
    BY <2>1, CompletedIsMinted
  <2>. HIDE DEF i
  <2>3. TypeOK'
    BY <2>1, <2>2 DEF TypeOK
  <2>4. RequestInv' /\ KeyInv'
    BY <2>1 DEF RequestInv, KeyInv
  <2>5. UseInv'
    BY <2>1, <2>2 DEF UseInv, TypeOK
  <2>. QED BY <2>3, <2>4, <2>5
<1>7. ASSUME NEW t \in 0 .. MaxTime, SetClock(t) PROVE IInv'
  BY <1>7 DEF SetClock, TypeOK, RequestInv, KeyInv, UseInv
<1>8. CASE UNCHANGED vars
  BY <1>8 DEF vars, TypeOK, RequestInv, KeyInv, UseInv
<1>. QED
  BY <1>1, <1>2, <1>3, <1>4, <1>5, <1>6, <1>7, <1>8 DEF Next

LEMMA AlwaysIInv == Spec => []IInv
BY InitIInv, StepIInv, PTL DEF Spec

-----------------------------------------------------------------------------
(* The variables keep their types, and records and requests agree.         *)
THEOREM TypeCorrect == Spec => []TypeOK
<1>1. IInv => TypeOK
  BY DEF IInv
<1>. QED BY <1>1, AlwaysIInv, PTL

(* A request completes at most once, whoever presents it how often.        *)
THEOREM OneUseCorrect == Spec => []OneUse
<1>1. IInv => OneUse
  <2>. SUFFICES ASSUME IInv, NEW i \in Ids PROVE completions[i] <= 1
    BY DEF OneUse
  <2>. QED BY DEF IInv, UseInv
<1>. QED BY <1>1, AlwaysIInv, PTL

(* Whatever completes has the signed text of a minted request, is that     *)
(* request when its texts hold no separator, and completes in time, where  *)
(* it says, for an enrolled device.                                        *)
THEOREM CompletedAsMintedCorrect == Spec => []CompletedAsMinted
<1>1. IInv => CompletedAsMinted
  <2>. SUFFICES ASSUME IInv, NEW r \in Presented, NEW ctx \in Contexts,
                       ConsumeAnswer(r, ctx) = "completed"
                PROVE  LET c == r.content IN
                       /\ \E m \in Issued :
                            /\ Canonical(m.content) = Canonical(c)
                            /\ Plain(m.content) => c = m.content
                       /\ c.issuer = ctx.issuer /\ c.audience = ctx.audience
                       /\ c.device = ctx.device /\ c.exchange = ctx.exchange
                       /\ devices[c.device] = "enrolled"
                       /\ now < c.expiresAt
                       /\ c.expiresAt <= c.issuedAt + MaxTtl
    BY DEF CompletedAsMinted
  <2>1. r.content \in Content /\ r.content.fixed
    BY CompletedIsMinted DEF IInv
  <2>2. PICK i \in Ids : /\ minted[i] # NoRequest
                         /\ Canonical(minted[i].content) = Canonical(r.content)
    BY CompletedIsMinted DEF IInv
  <2>3. minted[i] \in Issued /\ minted[i] \in Request
    BY <2>2 DEF Issued, IInv, TypeOK
  <2>4. minted[i].content \in Content /\ minted[i].content.fixed
    BY <2>2, <2>3 DEF IInv, RequestInv, Request
  <2>5. Plain(minted[i].content) => r.content = minted[i].content
    BY <2>1, <2>2, <2>4, PlainIsInjective
  <2>6. /\ r.content.issuer = ctx.issuer /\ r.content.audience = ctx.audience
        /\ r.content.device = ctx.device /\ r.content.exchange = ctx.exchange
        /\ ~(r.content.expiresAt > r.content.issuedAt + MaxTtl)
        /\ ~(now >= r.content.expiresAt)
        /\ devices[r.content.device] # "revoked"
        /\ devices[r.content.device] # "unknown"
    BY DEF ConsumeAnswer
  <2>7. devices[r.content.device] = "enrolled"
    BY <2>1, <2>6 DEF IInv, TypeOK, Content
  <2>8. /\ now < r.content.expiresAt
        /\ r.content.expiresAt <= r.content.issuedAt + MaxTtl
    BY <2>1, <2>6, TimeAssumption DEF IInv, TypeOK, Content
  <2>. QED BY <2>2, <2>3, <2>5, <2>6, <2>7, <2>8
<1>. QED BY <1>1, AlwaysIInv, PTL

(* A request in flight survives rotation of the keys.                      *)
THEOREM InFlightCorrect == Spec => []InFlightSurvives
<1>1. IInv => InFlightSurvives
  <2>. SUFFICES ASSUME IInv PROVE InFlightSurvives
    OBVIOUS
  <2>0. \A i \in Ids : records[i] = "minted" => minted[i] \in Request
    BY DEF IInv, TypeOK
  <2>. SUFFICES ASSUME NEW i \in Ids \ orphaned, records[i] = "minted",
                       NEW ctx,
                       ctx.issuer = minted[i].content.issuer,
                       ctx.audience = minted[i].content.audience,
                       ctx.device = minted[i].content.device,
                       ctx.exchange = minted[i].content.exchange,
                       ctx.authenticated = TRUE, ctx.available = TRUE,
                       now < minted[i].content.expiresAt,
                       devices[minted[i].content.device] = "enrolled"
                PROVE  ConsumeAnswer(minted[i], ctx) = "completed"
    BY <2>0 DEF InFlightSurvives
  <2>1. minted[i] # NoRequest /\ minted[i] \in Request
    BY DEF IInv, TypeOK
  <2>2. /\ minted[i].content \in Content /\ minted[i].mac \in Mac
    BY <2>1 DEF Request
  <2>3. /\ minted[i].content.id = i /\ minted[i].content.fixed
        /\ minted[i].sealed /\ minted[i].content.issuer = Issuer
        /\ minted[i].mac.over = Canonical(minted[i].content)
        /\ minted[i].content.issuedAt < minted[i].content.expiresAt
        /\ minted[i].content.expiresAt <= minted[i].content.issuedAt + MaxTtl
    BY <2>1 DEF IInv, RequestInv
  <2>4. keys[minted[i].kid] = minted[i].mac.secret
    BY <2>1 DEF IInv, KeyInv
  <2>5. keys[minted[i].kid] # NoSecret
    BY <2>2, <2>4, SecretAssumption DEF Mac
  <2>6. SignatureOk(minted[i])
    BY <2>2, <2>3, <2>4 DEF SignatureOk, Mac
  <2>7. /\ ~(minted[i].content.expiresAt <= minted[i].content.issuedAt)
        /\ ~(minted[i].content.expiresAt
               > minted[i].content.issuedAt + MaxTtl)
        /\ ~(now >= minted[i].content.expiresAt)
    BY <2>2, <2>3, TimeAssumption DEF Content, IInv, TypeOK
  <2>. QED
    BY <2>3, <2>5, <2>6, <2>7 DEF ConsumeAnswer
<1>. QED BY <1>1, AlwaysIInv, PTL
=============================================================================
