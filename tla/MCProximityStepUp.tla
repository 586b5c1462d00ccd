------------------------- MODULE MCProximityStepUp --------------------------
(* ProximityStepUp with two requests, two devices, two keys and secrets.   *)
(* The id of the second device holds a separator, and so does the second   *)
(* exchange id, so two different requests may share their signed text.  A  *)
(* relay may stretch the lifetime, swap the id, the device or the exchange *)
(* id, or change a prescribed field, the key id or the sealed payload.     *)
EXTENDS ProximityStepUp, TLC

CONSTANTS i1, i2, d1, w, x, aud, n, h, iss, other, acr, k1, k2, s1, s2

MCWords   == {i1, i2, d1, w, x, aud, n, h, iss, other, acr}
MCIds     == {<<i1>>, <<i2>>}
MCDevices == {<<d1>>, <<d1, w>>}
MCKids    == {k1, k2}
MCSecrets == {s1, s2}

Exchanges == {<<x>>, <<w, x>>}

MCCommands ==
  {c \in [id : MCIds, audience : {<<aud>>}, device : MCDevices,
          exchange : Exchanges, nonce : {<<n>>}, digest : {h}] :
     Len(c.device) = 1 \/ Len(c.exchange) = 1}

(* Here, a content states its texts right or swaps them, its lifetime is   *)
(* at most that of a minted one or longer, and its fields are prescribed.  *)
Forged(i, d, e, f, t) ==
  [id |-> i, issuer |-> iss, audience |-> <<aud>>, device |-> d,
   exchange |-> e, nonce |-> <<n>>, digest |-> h, fixed |-> f,
   issuedAt |-> 0, expiresAt |-> t]
MCForgeries ==
  {Forged(i, d, e, TRUE, 1) : i \in MCIds, d \in MCDevices, e \in Exchanges}
    \cup {Forged(i, <<d1>>, <<x>>, f, 2) : i \in MCIds, f \in BOOLEAN}

Ctx(is, d, e, a, v) ==
  [issuer |-> is, audience |-> <<aud>>, device |-> d, exchange |-> e,
   authenticated |-> a, available |-> v]
MCContexts ==
  {Ctx(iss, d, e, TRUE, TRUE) : d \in MCDevices, e \in Exchanges}
    \cup {Ctx(other, <<d1>>, <<x>>, TRUE, TRUE),
          Ctx(iss, <<d1>>, <<x>>, FALSE, TRUE),
          Ctx(iss, <<d1>>, <<x>>, TRUE, FALSE)}

MCSymmetry ==
  Permutations({i1, i2}) \cup Permutations(MCKids) \cup Permutations(MCSecrets)
=============================================================================
