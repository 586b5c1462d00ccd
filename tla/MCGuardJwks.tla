---------------------------- MODULE MCGuardJwks -----------------------------
(* GuardJwks with two requests and one key, published or pinned.           *)
EXTENDS GuardJwks

CONSTANTS k1, c1, c2

MCKids == {k1}
MCPins == {{k1}}
=============================================================================
