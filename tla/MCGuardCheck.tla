---------------------------- MODULE MCGuardCheck -----------------------------
(* GuardCheck with one key, pinned or published, and one other request     *)
(* that brings a good token.                                               *)
EXTENDS GuardCheck

CONSTANTS k1, other

MCKids == {k1}
MCPins == {{k1}}
MCOtherTokens == {[kid |-> k1, form |-> "good"]}
=============================================================================
