--------------------------- MODULE MCProviderJwks ----------------------------
(* ProviderJwks with two verifications and a provider that rotates between *)
(* two keys, withdraws both or lists one of them twice.                    *)
EXTENDS ProviderJwks, TLC

CONSTANTS k1, k2, c1, c2

MCKids == {k1, k2}
MCSets ==
  {[keys |-> S, twice |-> {}] : S \in {{}, {k1}, {k2}}}
    \cup {[keys |-> {k1}, twice |-> {k1}]}
MCSymmetry == Permutations({c1, c2})
=============================================================================
