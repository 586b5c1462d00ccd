----------------------------- MODULE MCAuthPolicy -----------------------------
(* AuthPolicy with two users, ceremonies and receipts.  Each is compared   *)
(* for equality only, so they are symmetric.                               *)
EXTENDS AuthPolicy, TLC

Symmetry ==
  Permutations(Users) \cup Permutations(Ceremonies) \cup Permutations(Receipts)
=============================================================================
