CONSTANTS
  u1 = u1
  u2 = u2
  r = r
  root1 = root1
  root2 = root2
  rev1 = rev1
  rev2 = rev2
  Users = {u1, u2}
  Realms = {r}
  Roots = {root1, root2}
  Revisions = {rev1, rev2}
  MaxLevel = 2
  MaxTime = 1
  Policies <- MCPolicies
  Offers <- MCOffers
  Backends <- MCBackends
  Required = {"VerifyProof", "InspectSession"}
  MaxVerdicts = 3
  MaxRepeats = 2
  MaxRevoked = 1
SPECIFICATION Spec
CHECK_DEADLOCK FALSE
INVARIANT TypeOK
INVARIANT OrderIndependent
INVARIANT VouchedByOwnBackend
PROPERTY NegativeIsFinal
PROPERTY AdmissionOnlyNarrows
