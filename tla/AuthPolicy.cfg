CONSTANTS
  Users = {u1, u2}
  Ceremonies = {c1, c2}
  Receipts = {r1, r2}
  Expiries = {1, 3}
  None = None
  Deadline = 2
  MaxTime = 2
SYMMETRY Symmetry
SPECIFICATION Spec
INVARIANT TypeOK
INVARIANT OrderIndependent
INVARIANT AdmissionEarned
PROPERTY AdmissionKept
