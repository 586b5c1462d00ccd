CONSTANTS
  org = org
  web = web
  ops = ops
  u1 = u1
  u2 = u2
  t1 = t1
  t2 = t2
  s1 = s1
  Blank = Blank
  Orgs = {org}
  Audiences = {web, ops}
  Users = {u1, u2}
  Tenants = {t1, t2}
  Subjects = {s1}
  Topologies <- MCTopologies
  Accounts <- MCAccounts
  MaxChanges = 1
  MaxLanes = 2
SPECIFICATION Spec
INVARIANT TypeOK
INVARIANT AdmissionIsGrounded
INVARIANT DegradedMeansDown
INVARIANT ModesAgree
