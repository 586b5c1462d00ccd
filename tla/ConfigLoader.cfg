CONSTANTS
  r1 = r1
  r2 = r2
  r3 = r3
  Revisions = {r1, r2, r3}
  Ancestor <- MCAncestor
  Central <- MCCentral
  Depth = 3
  MaxAncestors = 2
  Documents <- MCDocuments
  Layouts <- MCLayouts
  Written <- MCWritten
  MaxEdits = 2
SPECIFICATION Spec
CHECK_DEADLOCK FALSE
INVARIANT TypeOK
INVARIANT ReadsAValidatedFile
INVARIANT NearestConfigGoverns
INVARIANT LoadersAgree
INVARIANT ServesDeclaredPolicy
