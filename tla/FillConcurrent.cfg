CONSTANTS
  r1 = r1
  r2 = r2
  b = b
  s = s
  f = f
  None = None
  Reconcilers = {r1, r2}
  OrderIds = {b}
  Owned = {b}
  Rows = {b}
  Sign <- MCSign
  Stamped = TRUE
  PageSize = 1
  MaxPages = 2
  MaxFills = 2
SPECIFICATION Spec
INVARIANT TypeOK
INVARIANT CheckpointCovered
PROPERTY ImplementsEvidence
PROPERTY OrderRowsMonotonic
