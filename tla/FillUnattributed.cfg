CONSTANTS
  r1 = r1
  r2 = r2
  b = b
  s = s
  f = f
  None = None
  Reconcilers = {r1}
  OrderIds = {b, s}
  Owned = {b, s}
  Rows = {b, s}
  Sign <- MCSign
  Stamped = TRUE
  PageSize = 1
  MaxPages = 3
  MaxFills = 2
SPECIFICATION Spec
INVARIANT ReadyIsAttributed
