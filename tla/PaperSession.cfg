CONSTANTS
  None = None
  k1 = k1
  k2 = k2
  n1 = n1
  b1 = b1
  b2 = b2
  x1 = x1
  u1 = u1
  u2 = u2
  MaxRequests = 2
  Window = 2
  Codes = {b1, b2}
  Configurations = {x1}
  Accounts = {u1, u2}
  Namespaces = {n1}
  MaxTtl = 2
  Callers = {k1, k2}
  Deployments <- MCDeployments
  PreflightChecks = {"account_blocked"}
  MaxClock = 3
  MaxStepBacks = 1
  MaxRecords = 1
  MaxAdmitted = 3
SPECIFICATION Spec
SYMMETRY MCSymmetry
INVARIANT SessionTypeOK
INVARIANT WindowBounded
INVARIANT MutationsAuthorized
