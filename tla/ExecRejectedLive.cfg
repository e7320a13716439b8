CONSTANTS
  a1 = a1
  a2 = a2
  v1 = v1
  o1 = o1
  c1 = c1
  c2 = c2
  p1 = p1
  d1 = d1
  d2 = d2
  g1 = g1
  g2 = g2
  g3 = g3
  None = None
  Payloads = {p1}
  Digests = {d1, d2}
  Operators = {o1}
  Times = {1}
  AttemptPayload <- MCPayload
  AttemptDigest <- MCDigest
  ActionOf <- MCAction
  IssuedAt <- MCIssued
  ExpiresAt <- MCExpires
  Attempts = {a1, a2}
  Recoverers = {}
  Orders = {c1}
  Approvals = {g1}
  Serialized = FALSE
  AttemptOrder <- MCOneOrder
SPECIFICATION Spec
INVARIANT RejectedNeverLive
