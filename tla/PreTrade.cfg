CONSTANTS
  s1 = s1
  s2 = s2
  Symbols = {s1, s2}
  Sizes = {1, 2, 3}
  Equities = {4, 7}
  MaxOrder = 2
  GrossPct = 50
  SymbolPct = 38
  MinReserve = 3
  ReservePct = 30
  MaxOpen = 2
  MaxPerWindow = 2
  Window = 1
  MaxPerSession = 3
  SessionOpen = 0
  SessionClose = 3
  Skew = 1
  MaxTime = 3
  MaxOrders = 4
SPECIFICATION Spec
INVARIANT TypeOK
INVARIANT GrossBounded
INVARIANT ReserveKept
INVARIANT OversellBounded
INVARIANT RateBounded
SYMMETRY Symmetry
