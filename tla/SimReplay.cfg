CONSTANTS
  InitialCash = 100
  Prices = {1, 10, 16}
  Targets = {0, 4, 9}
  Slippage = 1
  Buffer = 2
  FeePerOrder = 5
  FeePerShare = 4
  MaxPosition = 9
  MaxOrder = 100
  MinReserve = 1
  MaxDrawdown = 6
  MaxLoss = 60
  Parts = 10
  EvalStart = 2
  MaxTime = 6
SPECIFICATION ReportSpec
INVARIANT TypeOK
INVARIANT AccountingIdentity
INVARIANT HaltedExitPending
PROPERTY NoBuyWhileHalted
PROPERTY BoundedBuyAccepted
INVARIANT ReportAgrees
