SPECIFICATION Spec
CONSTANTS
  p1 = p1
  p2 = p2
  Procs = {p1, p2}
  Simulators = {p1, p2}
  A = A
  B = B
  Protocols = {A, B}
  None = None
  NoFile = NoFile
  Windows <- MCWindows
  MinFolds <- MCMinFolds
  Lengths = {4, 5}
  MaxRuns = 3
SYMMETRY MCSymmetry
INVARIANTS
  ResearchTypeOK
  HoldoutUnseen
  OpenedOnce
  AcceptanceEarned
  LedgerOneRun
ACTION_CONSTRAINT MCOneOverlap
