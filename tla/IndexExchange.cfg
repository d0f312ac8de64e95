SPECIFICATION SpecOne
CONSTANTS
  f1 = f1
  f2 = f2
  v1 = v1
  v2 = v2
  NoVal = NoVal
  Files <- MCFiles
  Vals <- MCVals
  BatchSize = 2
  CrashWindows <- DropWindow
  MaxSeq = 4
  MaxIndexID = 2
  MaxConns = 3
  MaxResends = 0
SYMMETRY Symm
INVARIANTS TypeOK IInv DurableClaimSound NeverAhead
PROPERTY AnyCrashSafe
CHECK_DEADLOCK FALSE
