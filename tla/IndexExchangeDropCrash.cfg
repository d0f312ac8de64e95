SPECIFICATION SpecOne
CONSTANTS
  f1 = f1
  f2 = f2
  v1 = v1
  v2 = v2
  NoVal = NoVal
  Files <- MCFiles
  Vals <- MCVals
  BatchSize = 2
  CrashWindows <- DropWindow
  MaxSeq = 3
  MaxIndexID = 1
  MaxConns = 2
  MaxResends = 1
SYMMETRY Symm
INVARIANT RestingClaimSound
CHECK_DEADLOCK FALSE
