SPECIFICATION FairOne
CONSTANTS
  c1 = c1  p1 = p1  p2 = p2
  theFile = theFile  theVersion = theVersion
  None = None
  f1 = f1  f2 = f2  s1 = s1  d1 = d1
  NoFile = NoFile
  Files <- TwoFiles
  Shortcuts <- Directories
  Deletions <- Deleted
  NumBlocks = 2
  Zeros <- ZeroBlocks
  Copiers <- OneCopier
  Permits = 1
  MaxTries = 2
  LeftOvers <- FirstBlock
  TruncateFails = FALSE
  Versioning = FALSE Conflicts = TRUE UserAtShortcut = FALSE UserAtGap = FALSE MaxActs = 3 MaxCrashes = 2
INVARIANTS ItemRight NoTornFile SharedStateRight DatabaseFollowsDisk QueueRight
PROPERTIES NeedIsPulled DiskChangesAreSeen ComesToItsEnd
CHECK_DEADLOCK FALSE
