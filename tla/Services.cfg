SPECIFICATION FairOne
CONSTANTS
  IDs <- MCIDs
  MaxValue = 2
  MaxLen = 3
  t1 = t1  t2 = t2  t3 = t3
  Takers <- ThreeTakers  Size <- OneTwoThree  Capacities = {0, 2, 4}  MaxTakes = 3  MaxSets = 1
  root = root  dir = dir  dirA = dirA  dirB = dirB  beside = beside
  s1 = s1  s2 = s2  m1 = m1  m2 = m2
  Listeners <- TwoListeners
  BufferSize = 1  RingSize = 2  MaxLogged = 3
  Modifiers <- TwoModifiers
  maxModifications = 1
  MaxVersions = 4
INVARIANTS CompareIsRight   ConfigRight
 
CHECK_DEADLOCK FALSE
