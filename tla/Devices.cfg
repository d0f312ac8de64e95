SPECIFICATION FairOne
CONSTANTS
  s1 = s1  s2 = s2
  tcp1 = tcp1  tcp2 = tcp2  relay = relay
  f1 = f1  f2 = f2  v1 = v1  v2 = v2
  None = None
  Sides <- TwoSides
  Other <- Opposite
  Conns = {1, 2}
  Timely = TRUE
  MaxChanges = 1
INVARIANTS ConnectionsAgree Survivor
PROPERTIES IndexGetsKnown BestInTheEnd Converges
CHECK_DEADLOCK FALSE
