SPECIFICATION FairSpec
CONSTANTS
  Nobody = Nobody
  Requesters = {r1}
  Indexers = {}
  Configs = {k1}
  Handlers = {h1}
  Closers = {}
  MaxReceived = 2
  MaxPings = 1
PROPERTIES  ClosingEnds
CHECK_DEADLOCK FALSE
