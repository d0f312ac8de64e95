SPECIFICATION Spec
CONSTANTS
  Nobody = Nobody
  Requesters = {r1}
  Indexers = {x1}
  Configs = {k1}
  Handlers = {h1}
  Closers = {c1}
  MaxReceived = 2
  MaxPings = 0
INVARIANTS WireRight RequestsRight
CHECK_DEADLOCK FALSE
