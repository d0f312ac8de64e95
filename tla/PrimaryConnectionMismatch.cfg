SPECIFICATION Spec
CONSTANTS
  a = a  b = b
  None = None
  Sides <- TwoSides
  Other <- Opposite
  Conns = {1, 2}
  Timely = TRUE
  MaxChanges = 1
INVARIANT IndexHasHandlers
CHECK_DEADLOCK FALSE
