SPECIFICATION Spec
CONSTANTS
  Bad = Bad
  Paths <- MCPaths
  Asked = {}
  Contents <- MCContents
  MovedBack = TRUE
  MaxEdits = 3
INVARIANT PatternsFollow
CHECK_DEADLOCK FALSE
