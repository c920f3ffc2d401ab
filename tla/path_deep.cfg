SPECIFICATION Spec
CONSTANTS
  a = a
  b = b
  Dirs = {0, 1, 2, 3, 4}
  Root = 0
  Names = {a, b}
  NoEntry = none
  AFile = file
  Lookup <- MCLookup
  Level <- MCLevel
  MaxDepth = 2
  CwdNames = 2
  Paths <- MCPaths
  BadName = bad
PROPERTIES UpIsParent
