SPECIFICATION Spec
CONSTANTS
  a = a
  b = b
  c = c
  d = d
  e = e
  Node = {a, b, c, d, e}
  Self = a
  emptyIPv4 = emptyIPv4
  Databases <- SomeDatabases
INVARIANT NodesAreShortestPaths
CHECK_DEADLOCK FALSE
