SPECIFICATION Spec
CONSTANTS
  h1 = h1
  h2 = h2
  d1 = d1
  d2 = d2
  Handles = {h1, h2}
  Dirs = {d1, d2}
  DirOf <- MCDirOf
  Ports = {p1}
  Pipes = {n1, n2}
  Aliases = {x1, x2}
  None = None
  ReadyTimeout = 3
  PhaseBudget = 1
SYMMETRY Symmetry
CONSTRAINT OneOpener
INVARIANTS EndpointLeadsHome  IOEndsInTime AliasesAccounted
