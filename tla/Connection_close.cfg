SPECIFICATION Spec
CONSTANTS
  c1 = c1
  c2 = c2
  k1 = k1
  k2 = k2
  Connections = {c1}
  Cursors = {k1, k2}
  r1 = r1
  r2 = r2
  Results = {r1, r2}
  Null = Null
  MaxRows = 1
  Bits = 1
  MicroDigits = 1
SYMMETRY Symmetry
INVARIANTS CursorKeepsConnection
