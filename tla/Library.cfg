SPECIFICATION LibrarySpec
CONSTANTS
  c1 = c1
  c2 = c2
  k1 = k1
  k2 = k2
  Connections = {c1, c2}
  Cursors = {k1, k2}
  r1 = r1
  r2 = r2
  Results = {r1, r2}
  Null = Null
  MaxRows = 2
  Bits = 4
  MicroDigits = 2
  Callers <- MCCallers
  Keys <- MCKeys
  Values <- MCValues
  Unset = Unset
SYMMETRY Symmetry
INVARIANTS NothingLost RowsDelivered ValuesFaithful ArgvSound ArgumentsAsAsked
PROPERTY RestartKeepsSettings
