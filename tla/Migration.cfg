SPECIFICATION Spec
CONSTANTS
  Tables = {t1, t2}
  Views = {v1, v2, v3}
  Null = Null
  InitialRows <- MCInitialRows
  MaxRows = 3
  MaxInsertRows = 2
  MaxWrites = 1
SYMMETRY Symmetry
CONSTRAINT Followed
INVARIANTS PrunedExactly OrderSound
INVARIANTS OutputWhole NoSilentOmission RestoredWhole FailuresExplained
PROPERTY LoopsDescend
CHECK_DEADLOCK FALSE
