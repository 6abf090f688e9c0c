SPECIFICATION Spec
CONSTANTS
  Tables = {t1}
  Views = {v1, v2}
  Null = Null
  InitialRows <- MCInitialRows
  MaxRows = 1
  MaxInsertRows = 1
  MaxWrites = 0
CONSTRAINT Followed
INVARIANT IncompleteContinues
CHECK_DEADLOCK FALSE
