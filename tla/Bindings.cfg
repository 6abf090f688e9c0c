SPECIFICATION ProgramSpec
CONSTANTS
  Opens = {o1, o2, o3, o4}
  Pool = 2
  Threads = {t1, t2}
  Roots = {r1, r2}
  Default = r1
  MaxObjects = 1
  Unset = Unset
  Invalid = Invalid
  Null = Null
  Objects = {j1, j2}
  MaxParams = 2
  BufSize = 4
  MaxTyped = 6
INVARIANTS HandleHasOneOwner RightBundle NativeCallsSafe TypedIsExecuted
PROPERTY OpensSettle
CHECK_DEADLOCK FALSE
