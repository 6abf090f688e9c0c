SPECIFICATION Spec
CONSTANTS
  BufSize = 4
  MaxTyped = 6
INVARIANT LongLinesTruncated
CHECK_DEADLOCK FALSE
