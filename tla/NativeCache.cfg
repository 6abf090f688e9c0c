SPECIFICATION EitherSpec
CONSTANTS
  Processes = {p1, p2}
  Old = Old
  Root = Root
  Null = Null
  Refused = {p1}
  Tries = 2
  MaxMeddling = 3
INVARIANTS PublishedComplete MappedFilesKept ErrorsExplained GenerationsWhole
PROPERTIES NoGap KeepsPromise GenerationsKeepPromise
CHECK_DEADLOCK FALSE
