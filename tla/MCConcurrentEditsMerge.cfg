SPECIFICATION CSpec
CONSTANTS
  Chars <- MCChars
  Authors = {1, 2, 3}
  Original <- MCOriginal
  MaxInsert = 2
  Wide <- MCWide
  Watcher = 9
  Selections <- MCSelections
CHECK_DEADLOCK FALSE
INVARIANTS EditorsConvergeMostly OriginalTextAsIntended MergedAsIntended CursorsKeepTheirPlace
