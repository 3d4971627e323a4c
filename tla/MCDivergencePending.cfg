SPECIFICATION DSpec
CONSTANTS
  Chars <- MCChars
  Editors = {1, 2}
  Scenarios <- MCQueueing
CHECK_DEADLOCK FALSE
INVARIANT EditorAlwaysShowsItsVersion
