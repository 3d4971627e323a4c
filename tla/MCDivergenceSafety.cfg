SPECIFICATION DSpec
CONSTANTS
  Chars <- MCChars
  Editors = {1, 2, 3}
  Scenarios <- MCScenarios
CHECK_DEADLOCK FALSE
INVARIANTS
  TypeOK
  EditorShowsItsVersion
  QuietEditorsShowTheText
  AcceptedInTypedOrder
  OneOperationInFlight
  BadgeWaitsForAnAnswer
  SettledBadgeIsRight
