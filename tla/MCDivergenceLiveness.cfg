SPECIFICATION DFairSpec
CONSTANTS
  Chars <- MCChars
  Editors = {1, 2}
  Scenarios <- MCFairScenarios
CHECK_DEADLOCK FALSE
PROPERTIES
  QueueDrains
  DivergenceNoticed
