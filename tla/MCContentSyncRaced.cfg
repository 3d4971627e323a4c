SPECIFICATION Spec
CONSTANTS
  Editors = {1, 2}
  Scenarios <- MCPolling
CHECK_DEADLOCK FALSE
INVARIANT NoSaveIsEverOverwritten
