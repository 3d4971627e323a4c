SPECIFICATION FairSpec
CONSTANTS
  Editors = {1, 2}
  Scenarios <- MCScenarios
CHECK_DEADLOCK FALSE
INVARIANTS
  TypeOK
  NoSaveIsOverwritten
  SavedMeansStored
PROPERTIES
  UnsavedTextIsHeld
  DirtyIsSaved
  ViewsCatchUp
