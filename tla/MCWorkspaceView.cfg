SPECIFICATION Spec
CONSTANTS
  Users = {"ann", "bob"}
  Items = {1, 2, 3, 4}
  Names = {"x", "y", "z"}
  Root = 0
  Slots = {1, 2, 3}
  Pages = {1, 2}
  InitialTrees <- MCTrees
  Scenarios <- MCScenarios
CHECK_DEADLOCK FALSE
INVARIANTS
  TypeOK
  TreeIsSound
  SettledViewIsStored
  ShareDialogShowsItsItem
PROPERTY
  DialogsCloseByTheirOwn
