SPECIFICATION OverlaySpec
CONSTANTS
  Rows = {"own"}
  Actions <- MCActions
  MaxBusy = 2
  MaxTimers = 2
CHECK_DEADLOCK FALSE
INVARIANT DialogHoldsThePage
