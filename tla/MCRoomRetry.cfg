SPECIFICATION Spec
CONSTANTS
  Chars <- MCChars
  Connections <- MCThreeConnections
  Clients = {1, 2}
  ClientOf <- MCThreeClientOf
  Writers = {1, 2}
  Ids <- MCOneEach
  RawOps <- MCTwoDeletes
  InitialText <- MCInitialText
  SnapshotEveryOps = 2
  MaxOutbox = 3
  MayClose <- MCThreeConnections
  NoConnection = NoConnection
CHECK_DEADLOCK FALSE
INVARIANTS
  RetryGetsStoredOutcome
