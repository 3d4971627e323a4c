SPECIFICATION FairSpec
CONSTANTS
  Chars <- MCChars
  Connections <- MCTwoConnections
  Clients = {1, 2}
  ClientOf <- MCTwoClientOf
  Writers = {1, 2}
  Ids <- MCThreeOps
  RawOps <- MCInsertAndDelete
  InitialText <- MCInitialText
  SnapshotEveryOps = 2
  MaxOutbox = 3
  MayClose = {}
  NoConnection = NoConnection
CHECK_DEADLOCK FALSE
INVARIANTS
  TypeOK
  AnnouncedAsStored
  LogReplays
  AcceptedInBounds
PROPERTIES
  ImplementsDocument
  EveryRequestEnds
