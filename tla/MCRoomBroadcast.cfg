SPECIFICATION Spec
CONSTANTS
  Chars <- MCChars
  Connections <- MCFourConnections
  Clients = {1, 2, 3}
  ClientOf <- MCFourClientOf
  Writers = {1}
  Ids <- MCOne
  RawOps <- MCInsert
  InitialText <- MCInitialText
  SnapshotEveryOps = 1
  MaxOutbox = 3
  MayClose <- MCTwoConnections
  NoConnection = NoConnection
CHECK_DEADLOCK FALSE
INVARIANTS
  SnapshotsAreHistory
  RoomMirrorsDatabase
  AcceptedOnce
  DeliveryComplete
  ServedMeansRegistered
