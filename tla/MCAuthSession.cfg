SPECIFICATION FairSpec
CONSTANTS
  Tabs = {1, 2}
  Users = {"u1", "u2"}
  Forms <- MCForms
  InitialTokens <- MCAny
  MaxSubmits = 2
CHECK_DEADLOCK FALSE
INVARIANTS
  TypeOK
  SessionIsStored
  SignedOutStaysOut
PROPERTY
  PagesSettle
