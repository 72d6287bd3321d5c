SPECIFICATION Spec
CONSTANTS
  Size = 3
  Values = {0, 1}
  Retries = 1
  MaxChunks = 2
  MaxCalls = 3
  MaxHeld = 1
CHECK_DEADLOCK FALSE
INVARIANTS
  TypeOK
  InSyncUnlessUpset
PROPERTIES
  TransfersAreExact
