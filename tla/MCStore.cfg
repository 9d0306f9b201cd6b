SPECIFICATION Spec
CONSTANTS
  c1 = c1
  c2 = c2
  e1 = e1
  e2 = e2
  i1 = i1
  i2 = i2
  Setups <- AllSetups
  Clients <- TwoClients
  Edits <- TwoEdits
  Items <- TwoItems
  MaxCrashes = 1
SYMMETRY Symmetry
INVARIANTS
  TypeOK
  AcknowledgedIsKept
  AcceptedEditsAreKept
PROPERTY VersionsOnlyGrow
CHECK_DEADLOCK FALSE
