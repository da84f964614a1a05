SPECIFICATION MCSpec
CONSTANTS
  Handlers = {h1, h2}
  Languages = {"en", "de"}
  TopLevel = 2
  MaxAccounts = 2
  MaxUpdates = 5
  OverlapUpdates = 4
SYMMETRY Symmetry
INVARIANTS
  AloneNoSessionOutlivesUser
PROPERTIES
  NewAccountIsEmpty
  AloneNextTextIsKey
CHECK_DEADLOCK FALSE
