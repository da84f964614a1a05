SPECIFICATION MCSpec
CONSTANTS
  Handlers = {h1, h2}
  TopLevel = 6
  MaxOpens = 5
  OverlapOpens = 3
SYMMETRY Symmetry
INVARIANTS
  OriginalKept
  ClosestSource
  AloneShownUnlessEmpty
PROPERTY
  AloneLevelsOnlyGrow
CHECK_DEADLOCK FALSE
