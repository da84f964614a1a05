SPECIFICATION MCSpec
CONSTANTS
  Handlers = {h1, h2}
  Screens <- MCScreens
  MaxUpdates = 6
  MaxFailures = 2
  OverlapUpdates = 3
  OverlapFailures = 1
SYMMETRY Symmetry
INVARIANTS
  AloneSingleActiveScreen
  AloneShowDelivers
CHECK_DEADLOCK FALSE
