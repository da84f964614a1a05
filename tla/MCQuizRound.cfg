SPECIFICATION MCSpec
CONSTANTS
  Handlers = {h1, h2}
  Words = {w1, w2}
  Threshold = 2
  DeckSize = 2
  Payouts = {1, 3}
  NoStatus = NoStatus
  NoSession = NoSession
  NoButton = NoButton
  MaxPresses = 5
  OverlapPresses = 4
  OverlapPayout = 1
SYMMETRY Symmetry
INVARIANTS
  RoundConsistent
  XPReportedOnce
  AloneMasteredListTrue
  AloneRoundXPIsEarned
PROPERTY
  ImplementsScoreboard
CHECK_DEADLOCK FALSE
