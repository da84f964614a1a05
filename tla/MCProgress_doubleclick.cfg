\* Two correct answers of one user processed at once.
SPECIFICATION MCSpec
CONSTANTS
  Callers = {c1, c2}
  XPPerCorrect = 1
  DailyGoal = 2
  XPBonusGoal = 5
  NoRow = NoRow
  MaxDay = 1
  MaxCalls = 3
  OverlapCalls = 3
  OverlapDays = 1
INVARIANTS
  BonusOncePerDay
CHECK_DEADLOCK FALSE
