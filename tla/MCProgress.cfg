SPECIFICATION MCSpec
CONSTANTS
  Callers = {c1, c2}
  XPPerCorrect = 1
  DailyGoal = 2
  XPBonusGoal = 5
  NoRow = NoRow
  MaxDay = 4
  MaxCalls = 6
  OverlapCalls = 4
  OverlapDays = 2
SYMMETRY Symmetry
INVARIANTS
  GoalFlagTracksCount
  LongestCoversStreak
  XPIsSumOfAwards
  AloneStreakIsRun
PROPERTY
  AloneImplementsGoalLedger
CHECK_DEADLOCK FALSE
