\* A burst of two and a refill of three ticks, a second being two.
SPECIFICATION LimiterSpec
CONSTANTS
  Users = {u1}
  Capacity = 2
  Window = 7
  Second = 2
  MaxTime = 14
  MaxCalls = 7
INVARIANTS
  BurstThenRate
PROPERTIES
  WaitIsEnough
CHECK_DEADLOCK FALSE
