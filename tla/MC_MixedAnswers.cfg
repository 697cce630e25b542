CONSTANTS
  Coordinate = {"first"}
  Event <- OneEvent
  Task = {t1}
  MaxAge = 0
  Skew = 1
  ClaimTTL = 3
  RateWindow = 2
  Gap = 3
  AttemptTime = 1
SPECIFICATION Spec
INVARIANT EventPushedOnce
CHECK_DEADLOCK FALSE
